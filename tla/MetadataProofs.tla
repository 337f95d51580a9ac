--------------------------- MODULE MetadataProofs ---------------------------
(***************************************************************************)
(* Theorems about Metadata, for every model directory: TLC tries ids of    *)
(* four parts and tokenizers of two added tokens.                          *)
(*                                                                         *)
(* For an id the passes are followed one by one.  The first leaves at most *)
(* one annotation on a part, the second takes some away, the third leaves  *)
(* none without, adding "basename" only to nothing or to "version", and    *)
(* the fourth resolves the latter at the end of the id: six sets are left, *)
(* and each says what the part is taken for.                               *)
(*                                                                         *)
(* For the keys each block of build_kvs has a set of its own, disjoint     *)
(* from those before it, and adds a list without repetition of members of  *)
(* it: a list of names from which some are selected, or, for the base      *)
(* models, an induction on how many there are.                             *)
(***************************************************************************)
EXTENDS Metadata, CommonLemmas

\* A set of annotations with "basename" among them, after the third pass.
LEMMA Several ==
  /\ Cardinality({"basename"}) = 1
  /\ Cardinality({"version", "basename"}) = 2
  <1>1. Cardinality({"basename"}) = 1 /\ IsFiniteSet({"basename"})
    BY FS_Singleton
  <1>2. Cardinality({"basename"} \cup {"version"}) = 1 + 1
    BY <1>1, FS_AddElement
  <1>3. {"version", "basename"} = {"basename"} \cup {"version"}
    OBVIOUS
  <1> QED BY <1>1, <1>2, <1>3

-----------------------------------------------------------------------------
(* The passes.                                                             *)

Single == {{"version"}, {"typ"}, {"size_label"}, {"finetune"}}
Final == Single \cup {{"basename"}, {"version", "basename"}}

\* What the first two passes leave.
LEMMA TwoPasses ==
  ASSUME NEW parts \in Seq(Part), NEW i \in DOMAIN parts
  PROVE  LET N == NumericSizesOnly(parts, Recognized(parts))
         IN  /\ DOMAIN N = DOMAIN parts
             /\ N[i] \in Single \cup {{}}
             /\ parts[i].class = "version" <=> N[i] = {"version"}
             /\ N[i] = {"typ"} => parts[i].class = "type"
             /\ i > 1 /\ parts[i].class \in Sizes \cup {"tune"} =>
                  \/ N[i] \in {{"size_label"}, {"finetune"}}
                  \/ \E k \in DOMAIN parts : N[k] = {"size_label"}
  <1> DEFINE R == Recognized(parts)
             N == NumericSizesOnly(parts, R)
  <1>1. parts[i] \in Part
    OBVIOUS
  <1>2. /\ DOMAIN R = DOMAIN parts
        /\ R[i] \in Single \cup {{}}
        /\ parts[i].class = "version" <=> R[i] = {"version"}
        /\ R[i] = {"typ"} => parts[i].class = "type"
        /\ i > 1 /\ parts[i].class \in Sizes \cup {"tune"} =>
             R[i] \in {{"size_label"}, {"finetune"}}
    BY <1>1 DEF Recognized, Single, Part, Sizes
  <1>3. DOMAIN N = DOMAIN parts
    BY <1>2 DEF NumericSizesOnly
  <1>4. N[i] = R[i] \/ N[i] = R[i] \ {"size_label"}
    BY <1>2 DEF NumericSizesOnly
  <1> HIDE DEF R, N
  <1>5. N[i] = R[i] \/ (R[i] = {"size_label"} /\ N[i] = {})
    BY <1>2, <1>4 DEF Single
  <1>6. {"size_label"} # {"version"} /\ {} # {"version"}
    OBVIOUS
  <1>7. /\ N[i] \in Single \cup {{}}
        /\ parts[i].class = "version" <=> N[i] = {"version"}
        /\ N[i] = {"typ"} => parts[i].class = "type"
    BY <1>2, <1>5, <1>6
  <1>8. ASSUME i > 1, parts[i].class \in Sizes \cup {"tune"}, N[i] # R[i]
        PROVE  \E k \in DOMAIN parts : N[k] = {"size_label"}
    <2>1. PICK k \in DOMAIN parts : "size_label" \in R[k] /\ parts[k].class = "number"
      BY <1>2, <1>8 DEF N, R, NumericSizesOnly
    <2>2. parts[k] \in Part
      BY <2>1
    <2>3. R[k] = {"size_label"}
      BY <2>1, <2>2 DEF R, Recognized, Part
    <2>4. N[k] = R[k]
      BY <1>2, <2>1 DEF N, NumericSizesOnly
    <2> QED BY <2>3, <2>4
  <1>9. i > 1 /\ parts[i].class \in Sizes \cup {"tune"} =>
          \/ N[i] \in {{"size_label"}, {"finetune"}}
          \/ \E k \in DOMAIN parts : N[k] = {"size_label"}
    BY <1>2, <1>8
  <1> QED BY <1>3, <1>7, <1>9 DEF N, R

\* What annotate leaves, of each part and of a part and its neighbours.
LEMMA AllPasses ==
  ASSUME NEW parts \in Seq(Part), NEW i \in DOMAIN parts
  PROVE  LET W == annotate(parts)
         IN  /\ DOMAIN W = DOMAIN parts
             /\ W[i] \in Final
             /\ W[i] = {"typ"} => parts[i].class = "type"
             /\ i > 1 /\ parts[i].class \in Sizes \cup {"tune"} =>
                  \/ W[i] \in {{"size_label"}, {"finetune"}}
                  \/ \E k \in DOMAIN parts : W[k] = {"size_label"}
             /\ "basename" \in W[i] => \A j \in 1..i : "basename" \in W[j]
             /\ (\A j \in i..Len(parts) : parts[j].class = "version") => W[i] = {"version"}
  <1> DEFINE N == NumericSizesOnly(parts, Recognized(parts))
             B == WithBasename(parts, N)
             W == annotate(parts)
             Lead(k) == \A j \in 1..k : InName(parts[j], N[j])
  <1>0. DOMAIN parts = 1..Len(parts) /\ Len(parts) \in Nat
    OBVIOUS
  <1>1. /\ DOMAIN N = DOMAIN parts
        /\ \A k \in DOMAIN parts : N[k] \in Single \cup {{}}
        /\ \A k \in DOMAIN parts : parts[k].class = "version" <=> N[k] = {"version"}
        /\ \A k \in DOMAIN parts : N[k] = {"typ"} => parts[k].class = "type"
        /\ i > 1 /\ parts[i].class \in Sizes \cup {"tune"} =>
             \/ N[i] \in {{"size_label"}, {"finetune"}}
             \/ \E k \in DOMAIN parts : N[k] = {"size_label"}
    <2>1. DOMAIN N = DOMAIN parts
      BY TwoPasses
    <2>2. \A k \in DOMAIN parts : N[k] \in Single \cup {{}}
      BY TwoPasses
    <2>3. \A k \in DOMAIN parts : parts[k].class = "version" <=> N[k] = {"version"}
      BY TwoPasses
    <2>4. \A k \in DOMAIN parts : N[k] = {"typ"} => parts[k].class = "type"
      BY TwoPasses
    <2>5. i > 1 /\ parts[i].class \in Sizes \cup {"tune"} =>
             \/ N[i] \in {{"size_label"}, {"finetune"}}
             \/ \E k \in DOMAIN parts : N[k] = {"size_label"}
      BY TwoPasses
    <2> QED BY <2>1, <2>2, <2>3, <2>4, <2>5
  <1>2. DOMAIN B = DOMAIN parts /\ DOMAIN W = DOMAIN parts
    <2>1. DOMAIN B = DOMAIN parts
      BY <1>1 DEF WithBasename
    <2> QED BY <2>1 DEF annotate, WithoutTrailing
  <1>3. \A k \in DOMAIN parts :
           B[k] = IF Lead(k) THEN N[k] \cup {"basename"}
                  ELSE IF N[k] = {} THEN {"finetune"} ELSE N[k]
    BY <1>1 DEF WithBasename
  <1>4. \A k \in DOMAIN parts :
           W[k] = IF \A j \in k..Len(parts) : "basename" \in B[j] /\ Cardinality(B[j]) > 1
                  THEN B[k] \ {"basename"} ELSE B[k]
    <2>1. Len(B) = Len(parts)
      BY <1>0, <1>2
    <2> QED BY <1>2, <2>1 DEF annotate, WithoutTrailing
  <1>5. \A k \in DOMAIN parts : Lead(k) => N[k] \in {{}, {"version"}}
    <2> SUFFICES ASSUME NEW k \in DOMAIN parts, Lead(k) PROVE N[k] \in {{}, {"version"}}
      OBVIOUS
    <2>1. InName(parts[k], N[k])
      BY <1>0
    <2>2. N[k] = {} \/ "version" \in N[k]
      BY <2>1 DEF InName
    <2> QED BY <1>1, <2>2 DEF Single
  <1> HIDE DEF N, B, W, Lead
  <1>6. \A k \in DOMAIN parts :
           /\ Lead(k) => B[k] \in {{"basename"}, {"version", "basename"}}
           /\ ~Lead(k) => B[k] \in Single
           /\ B[k] = {"version", "basename"} <=> Lead(k) /\ N[k] = {"version"}
           /\ N[k] # {} /\ ~Lead(k) => B[k] = N[k]
    <2> SUFFICES ASSUME NEW k \in DOMAIN parts
                 PROVE  /\ Lead(k) => B[k] \in {{"basename"}, {"version", "basename"}}
                        /\ ~Lead(k) => B[k] \in Single
                        /\ B[k] = {"version", "basename"} <=> Lead(k) /\ N[k] = {"version"}
                        /\ N[k] # {} /\ ~Lead(k) => B[k] = N[k]
      OBVIOUS
    <2>1. CASE Lead(k)
      <3>1. CASE N[k] = {}
        <4>1. B[k] = {"basename"}
          BY <1>3, <2>1, <3>1
        <4> QED BY <2>1, <3>1, <4>1
      <3>2. CASE N[k] = {"version"}
        <4>1. B[k] = {"version", "basename"}
          BY <1>3, <2>1, <3>2
        <4> QED BY <2>1, <3>2, <4>1
      <3> QED BY <1>5, <2>1, <3>1, <3>2
    <2>2. CASE ~Lead(k)
      <3>1. B[k] = IF N[k] = {} THEN {"finetune"} ELSE N[k]
        BY <1>3, <2>2
      <3>2. B[k] \in Single
        BY <1>1, <3>1 DEF Single
      <3>3. B[k] # {"version", "basename"}
        <4>1. "basename" \notin B[k]
          BY <3>2 DEF Single
        <4> QED BY <4>1
      <3> QED BY <2>2, <3>1, <3>2, <3>3
    <2> QED BY <2>1, <2>2
  \* The fourth pass, in terms of the two sets it tells apart.
  <1> DEFINE AtEnd(k) == \A j \in k..Len(parts) : B[j] = {"version", "basename"}
  <1>7. \A k \in DOMAIN parts :
           "basename" \in B[k] /\ Cardinality(B[k]) > 1 <=> B[k] = {"version", "basename"}
    <2> SUFFICES ASSUME NEW k \in DOMAIN parts
                 PROVE  "basename" \in B[k] /\ Cardinality(B[k]) > 1
                          <=> B[k] = {"version", "basename"}
      OBVIOUS
    <2>1. CASE B[k] = {"basename"}
      <3>1. "version" \notin B[k]
        BY <2>1
      <3>2. B[k] # {"version", "basename"}
        BY <3>1
      <3>3. ~(Cardinality(B[k]) > 1)
        BY <2>1, Several
      <3> QED BY <3>2, <3>3
    <2>2. CASE B[k] = {"version", "basename"}
      BY <2>2, Several
    <2>3. CASE B[k] \in Single
      <3>1. "basename" \notin B[k]
        BY <2>3 DEF Single
      <3> QED BY <3>1
    <2> QED BY <1>6, <2>1, <2>2, <2>3
  <1>8. \A k \in DOMAIN parts : W[k] = IF AtEnd(k) THEN {"version"} ELSE B[k]
    <2> SUFFICES ASSUME NEW k \in DOMAIN parts
                 PROVE  W[k] = IF AtEnd(k) THEN {"version"} ELSE B[k]
      OBVIOUS
    <2>1. \A j \in k..Len(parts) : j \in DOMAIN parts
      BY <1>0
    <2>2. (\A j \in k..Len(parts) : "basename" \in B[j] /\ Cardinality(B[j]) > 1) <=> AtEnd(k)
      BY <1>7, <2>1
    <2>3. AtEnd(k) => B[k] = {"version", "basename"}
      BY <1>0
    <2>4. {"version", "basename"} \ {"basename"} = {"version"}
      OBVIOUS
    <2> QED BY <1>4, <2>2, <2>3, <2>4
  <1> HIDE DEF AtEnd
  <1>9. W[i] \in Final
    <2>1. {"version"} \in Single
      BY DEF Single
    <2> QED BY <1>6, <1>8, <2>1 DEF Final
  <1>10. \A k \in DOMAIN parts :
            N[k] \in {{"typ"}, {"size_label"}, {"finetune"}} => W[k] = N[k]
    <2> SUFFICES ASSUME NEW k \in DOMAIN parts,
                        N[k] \in {{"typ"}, {"size_label"}, {"finetune"}}
                 PROVE  W[k] = N[k]
      OBVIOUS
    <2>1. N[k] # {} /\ N[k] # {"version"}
      OBVIOUS
    <2>2. ~Lead(k)
      BY <1>5, <2>1
    <2>3. B[k] = N[k] /\ B[k] # {"version", "basename"}
      BY <1>6, <2>1, <2>2
    <2>4. ~AtEnd(k)
      BY <1>0, <2>3 DEF AtEnd
    <2> QED BY <1>8, <2>3, <2>4
  <1>11. W[i] = {"typ"} => parts[i].class = "type"
    <2> SUFFICES ASSUME W[i] = {"typ"} PROVE parts[i].class = "type"
      OBVIOUS
    <2>1. B[i] = {"typ"}
      BY <1>8
    <2>2. ~Lead(i)
      BY <1>6, <2>1
    <2>3. N[i] = {"typ"}
      BY <1>3, <2>1, <2>2
    <2> QED BY <1>1, <2>3
  <1>12. ASSUME i > 1, parts[i].class \in Sizes \cup {"tune"}
         PROVE  \/ W[i] \in {{"size_label"}, {"finetune"}}
                \/ \E k \in DOMAIN parts : W[k] = {"size_label"}
    BY <1>1, <1>10, <1>12
  <1>13. ASSUME "basename" \in W[i], NEW j \in 1..i PROVE "basename" \in W[j]
    <2>0. j \in DOMAIN parts
      BY <1>0
    <2>1. ~AtEnd(i) /\ "basename" \in B[i]
      BY <1>8, <1>13
    <2>2. Lead(i)
      BY <1>6, <2>1 DEF Single
    <2>3. Lead(j)
      BY <1>0, <2>2 DEF Lead
    <2>4. "basename" \in B[j]
      BY <1>6, <2>0, <2>3
    <2>5. ~AtEnd(j)
      BY <1>0, <2>1 DEF AtEnd
    <2> QED BY <1>8, <2>0, <2>4, <2>5
  <1>14. ASSUME \A j \in i..Len(parts) : parts[j].class = "version"
         PROVE  W[i] = {"version"}
    <2>1. \A j \in i..Len(parts) : j \in DOMAIN parts /\ N[j] = {"version"}
      BY <1>0, <1>1, <1>14
    <2>2. CASE Lead(i)
      <3>1. \A j \in i..Len(parts) : Lead(j)
        <4> SUFFICES ASSUME NEW j \in i..Len(parts), NEW k \in 1..j
                     PROVE  InName(parts[k], N[k])
          BY DEF Lead
        <4>1. CASE k <= i
          BY <1>0, <2>2, <4>1 DEF Lead
        <4>2. CASE k > i
          <5>1. N[k] = {"version"}
            BY <1>0, <2>1, <4>2
          <5> QED BY <5>1 DEF InName
        <4> QED BY <1>0, <4>1, <4>2
      <3>2. AtEnd(i)
        BY <1>6, <2>1, <3>1 DEF AtEnd
      <3> QED BY <1>8, <3>2
    <2>3. CASE ~Lead(i)
      <3>1. B[i] = {"version"}
        <4>1. i \in i..Len(parts)
          BY <1>0
        <4>2. N[i] = {"version"} /\ N[i] # {}
          BY <2>1, <4>1
        <4> QED BY <1>6, <2>3, <4>2
      <3> QED BY <1>8, <3>1
    <2> QED BY <2>2, <2>3
  <1> QED BY <1>2, <1>9, <1>11, <1>12, <1>13, <1>14 DEF W

-----------------------------------------------------------------------------
(* The components.                                                         *)

\* A size is a part of the size label, or repeats one that is.
LEMMA SizesNamed ==
  ASSUME NEW parts \in Seq(Part), NEW i \in DOMAIN parts,
         annotate(parts)[i] = {"size_label"}
  PROVE  LET C == Component(parts, annotate(parts), "size_label")
         IN  i \in C \/ \E j \in C : j < i /\ parts[j].text = parts[i].text
  <1> DEFINE W == annotate(parts)
             S == {j \in DOMAIN parts : "size_label" \in W[j] /\ parts[j].text = parts[i].text}
  <1>0. DOMAIN W = DOMAIN parts /\ DOMAIN parts = 1..Len(parts) /\ Len(parts) \in Nat
    BY AllPasses
  <1>1. S \in SUBSET Nat /\ i \in S
    BY <1>0
  <1>2. PICK m \in S : \A n \in S : m <= n
    BY <1>1, LeastExists
  <1>3. m \in Component(parts, W, "size_label")
    <2>1. m \in DOMAIN W /\ "size_label" \in W[m] /\ m \in Nat
      BY <1>0, <1>2
    <2>2. ASSUME NEW j \in 1..(m - 1), "size_label" \in W[j], parts[j].text = parts[m].text
          PROVE  FALSE
      <3>1. j \in DOMAIN parts
        BY <1>0, <1>2
      <3>2. j \in S
        BY <1>2, <2>2, <3>1
      <3> QED BY <1>2, <2>1, <3>2
    <2> QED BY <2>1, <2>2 DEF Component
  <1>4. m = i \/ m < i
    BY <1>0, <1>1, <1>2
  <1> QED BY <1>2, <1>3, <1>4

\* What an id says, unless nothing is said of it.
LEMMA PartsTakenOnce ==
  ASSUME NEW id, id.parts \in Seq(Part), ~id.blank
  PROVE  Unsaid(IdOf(id)) \/ TakenOnce(IdOf(id))
  <1> DEFINE parts == id.parts
             W == annotate(parts)
             Of(f) == Component(parts, W, f)
             r == IdOf(id)
  <1>0. DOMAIN parts = 1..Len(parts) /\ Len(parts) \in Nat
    OBVIOUS
  <1>1. /\ DOMAIN W = DOMAIN parts
        /\ \A i \in DOMAIN parts : W[i] \in Final
        /\ \A i \in DOMAIN parts : W[i] = {"typ"} => parts[i].class = "type"
        /\ \A i \in DOMAIN parts :
              i > 1 /\ parts[i].class \in Sizes \cup {"tune"} =>
                 \/ W[i] \in {{"size_label"}, {"finetune"}}
                 \/ \E k \in DOMAIN parts : W[k] = {"size_label"}
        /\ \A i \in DOMAIN parts :
              "basename" \in W[i] => \A j \in 1..i : "basename" \in W[j]
        /\ \A i \in DOMAIN parts :
              (\A j \in i..Len(parts) : parts[j].class = "version") => W[i] = {"version"}
    <2>1. DOMAIN W = DOMAIN parts
      <3>1. CASE parts = <<>>
        BY <3>1 DEF annotate, WithoutTrailing, WithBasename, NumericSizesOnly, Recognized
      <3>2. CASE parts # <<>>
        <4>1. 1 \in DOMAIN parts
          BY <1>0, <3>2
        <4> QED BY <4>1, AllPasses
      <3> QED BY <3>1, <3>2
    <2>2. \A i \in DOMAIN parts : W[i] \in Final
      BY AllPasses
    <2>3. \A i \in DOMAIN parts : W[i] = {"typ"} => parts[i].class = "type"
      BY AllPasses
    <2>4. \A i \in DOMAIN parts :
              i > 1 /\ parts[i].class \in Sizes \cup {"tune"} =>
                 \/ W[i] \in {{"size_label"}, {"finetune"}}
                 \/ \E k \in DOMAIN parts : W[k] = {"size_label"}
      BY AllPasses
    <2>5. \A i \in DOMAIN parts :
              "basename" \in W[i] => \A j \in 1..i : "basename" \in W[j]
      BY AllPasses
    <2>6. \A i \in DOMAIN parts :
              (\A j \in i..Len(parts) : parts[j].class = "version") => W[i] = {"version"}
      BY AllPasses
    <2> QED BY <2>1, <2>2, <2>3, <2>4, <2>5, <2>6
  <1>2. \A i \in DOMAIN parts : W[i] = {"size_label"} =>
           i \in Of("size_label")
           \/ \E j \in Of("size_label") : j < i /\ parts[j].text = parts[i].text
    BY SizesNamed
  <1>3. r.id = id /\ r.comps = get_model_id_components(id)
    BY DEF IdOf
  <1> HIDE DEF W
  <1>4. /\ Of("basename") = {i \in DOMAIN parts : "basename" \in W[i]}
        /\ Of("finetune") = {i \in DOMAIN parts : "finetune" \in W[i]}
        /\ Of("version") = {i \in DOMAIN parts : "version" \in W[i] /\ "basename" \notin W[i]}
        /\ \A i \in Of("size_label") : i \in DOMAIN parts /\ "size_label" \in W[i]
    BY <1>1 DEF Component
  <1>5. r.comps = [f \in Fields |->
                     IF f = "basename" /\ \A g \in Fields \ {"basename"} : Of(g) = {}
                     THEN {} ELSE Of(f)]
    BY <1>3 DEF get_model_id_components, W
  <1> SUFFICES Unsaid(r) \/ TakenOnce(r)
    OBVIOUS
  <1> HIDE DEF r, Of, parts
  <1>6. CASE \A g \in Fields \ {"basename"} : Of(g) = {}
    <2>1. \A f \in Fields : r.comps[f] = {}
      BY <1>5, <1>6
    <2>2. Of("size_label") = {} /\ Of("finetune") = {}
      BY <1>6 DEF Fields
    <2>3. \A k \in DOMAIN parts : W[k] # {"size_label"}
      BY <1>2, <2>2
    <2>4. \A k \in DOMAIN parts : W[k] # {"finetune"}
      BY <1>4, <2>2
    <2>5. ASSUME NEW i \in DOMAIN parts, i > 1
          PROVE  parts[i].class \notin Sizes \cup {"tune"}
      BY <1>1, <2>3, <2>4, <2>5
    <2> QED BY <1>3, <2>1, <2>5 DEF Unsaid, parts
  <1>7. CASE ~\A g \in Fields \ {"basename"} : Of(g) = {}
    <2>1. \A f \in Fields : r.comps[f] = Of(f)
      BY <1>5, <1>7
    <2>2. SUFFICES \A i \in DOMAIN parts :
                 LET meanings == {f \in Fields : i \in Of(f)}
                 IN  /\ \/ meanings = {} /\ (parts[i].class = "type" \/ Repeated(r, i))
                        \/ \E f \in Fields : meanings = {f}
                     /\ i \in Of("basename") => 1..i \subseteq Of("basename")
                     /\ Trailing(r, i) => i \in Of("version")
      <3>1. \A i \in DOMAIN parts :
               {f \in Fields : i \in r.comps[f]} = {f \in Fields : i \in Of(f)}
        BY <2>1
      <3>2. r.comps["basename"] = Of("basename") /\ r.comps["version"] = Of("version")
        BY <2>1 DEF Fields
      <3>3. r.id.parts = parts
        BY <1>3 DEF parts
      <3>4. ASSUME NEW i \in DOMAIN parts
            PROVE  LET meanings == {f \in Fields : i \in r.comps[f]}
                   IN  /\ IF meanings = {} THEN parts[i].class = "type" \/ Repeated(r, i)
                          ELSE \E f \in Fields : meanings = {f}
                       /\ i \in r.comps["basename"] => 1..i \subseteq r.comps["basename"]
                       /\ Trailing(r, i) => i \in r.comps["version"]
        BY <2>2, <3>1, <3>2, <3>4, Zenon
      <3> QED BY <3>3, <3>4 DEF TakenOnce
    <2> TAKE i \in DOMAIN parts
    <2> DEFINE meanings == {f \in Fields : i \in Of(f)}
    <2>3. /\ "basename" \in meanings <=> "basename" \in W[i]
          /\ "finetune" \in meanings <=> "finetune" \in W[i]
          /\ "version" \in meanings <=> "version" \in W[i] /\ "basename" \notin W[i]
          /\ "size_label" \in meanings => "size_label" \in W[i]
          /\ "size_label" \in meanings <=> i \in Of("size_label")
      BY <1>4 DEF Fields
    <2>4. meanings \subseteq {"basename", "finetune", "version", "size_label"}
      BY DEF Fields
    <2> HIDE DEF meanings
    <2>5. \/ meanings = {} /\ (parts[i].class = "type" \/ Repeated(r, i))
          \/ \E f \in Fields : meanings = {f}
      <3>1. CASE W[i] = {"basename"} \/ W[i] = {"version", "basename"}
        <4>1. meanings = {"basename"}
          BY <2>3, <2>4, <3>1
        <4> QED BY <4>1 DEF Fields
      <3>2. CASE W[i] = {"version"}
        <4>1. meanings = {"version"}
          BY <2>3, <2>4, <3>2
        <4> QED BY <4>1 DEF Fields
      <3>3. CASE W[i] = {"finetune"}
        <4>1. meanings = {"finetune"}
          BY <2>3, <2>4, <3>3
        <4> QED BY <4>1 DEF Fields
      <3>4. CASE W[i] = {"typ"}
        <4>1. meanings = {}
          BY <2>3, <2>4, <3>4
        <4> QED BY <1>1, <3>4, <4>1
      <3>5. CASE W[i] = {"size_label"}
        <4>1. CASE i \in Of("size_label")
          <5>1. meanings = {"size_label"}
            BY <2>3, <2>4, <3>5, <4>1
          <5> QED BY <5>1 DEF Fields
        <4>2. CASE i \notin Of("size_label")
          <5>1. meanings = {}
            BY <2>3, <2>4, <3>5, <4>2
          <5>2. r.comps["size_label"] = Of("size_label") /\ r.id.parts = parts
            BY <1>3, <2>1 DEF Fields, parts
          <5>3. Repeated(r, i)
            BY <1>2, <3>5, <4>2, <5>2 DEF Repeated
          <5> QED BY <5>1, <5>3
        <4> QED BY <4>1, <4>2
      <3> QED BY <1>1, <3>1, <3>2, <3>3, <3>4, <3>5 DEF Final, Single
    <2>6. i \in Of("basename") => 1..i \subseteq Of("basename")
      <3> SUFFICES ASSUME i \in Of("basename"), NEW j \in 1..i PROVE j \in Of("basename")
        OBVIOUS
      <3>1. j \in DOMAIN parts
        BY <1>0 DEF parts
      <3>2. "basename" \in W[j]
        BY <1>1, <1>4
      <3> QED BY <1>4, <3>1, <3>2
    <2>7. Trailing(r, i) => i \in Of("version")
      <3> SUFFICES ASSUME Trailing(r, i) PROVE i \in Of("version")
        OBVIOUS
      <3>1. \A j \in i..Len(parts) : parts[j].class = "version"
        BY <1>3 DEF Trailing, parts
      <3>2. W[i] = {"version"}
        BY <1>1, <3>1
      <3> QED BY <1>4, <3>2
    <2> QED BY <2>5, <2>6, <2>7 DEF meanings
  <1> QED BY <1>6, <1>7

-----------------------------------------------------------------------------
(* The ids that a run takes apart are the directory's.                     *)

Bases(d) == IF d.card.tag = "map" THEN {d.card.bases[k] : k \in DOMAIN d.card.bases} ELSE {}
AllIds == UNION {{d.path, d.name} \cup Bases(d) : d \in Dirs}
AllRead == {IdOf(id) : id \in AllIds}

ReadInv == dir \in Dirs /\ read \in Seq(AllRead)

LEMMA ReadInvInvariant == Spec => []ReadInv
  <1>1. Init => ReadInv
    BY DEF Init, ReadInv
  <1>2. ReadInv /\ [Next]_vars => ReadInv'
    <2> SUFFICES ASSUME ReadInv, [Next]_vars PROVE ReadInv'
      OBVIOUS
    <2>1. ASSUME Naming PROVE ReadInv'
      <3>1. dir' = dir /\ read' = ReadIds
        BY <2>1 DEF Naming, Add
      <3>2. IdOf(dir.path) \in AllRead /\ IdOf(dir.name) \in AllRead
        BY ZenonT(40) DEF ReadInv, AllRead, AllIds
      <3>3. ReadIds \in Seq(AllRead)
        BY <3>2 DEF ReadIds, Paths
      <3> QED BY <3>1, <3>3 DEF ReadInv
    <2>2. ASSUME CardKvs PROVE ReadInv'
      <3>1. dir' = dir
        BY <2>2 DEF CardKvs, Add, Fail
      <3>2. \/ read' = read
            \/ /\ card.tag = "map"
               /\ read' = read \o [k \in DOMAIN card.bases |-> IdOf(card.bases[k])]
        BY <2>2 DEF CardKvs, Fail
      <3>3. ASSUME card.tag = "map"
            PROVE  [k \in DOMAIN card.bases |-> IdOf(card.bases[k])] \in Seq(AllRead)
        <4>1. card.bases \in Seq(Range(card.bases))
          BY <3>3, DirsAssumption DEF ReadInv, card
        <4>2. \A k \in DOMAIN card.bases : IdOf(card.bases[k]) \in AllRead
          BY <3>3 DEF ReadInv, card, AllRead, AllIds, Bases
        <4> QED BY <4>1, <4>2
      <3>4. \A s, t \in Seq(AllRead) : s \o t \in Seq(AllRead)
        OBVIOUS
      <3>5. read \in Seq(AllRead) /\ dir \in Dirs
        BY DEF ReadInv
      <3>6. read' \in Seq(AllRead)
        BY <3>2, <3>3, <3>4, <3>5, Zenon
      <3> QED BY <3>1, <3>5, <3>6 DEF ReadInv
    <2>3. CASE UNCHANGED <<dir, read>>
      BY <2>3 DEF ReadInv
    <2>4. ASSUME \/ LoadCard \/ Sampling \/ SetParameters \/ SetVocab
                 \/ SetSpecial \/ SetTemplate
          PROVE  UNCHANGED <<dir, read>>
      BY <2>4 DEF LoadCard, Sampling, SetParameters, SetVocab, SetSpecial, SetTemplate,
                  Fail, Panic, Add
    <2>5. CASE UNCHANGED vars
      BY <2>3, <2>5 DEF vars
    <2>6. CASE Next
      BY <2>1, <2>2, <2>3, <2>4, <2>6 DEF Next
    <2> QED BY <2>5, <2>6
  <1> QED BY <1>1, <1>2, PTL DEF Spec

\* meta.rs leaves no part of an id out of the components and puts none into two:
\* true of ids of any length.
THEOREM OneMeaningTheorem == Spec => []OneMeaning
  <1>1. ReadInv => OneMeaning
    <2> SUFFICES ASSUME ReadInv, NEW n \in DOMAIN read, ~read[n].id.blank
                 PROVE  Unsaid(read[n]) \/ TakenOnce(read[n])
      BY DEF OneMeaning
    <2>1. PICK id \in AllIds : read[n] = IdOf(id)
      BY DEF ReadInv, AllRead
    <2>2. id.parts \in Seq(Part)
      BY <2>1, DirsAssumption DEF AllIds, Bases
    <2>3. ~id.blank
      BY <2>1 DEF IdOf
    <2> QED BY <2>1, <2>2, <2>3, PartsTakenOnce
  <1> QED BY <1>1, ReadInvInvariant, PTL

-----------------------------------------------------------------------------
(* The keys, block by block.                                               *)

\* Lists of members of A, each once.
Once(A) == {s \in Seq(A) : IsInjective(s)}

\* Joining two that have nothing in common.
LEMMA Joined ==
  ASSUME NEW A, NEW B, A \cap B = {}, NEW s \in Once(A), NEW t \in Once(B)
  PROVE  s \o t \in Once(A \cup B)
  <1>1. /\ s \in Seq(A) /\ t \in Seq(B) /\ Len(s) \in Nat /\ Len(t) \in Nat
        /\ \A i, j \in 1..Len(s) : s[i] = s[j] => i = j
        /\ \A i, j \in 1..Len(t) : t[i] = t[j] => i = j
        /\ \A i \in 1..Len(s) : s[i] \in A
        /\ \A i \in 1..Len(t) : t[i] \in B
    BY DEF Once, IsInjective
  <1> DEFINE u == s \o t
  <1>2. /\ u \in Seq(A \cup B) /\ DOMAIN u = 1..(Len(s) + Len(t))
        /\ \A i \in 1..(Len(s) + Len(t)) :
              u[i] = IF i <= Len(s) THEN s[i] ELSE t[i - Len(s)]
    <2>1. s \in Seq(A \cup B) /\ t \in Seq(A \cup B)
      BY <1>1
    <2> QED BY <2>1
  <1> HIDE DEF u
  <1>3. ASSUME NEW i \in DOMAIN u, NEW j \in DOMAIN u, u[i] = u[j]
        PROVE  i = j
    <2>1. i \in 1..Len(s) \/ (i - Len(s) \in 1..Len(t) /\ ~(i <= Len(s)))
      BY <1>1, <1>2
    <2>2. j \in 1..Len(s) \/ (j - Len(s) \in 1..Len(t) /\ ~(j <= Len(s)))
      BY <1>1, <1>2
    <2>3. CASE i \in 1..Len(s)
      <3>1. u[i] = s[i] /\ u[i] \in A
        BY <1>1, <1>2, <2>3
      <3>2. j \in 1..Len(s)
        <4>1. ASSUME j - Len(s) \in 1..Len(t), ~(j <= Len(s)) PROVE FALSE
          <5>1. u[j] = t[j - Len(s)]
            BY <1>2, <4>1
          <5>2. u[j] \in B
            BY <1>1, <4>1, <5>1
          <5> QED BY <1>3, <3>1, <5>2
        <4> QED BY <2>2, <4>1
      <3>3. u[j] = s[j]
        BY <1>1, <1>2, <3>2
      <3> QED BY <1>1, <1>3, <2>3, <3>1, <3>2, <3>3
    <2>4. CASE i - Len(s) \in 1..Len(t) /\ ~(i <= Len(s))
      <3>1. u[i] = t[i - Len(s)] /\ u[i] \in B
        BY <1>1, <1>2, <2>4
      <3>2. j - Len(s) \in 1..Len(t) /\ ~(j <= Len(s))
        <4>1. ASSUME j \in 1..Len(s) PROVE FALSE
          <5>1. u[j] = s[j]
            BY <1>1, <1>2, <4>1
          <5>2. u[j] \in A
            BY <1>1, <4>1, <5>1
          <5> QED BY <1>3, <3>1, <5>2
        <4> QED BY <2>2, <4>1
      <3>3. u[j] = t[j - Len(s)]
        BY <1>2, <3>2
      <3>4. i - Len(s) = j - Len(s)
        BY <1>1, <1>3, <2>4, <3>1, <3>2, <3>3
      <3> QED BY <1>1, <1>2, <3>4
    <2> QED BY <2>1, <2>3, <2>4
  <1> QED BY <1>2, <1>3 DEF u, Once, IsInjective

\* The selected names of a list, each in a key of its own.
LEMMA Keyed ==
  ASSUME NEW names, names \in Once(Range(names)), NEW K, NEW A, NEW ks,
         ks = [i \in DOMAIN Only(names, K) |-> ks[i]],
         \A i \in DOMAIN Only(names, K) :
            Only(names, K)[i] \in Range(names) \cap K => ks[i] \in A,
         \A i, j \in DOMAIN Only(names, K) :
            ks[i] = ks[j] => Only(names, K)[i] = Only(names, K)[j]
  PROVE  ks \in Once(A)
  <1> DEFINE g == Only(names, K)
  <1>1. names \in Seq(Range(names)) /\ \A i, j \in 1..Len(names) : names[i] = names[j] => i = j
    BY DEF Once, IsInjective
  <1>2. /\ DOMAIN g = 1..Len(g) /\ Len(g) \in Nat
        /\ \A i, j \in 1..Len(g) : g[i] = g[j] => i = j
        /\ \A i \in 1..Len(g) : g[i] \in Range(names) \cap K
    <2>1. g \in Seq(Range(names) \cap K)
      BY <1>1, OnlySeq
    <2>2. \A i, j \in 1..Len(g) : g[i] = g[j] => i = j
      BY <1>1, OnlyDistinct
    <2> HIDE DEF g
    <2> QED BY <2>1, <2>2
  <1>3. \A i \in 1..Len(g) : ks[i] \in A
    BY <1>2
  <1>4. ks = [i \in 1..Len(g) |-> ks[i]]
    BY <1>2
  <1> HIDE DEF g
  <1>5. ks \in [1..Len(g) -> A]
    BY <1>3, <1>4
  <1>6. ks \in Seq(A) /\ DOMAIN ks = 1..Len(g)
    BY <1>2, <1>5, FunctionIsSeq
  <1>7. ASSUME NEW i \in DOMAIN ks, NEW j \in DOMAIN ks, ks[i] = ks[j]
        PROVE  i = j
    <2>1. i \in 1..Len(g) /\ j \in 1..Len(g)
      BY <1>6
    <2>2. g[i] = g[j]
      BY <1>2, <1>7, <2>1 DEF g
    <2> QED BY <1>2, <2>1, <2>2
  <1> QED BY <1>6, <1>7 DEF Once, IsInjective

\* The lists of names have no name twice.
LEMMA ListIsOnce ==
  ASSUME NEW n \in Nat, NEW list, DOMAIN list = 1..n, list = [i \in 1..n |-> list[i]],
         \A i, j \in 1..n : list[i] = list[j] => i = j
  PROVE  list \in Once(Range(list))
  <1>1. list \in [1..n -> Range(list)]
    BY DEF Range
  <1>2. list \in Seq(Range(list))
    BY <1>1, FunctionIsSeq
  <1> QED BY <1>2 DEF Once, IsInjective

LEMMA TypesOnce == TYPES \in Once(Range(TYPES))
  <1>1. DOMAIN TYPES = 1..7 /\ TYPES = [i \in 1..7 |-> TYPES[i]]
    BY DEF TYPES
  <1>2. \A i, j \in 1..7 : TYPES[i] = TYPES[j] => i = j
    BY DEF TYPES
  <1> QED BY <1>1, <1>2, ListIsOnce

LEMMA SamplingOnce == SamplingKeys \in Once(Range(SamplingKeys))
  <1>1. DOMAIN SamplingKeys = 1..12 /\ SamplingKeys = [i \in 1..12 |-> SamplingKeys[i]]
    BY DEF SamplingKeys
  <1>2. \A i, j \in 1..12 : SamplingKeys[i] = SamplingKeys[j] => i = j
    BY DEF SamplingKeys
  <1> QED BY <1>1, <1>2, ListIsOnce

LEMMA CardFieldsOnce == CardFields \in Once(Range(CardFields))
  <1>1. DOMAIN CardFields = 1..8 /\ CardFields = [i \in 1..8 |-> CardFields[i]]
    BY DEF CardFields
  <1>2. \A i, j \in 1..8 : CardFields[i] = CardFields[j] => i = j
    BY DEF CardFields
  <1> QED BY <1>1, <1>2, ListIsOnce

LEMMA BaseFieldsOnce == BaseFields \in Once(Range(BaseFields))
  <1>1. DOMAIN BaseFields = 1..4 /\ BaseFields = [i \in 1..4 |-> BaseFields[i]]
    BY DEF BaseFields
  <1>2. \A i, j \in 1..4 : BaseFields[i] = BaseFields[j] => i = j
    BY DEF BaseFields
  <1> QED BY <1>1, <1>2, ListIsOnce

LEMMA HparamsOnce == Hparams \in Once(Range(Hparams))
  <1>1. DOMAIN Hparams = 1..21 /\ Hparams = [i \in 1..21 |-> Hparams[i]]
    BY DEF Hparams
  <1>2. \A i, j \in 1..21 : Hparams[i] = Hparams[j] => i = j
    BY SMTT(60) DEF Hparams
  <1> QED BY <1>1, <1>2, ListIsOnce

\* The keys of the card, those of n base models among them.
Licences == <<"license", "license_name", "license_link">>
Labels == <<"tags", "languages">>
Count == <<"general.base_model", "count">>
General(names) == {<<"general", n>> : n \in names}
OfBases(n) == {<<"general.base_model", k, f>> : k \in 0..(n - 1), f \in Range(BaseFields)}
AnyBases == UNION {OfBases(n) : n \in Nat}

\* The keys that each block may add.
FirstKeys == {<<"general.architecture">>, <<"general.type">>}
OfSampling == {<<"general.sampling", k>> : k \in Range(SamplingKeys)}
OfNaming == General(Range(CardFields))
OfCard == General(Range(Licences)) \cup {Count} \cup AnyBases
          \cup General(Range(Labels))
OfHparams == {<<IF h \in GeneralKeys THEN "general" ELSE "qwen35", h>> : h \in Range(Hparams)}
OfVocab == {<<"model">>, <<"pre">>, <<"tokens">>, <<"token_type">>, <<"merges">>}
OfSpecial == {<<"token_id", t>> : t \in Range(TYPES)}
OfTemplate == {<<"chat_template">>}

\* The length and the first name of a key.
LEMMA Shapes ==
  /\ \A a : Len(<<a>>) = 1 /\ <<a>>[1] = a
  /\ \A a, b : Len(<<a, b>>) = 2 /\ <<a, b>>[1] = a /\ <<a, b>>[2] = b
  /\ \A a, b, c : Len(<<a, b, c>>) = 3 /\ <<a, b, c>>[1] = a /\ <<a, b, c>>[2] = b
                  /\ <<a, b, c>>[3] = c
OBVIOUS

LEMMA CardSets ==
  ASSUME NEW n \in Nat
  PROVE  /\ General(Range(Licences)) \cap {Count} = {}
         /\ (General(Range(Licences)) \cup {Count}) \cap OfBases(n) = {}
         /\ (General(Range(Licences)) \cup {Count} \cup OfBases(n)) \cap General(Range(Labels))
              = {}
  <1>1. \A x \in General(Range(Licences)) : Len(x) = 2 /\ x[1] = "general" /\ x[2] \in Range(Licences)
    BY Shapes DEF General
  <1>2. \A x \in General(Range(Labels)) : Len(x) = 2 /\ x[1] = "general" /\ x[2] \in Range(Labels)
    BY Shapes DEF General
  <1>3. Len(Count) = 2 /\ Count[1] = "general.base_model"
    BY DEF Count
  <1>4. \A x \in OfBases(n) : Len(x) = 3
    BY Shapes DEF OfBases
  <1>5. Range(Licences) \cap Range(Labels) = {}
    BY DEF Range, Licences, Labels
  <1>6. General(Range(Licences)) \cap {Count} = {}
    BY <1>1, <1>3
  <1>7. (General(Range(Licences)) \cup {Count}) \cap OfBases(n) = {}
    BY <1>1, <1>3, <1>4
  <1>8. (General(Range(Licences)) \cup {Count} \cup OfBases(n)) \cap General(Range(Labels)) = {}
    BY <1>1, <1>2, <1>3, <1>4, <1>5
  <1> QED BY <1>6, <1>7, <1>8

\* No two blocks add the same key.
LEMMA BlocksApart ==
  /\ FirstKeys \cap OfSampling = {}
  /\ (FirstKeys \cup OfSampling) \cap OfNaming = {}
  /\ (FirstKeys \cup OfSampling \cup OfNaming) \cap OfCard = {}
  /\ (FirstKeys \cup OfSampling \cup OfNaming \cup OfCard) \cap OfHparams = {}
  /\ (FirstKeys \cup OfSampling \cup OfNaming \cup OfCard \cup OfHparams) \cap OfVocab = {}
  /\ (FirstKeys \cup OfSampling \cup OfNaming \cup OfCard \cup OfHparams \cup OfVocab)
       \cap OfSpecial = {}
  /\ (FirstKeys \cup OfSampling \cup OfNaming \cup OfCard \cup OfHparams \cup OfVocab
      \cup OfSpecial) \cap OfTemplate = {}
  <1>1. \A x \in FirstKeys : Len(x) = 1 /\ x[1] \in {"general.architecture", "general.type"}
    BY Shapes DEF FirstKeys
  <1>2. \A x \in OfSampling : Len(x) = 2 /\ x[1] = "general.sampling"
    BY Shapes DEF OfSampling
  <1>3. \A x \in OfNaming : Len(x) = 2 /\ x[1] = "general" /\ x[2] \in Range(CardFields)
    BY Shapes DEF OfNaming, General
  <1>4. \A x \in OfCard : \/ Len(x) = 3 \/ (Len(x) = 2 /\ x[1] = "general.base_model")
                          \/ /\ Len(x) = 2 /\ x[1] = "general"
                             /\ x[2] \in Range(Licences) \cup Range(Labels)
    <2>1. \A x \in General(Range(Licences)) \cup General(Range(Labels)) :
             Len(x) = 2 /\ x[1] = "general" /\ x[2] \in Range(Licences) \cup Range(Labels)
      BY Shapes DEF General
    <2>2. Len(Count) = 2 /\ Count[1] = "general.base_model"
      BY DEF Count
    <2>3. \A n : \A x \in OfBases(n) : Len(x) = 3
      BY Shapes DEF OfBases
    <2>4. \A x \in AnyBases : Len(x) = 3
      BY <2>3, Zenon DEF AnyBases
    <2> QED BY <2>1, <2>2, <2>4 DEF OfCard
  <1>5. \A x \in OfHparams : Len(x) = 2 /\ (x[1] = "qwen35" \/ x[1] = "general")
                             /\ (x[1] = "general" => x[2] \in GeneralKeys)
    <2> TAKE x \in OfHparams
    <2>1. PICK h \in Range(Hparams) : x = <<IF h \in GeneralKeys THEN "general" ELSE "qwen35", h>>
      BY DEF OfHparams
    <2>2. Len(x) = 2 /\ x[1] = (IF h \in GeneralKeys THEN "general" ELSE "qwen35") /\ x[2] = h
      BY <2>1, Shapes, Zenon
    <2> QED BY <2>2
  <1>6. \A x \in OfVocab : Len(x) = 1 /\ x[1] \in {"model", "pre", "tokens", "token_type", "merges"}
    BY Shapes DEF OfVocab
  <1>7. \A x \in OfSpecial : Len(x) = 2 /\ x[1] = "token_id"
    BY Shapes DEF OfSpecial
  <1>8. \A x \in OfTemplate : Len(x) = 1 /\ x[1] = "chat_template"
    BY Shapes DEF OfTemplate
  <1>9. /\ Range(CardFields) \cap (Range(Licences) \cup Range(Labels)) = {}
        /\ Range(CardFields) \cap GeneralKeys = {}
        /\ (Range(Licences) \cup Range(Labels)) \cap GeneralKeys = {}
    BY DEF Range, CardFields, Licences, Labels, GeneralKeys
  <1>10. FirstKeys \cap OfSampling = {}
    BY <1>1, <1>2
  <1>11. (FirstKeys \cup OfSampling) \cap OfNaming = {}
    BY <1>1, <1>2, <1>3
  <1>12. (FirstKeys \cup OfSampling \cup OfNaming) \cap OfCard = {}
    BY <1>1, <1>2, <1>3, <1>4, <1>9
  <1>13. (FirstKeys \cup OfSampling \cup OfNaming \cup OfCard) \cap OfHparams = {}
    BY <1>1, <1>2, <1>3, <1>4, <1>5, <1>9
  <1>14. (FirstKeys \cup OfSampling \cup OfNaming \cup OfCard \cup OfHparams) \cap OfVocab = {}
    BY <1>1, <1>2, <1>3, <1>4, <1>5, <1>6
  <1>15. (FirstKeys \cup OfSampling \cup OfNaming \cup OfCard \cup OfHparams \cup OfVocab)
           \cap OfSpecial = {}
    BY <1>1, <1>2, <1>3, <1>4, <1>5, <1>6, <1>7
  <1>16. (FirstKeys \cup OfSampling \cup OfNaming \cup OfCard \cup OfHparams \cup OfVocab
          \cup OfSpecial) \cap OfTemplate = {}
    BY <1>1, <1>2, <1>3, <1>4, <1>5, <1>6, <1>7, <1>8
  <1> QED BY <1>10, <1>11, <1>12, <1>13, <1>14, <1>15, <1>16

\* Keys that only differ in the name at their end.
LEMMA PairsOnce ==
  ASSUME NEW names, names \in Once(Range(names)), NEW K, NEW h, NEW A,
         \A n \in Range(names) : <<h, n>> \in A
  PROVE  [i \in DOMAIN Only(names, K) |-> <<h, Only(names, K)[i]>>] \in Once(A)
  <1> DEFINE ks == [i \in DOMAIN Only(names, K) |-> <<h, Only(names, K)[i]>>]
  <1>1. ks = [i \in DOMAIN Only(names, K) |-> ks[i]]
    OBVIOUS
  <1>2. \A i \in DOMAIN Only(names, K) : ks[i] = <<h, Only(names, K)[i]>>
    OBVIOUS
  <1> HIDE DEF ks
  <1>3. \A i \in DOMAIN Only(names, K) :
           Only(names, K)[i] \in Range(names) \cap K => ks[i] \in A
    BY <1>2
  <1>4. \A i, j \in DOMAIN Only(names, K) :
           ks[i] = ks[j] => Only(names, K)[i] = Only(names, K)[j]
    BY <1>2
  <1>5. ks \in Once(A)
    BY <1>1, <1>3, <1>4, Keyed
  <1> QED BY <1>5 DEF ks

LEMMA SamplingAdds ==
  [i \in DOMAIN Only(SamplingKeys, dir.gen) |->
     <<"general.sampling", Only(SamplingKeys, dir.gen)[i]>>] \in Once(OfSampling)
  <1>1. \A n \in Range(SamplingKeys) : <<"general.sampling", n>> \in OfSampling
    BY DEF OfSampling
  <1> QED BY <1>1, PairsOnce, SamplingOnce

LEMMA NamingAdds ==
  ASSUME NEW K
  PROVE  [i \in DOMAIN Only(CardFields, K) |-> <<"general", Only(CardFields, K)[i]>>]
           \in Once(OfNaming)
  <1>1. \A n \in Range(CardFields) : <<"general", n>> \in OfNaming
    BY DEF OfNaming, General
  <1> QED BY <1>1, PairsOnce, CardFieldsOnce

LEMMA CardKeysOnce ==
  ASSUME NEW names, names \in Once(Range(names))
  PROVE  CardKeys(names) \in Once(General(Range(names)))
  <1>1. \A n \in Range(names) : <<"general", n>> \in General(Range(names))
    BY DEF General
  <1> QED BY <1>1, PairsOnce DEF CardKeys

LEMMA LabelsOnce ==
  Licences \in Once(Range(Licences)) /\ Labels \in Once(Range(Labels))
  <1>1. Licences \in Once(Range(Licences))
    <2>1. DOMAIN Licences = 1..3 /\ Licences = [i \in 1..3 |-> Licences[i]]
      BY DEF Licences
    <2>2. \A i, j \in 1..3 : Licences[i] = Licences[j] => i = j
      BY DEF Licences
    <2> QED BY <2>1, <2>2, ListIsOnce
  <1>2. Labels \in Once(Range(Labels))
    <2>1. DOMAIN Labels = 1..2 /\ Labels = [i \in 1..2 |-> Labels[i]]
      BY DEF Labels
    <2>2. \A i, j \in 1..2 : Labels[i] = Labels[j] => i = j
      BY DEF Labels
    <2> QED BY <2>1, <2>2, ListIsOnce
  <1> QED BY <1>1, <1>2

\* The keys of one base model.
OfBase(k) == {<<"general.base_model", k, f>> : f \in Range(BaseFields)}

LEMMA BaseKeysOnce ==
  ASSUME NEW k
  PROVE  BaseKeys(k) \in Once(OfBase(k))
  <1> DEFINE r == IdOf(card.bases[k + 1])
             K == {n \in Range(BaseFields) :
                     CASE n = "name"    -> HasName(r)
                       [] n = "version" -> r.comps["version"] # {}
                       [] OTHER         -> HasOrg(r)}
             g == Only(BaseFields, K)
             ks == [i \in DOMAIN g |-> <<"general.base_model", k, g[i]>>]
  <1>1. BaseKeys(k) = ks
    BY DEF BaseKeys
  <1> HIDE DEF K
  <1>2. ks = [i \in DOMAIN g |-> ks[i]]
    OBVIOUS
  <1>3. \A i \in DOMAIN g : ks[i] = <<"general.base_model", k, g[i]>>
    OBVIOUS
  <1> HIDE DEF ks
  <1>4. \A i \in DOMAIN g : g[i] \in Range(BaseFields) \cap K => ks[i] \in OfBase(k)
    BY <1>3 DEF OfBase
  <1>5. \A i, j \in DOMAIN g : ks[i] = ks[j] => g[i] = g[j]
    <2> HIDE DEF g
    <2> QED BY <1>3, Shapes
  <1>6. ks \in Once(OfBase(k))
    BY <1>2, <1>4, <1>5, Keyed, BaseFieldsOnce
  <1> QED BY <1>1, <1>6

\* The recursion that defines BaseKeysUpTo has a solution.
LEMMA BaseKeysExist ==
  ASSUME NEW m \in Nat
  PROVE  \E F : F = [n \in 0..m |-> IF n = 0 THEN <<>> ELSE F[n - 1] \o BaseKeys(n - 1)]
  <1> DEFINE Solves(F, n) ==
        F = [k \in 0..n |-> IF k = 0 THEN <<>> ELSE F[k - 1] \o BaseKeys(k - 1)]
      P == {n \in Nat : \E F : Solves(F, n)}
  <1>1. 0 \in P
    <2>1. Solves([k \in 0..0 |-> <<>>], 0)
      OBVIOUS
    <2> QED BY <2>1
  <1>2. ASSUME NEW n \in P
        PROVE  n + 1 \in P
    <2>1. PICK F : Solves(F, n)
      OBVIOUS
    <2> DEFINE G == [k \in 0..(n + 1) |->
                       IF k <= n THEN F[k] ELSE F[k - 1] \o BaseKeys(k - 1)]
               H == [k \in 0..(n + 1) |->
                       IF k = 0 THEN <<>> ELSE G[k - 1] \o BaseKeys(k - 1)]
    <2>2. \A k \in 0..n : F[k] = IF k = 0 THEN <<>> ELSE F[k - 1] \o BaseKeys(k - 1)
      BY <2>1
    <2>3. \A k \in 0..(n + 1) : G[k] = H[k]
      BY <2>2
    <2>4. G = H
      BY <2>3
    <2>5. Solves(G, n + 1)
      BY <2>4
    <2> HIDE DEF G, Solves
    <2> QED BY <2>5
  <1> HIDE DEF Solves
  <1>3. m \in P
    <2>1. P \in SUBSET Nat
      OBVIOUS
    <2> HIDE DEF P
    <2> QED BY <1>1, <1>2, <2>1, AllNaturals
  <1> QED BY <1>3 DEF Solves

LEMMA BaseKeysStep ==
  ASSUME Len(card.bases) \in Nat
  PROVE  /\ BaseKeysUpTo[0] = <<>>
         /\ \A n \in 1..Len(card.bases) : BaseKeysUpTo[n] = BaseKeysUpTo[n - 1] \o BaseKeys(n - 1)
  <1> DEFINE m == Len(card.bases)
  <1>1. BaseKeysUpTo
          = CHOOSE F : F = [n \in 0..m |-> IF n = 0 THEN <<>> ELSE F[n - 1] \o BaseKeys(n - 1)]
    BY DEF BaseKeysUpTo
  <1>2. \E F : F = [n \in 0..m |-> IF n = 0 THEN <<>> ELSE F[n - 1] \o BaseKeys(n - 1)]
    BY BaseKeysExist
  <1>3. BaseKeysUpTo
          = [n \in 0..m |-> IF n = 0 THEN <<>> ELSE BaseKeysUpTo[n - 1] \o BaseKeys(n - 1)]
    BY <1>1, <1>2, Zenon
  <1>4. \A n \in 0..m :
          BaseKeysUpTo[n] = IF n = 0 THEN <<>> ELSE BaseKeysUpTo[n - 1] \o BaseKeys(n - 1)
    BY <1>3, Zenon
  <1>5. 0 \in 0..m /\ \A n \in 1..m : n \in 0..m /\ n # 0
    OBVIOUS
  <1>6. \A n \in 1..m : BaseKeysUpTo[n] = BaseKeysUpTo[n - 1] \o BaseKeys(n - 1)
    BY <1>4, <1>5, Zenon
  <1>7. BaseKeysUpTo[0] = <<>>
    BY <1>4, <1>5, Zenon
  <1> QED BY <1>6, <1>7

\* The keys of all base models.
LEMMA BaseKeysAdds ==
  ASSUME Len(card.bases) \in Nat
  PROVE  BaseKeysUpTo[Len(card.bases)] \in Once(OfBases(Len(card.bases)))
  <1> DEFINE m == Len(card.bases)
             P == {n \in Nat : n <= m => BaseKeysUpTo[n] \in Once(OfBases(n))}
  <1>1. 0 \in P
    <2>1. <<>> \in Once(OfBases(0))
      BY DEF Once, IsInjective
    <2> QED BY <2>1, BaseKeysStep
  <1>2. ASSUME NEW n \in P
        PROVE  n + 1 \in P
    <2> SUFFICES ASSUME n + 1 <= m PROVE BaseKeysUpTo[n + 1] \in Once(OfBases(n + 1))
      OBVIOUS
    <2>1. n \in Nat /\ n + 1 \in 1..m /\ (n + 1) - 1 = n /\ BaseKeysUpTo[n] \in Once(OfBases(n))
      OBVIOUS
    <2>2. BaseKeysUpTo[n + 1] = BaseKeysUpTo[n] \o BaseKeys(n)
      BY <2>1, BaseKeysStep
    <2>3. OfBases(n) \cap OfBase(n) = {}
      <3>1. \A x \in OfBases(n) : x[2] \in 0..(n - 1)
        BY Shapes DEF OfBases
      <3>2. \A x \in OfBase(n) : x[2] = n
        BY Shapes DEF OfBase
      <3> QED BY <2>1, <3>1, <3>2
    <2>4. OfBases(n) \cup OfBase(n) = OfBases(n + 1)
      <3>1. 0..((n + 1) - 1) = (0..(n - 1)) \cup {n}
        BY <2>1
      <3> QED BY <3>1 DEF OfBases, OfBase
    <2>5. BaseKeys(n) \in Once(OfBase(n))
      BY BaseKeysOnce
    <2> QED BY <2>1, <2>2, <2>3, <2>4, <2>5, Joined
  <1>3. m \in P
    <2>1. P \in SUBSET Nat
      OBVIOUS
    <2> HIDE DEF P
    <2> QED BY <1>1, <1>2, <2>1, AllNaturals
  <1> QED BY <1>3

\* What CardKvs adds for a card that is a map.
CardAdded ==
  CardKeys(<<"license", "license_name", "license_link">>)
  \o (IF card.listed THEN <<<<"general.base_model", "count">>>> ELSE <<>>)
  \o BaseKeysUpTo[Len(card.bases)]
  \o CardKeys(<<"tags", "languages">>)

LEMMA CardAdds ==
  ASSUME Len(card.bases) \in Nat
  PROVE  CardAdded \in Once(OfCard)
  <1> DEFINE m == Len(card.bases)
             a == CardKeys(Licences)
             b == IF card.listed THEN <<Count>> ELSE <<>>
             c == BaseKeysUpTo[m]
             d == CardKeys(Labels)
             A == General(Range(Licences))
             D == General(Range(Labels))
  <1>1. a \in Once(A) /\ d \in Once(D)
    BY CardKeysOnce, LabelsOnce
  <1>2. b \in Once({Count})
    BY DEF Once, IsInjective
  <1>3. c \in Once(OfBases(m))
    BY BaseKeysAdds
  <1>4. /\ A \cap {Count} = {} /\ (A \cup {Count}) \cap OfBases(m) = {}
        /\ (A \cup {Count} \cup OfBases(m)) \cap D = {}
    BY CardSets
  <1>5. CardAdded = a \o b \o c \o d
    BY DEF CardAdded, Licences, Labels, Count
  <1>6. A \cup {Count} \cup OfBases(m) \cup D \subseteq OfCard
    <2>1. OfBases(m) \subseteq AnyBases
      BY Zenon DEF AnyBases
    <2> HIDE DEF m
    <2> QED BY <2>1 DEF OfCard
  <1> HIDE DEF a, b, c, d, A, D, m
  <1>7. a \o b \in Once(A \cup {Count})
    BY <1>1, <1>2, <1>4, Joined
  <1>8. (a \o b) \o c \in Once(A \cup {Count} \cup OfBases(m))
    BY <1>3, <1>4, <1>7, Joined
  <1>9. ((a \o b) \o c) \o d \in Once(A \cup {Count} \cup OfBases(m) \cup D)
    BY <1>1, <1>4, <1>8, Joined
  <1>10. \A X, Y : X \subseteq Y => Once(X) \subseteq Once(Y)
    BY DEF Once
  <1> QED BY <1>5, <1>6, <1>9, <1>10

LEMMA HparamsAdd ==
  [i \in DOMAIN HparamKeys |->
     <<IF HparamKeys[i] \in GeneralKeys THEN "general" ELSE "qwen35", HparamKeys[i]>>]
    \in Once(OfHparams)
  <1> DEFINE ks == [i \in DOMAIN HparamKeys |->
                      <<IF HparamKeys[i] \in GeneralKeys THEN "general" ELSE "qwen35",
                        HparamKeys[i]>>]
  <1>1. PICK K : HparamKeys = Only(Hparams, K)
    BY DEF HparamKeys
  <1> DEFINE g == Only(Hparams, K)
  <1>2. ks = [i \in DOMAIN g |-> ks[i]]
    BY <1>1
  <1>3. \A i \in DOMAIN g :
           ks[i] = <<IF g[i] \in GeneralKeys THEN "general" ELSE "qwen35", g[i]>>
    BY <1>1
  <1> HIDE DEF ks
  <1>4. \A i \in DOMAIN g : g[i] \in Range(Hparams) \cap K => ks[i] \in OfHparams
    BY <1>3 DEF OfHparams
  <1>5. \A i \in DOMAIN g : ks[i][2] = g[i]
    <2> TAKE i \in DOMAIN g
    <2> DEFINE h == IF g[i] \in GeneralKeys THEN "general" ELSE "qwen35"
    <2>1. ks[i] = <<h, g[i]>>
      BY <1>3, Zenon
    <2> HIDE DEF h, g
    <2> QED BY <2>1
  <1>6. \A i, j \in DOMAIN g : ks[i] = ks[j] => g[i] = g[j]
    <2> HIDE DEF g
    <2> QED BY <1>5
  <1>7. ks \in Once(OfHparams)
    BY <1>2, <1>4, <1>6, Keyed, HparamsOnce
  <1> QED BY <1>7 DEF ks

LEMMA VocabAdds == TokenKeys \in Once(OfVocab)
  <1>1. TokenKeys \in [1..5 -> OfVocab]
    BY DEF TokenKeys, OfVocab
  <1>2. TokenKeys \in Seq(OfVocab) /\ DOMAIN TokenKeys = 1..5
    BY <1>1, FunctionIsSeq
  <1>3. \A i \in 1..5 : TokenKeys[i][1] = <<"model", "pre", "tokens", "token_type", "merges">>[i]
    BY DEF TokenKeys
  <1>4. \A i, j \in 1..5 : <<"model", "pre", "tokens", "token_type", "merges">>[i]
                             = <<"model", "pre", "tokens", "token_type", "merges">>[j] => i = j
    OBVIOUS
  <1>5. \A i, j \in 1..5 : TokenKeys[i] = TokenKeys[j] => i = j
    BY <1>3, <1>4
  <1> QED BY <1>2, <1>5 DEF Once, IsInjective

-----------------------------------------------------------------------------
(* The special ids.                                                        *)

\* The first elements of the pairs assigned are types, each once.
EachTypeOnce(ids) ==
  /\ ids \in Seq(Range(ids))
  /\ \A n \in DOMAIN ids : ids[n][1] \in Range(TYPES)
  /\ \A m, n \in DOMAIN ids : ids[m][1] = ids[n][1] => m = n

\* What one loop adds: types not there yet, with an id they have; and none that
\* has an id is missing then.
LoopAdds(ids, id, r) ==
  /\ EachTypeOnce(r)
  /\ \A n \in DOMAIN r :
        \/ n \in DOMAIN ids /\ r[n] = ids[n]
        \/ /\ r[n][2] \in id[r[n][1]]
           /\ \A m \in DOMAIN ids : ids[m][1] # r[n][1]
  /\ \A t \in Range(TYPES) : id[t] # {} => \E n \in DOMAIN r : r[n][1] = t

LEMMA AssignedIs ==
  ASSUME NEW ids, EachTypeOnce(ids), NEW id
  PROVE  LoopAdds(ids, id, Assigned(ids, id))
  <1> DEFINE free == {t \in Range(TYPES) : id[t] # {} /\ \A n \in DOMAIN ids : ids[n][1] # t}
             new == Only(TYPES, free)
             tail == [n \in DOMAIN new |-> <<new[n], CHOOSE i \in id[new[n]] : TRUE>>]
             r == ids \o tail
             a == Len(ids)
             b == Len(new)
  <1>1. Assigned(ids, id) = r
    BY DEF Assigned
  <1>2. TYPES \in Seq(Range(TYPES)) /\ \A i, j \in 1..Len(TYPES) : TYPES[i] = TYPES[j] => i = j
    BY TypesOnce DEF Once, IsInjective
  <1>3. /\ DOMAIN new = 1..b /\ b \in Nat
        /\ \A i, j \in 1..b : new[i] = new[j] => i = j
        /\ \A i \in 1..b : new[i] \in free
    <2>1. new \in Seq(Range(TYPES) \cap free)
      BY <1>2, OnlySeq
    <2>2. \A i, j \in 1..Len(new) : new[i] = new[j] => i = j
      BY <1>2, OnlyDistinct
    <2> HIDE DEF new, free
    <2> QED BY <2>1, <2>2
  <1>4. \A t \in free : \E n \in 1..b : new[n] = t
    <2> TAKE t \in free
    <2>1. PICK i \in 1..Len(TYPES) : TYPES[i] = t
      BY <1>2 DEF Range
    <2>2. Len(OnlyUpTo(TYPES, free)[i]) \in 1..Len(Only(TYPES, free))
          /\ Only(TYPES, free)[Len(OnlyUpTo(TYPES, free)[i])] = TYPES[i]
      <3> HIDE DEF free
      <3> QED BY <1>2, <2>1, OnlyPlace
    <2> QED BY <2>1, <2>2
  <1>5. \A n \in 1..b : tail[n][1] = new[n] /\ tail[n][2] \in id[new[n]]
    <2> TAKE n \in 1..b
    <2>1. tail[n] = <<new[n], CHOOSE i \in id[new[n]] : TRUE>>
      BY <1>3
    <2>2. id[new[n]] # {}
      BY <1>3
    <2>3. (CHOOSE i \in id[new[n]] : TRUE) \in id[new[n]]
      BY <2>2
    <2> HIDE DEF tail, new
    <2> QED BY <2>1, <2>3
  <1>6. /\ tail \in Seq(Range(tail)) /\ Len(tail) = b /\ DOMAIN tail = 1..b
        /\ ids \in Seq(Range(ids)) /\ DOMAIN ids = 1..a /\ a \in Nat
    <2>1. tail \in [1..b -> Range(tail)]
      BY <1>3 DEF Range
    <2>2. tail \in Seq(Range(tail)) /\ Len(tail) = b /\ DOMAIN tail = 1..b
      <3> HIDE DEF tail
      <3> QED BY <1>3, <2>1, FunctionIsSeq
    <2>3. ids \in Seq(Range(ids))
      BY DEF EachTypeOnce
    <2>4. DOMAIN ids = 1..a /\ a \in Nat
      <3> PICK s : s = ids
        OBVIOUS
      <3>1. DOMAIN s = 1..Len(s) /\ Len(s) \in Nat
        BY <2>3, LenProperties
      <3> QED BY <3>1
    <2> QED BY <2>2, <2>3, <2>4, Zenon
  <1>7. \A t \in free : t \in Range(TYPES) /\ \A n \in DOMAIN ids : ids[n][1] # t
    OBVIOUS
  <1>8. \A t \in Range(TYPES) : id[t] # {} => t \in free \/ \E n \in DOMAIN ids : ids[n][1] = t
    OBVIOUS
  <1> HIDE DEF free, new, tail, a, b
  <1>9. /\ DOMAIN r = 1..(a + b) /\ r \in Seq(Range(ids) \cup Range(tail))
        /\ \A n \in 1..a : r[n] = ids[n]
        /\ \A n \in (a + 1)..(a + b) : r[n] = tail[n - a]
    <2>1. ids \in Seq(Range(ids) \cup Range(tail)) /\ tail \in Seq(Range(ids) \cup Range(tail))
      BY <1>6
    <2> QED BY <1>6, <2>1 DEF a
  <1> HIDE DEF r
  <1>10. \A n \in 1..(a + b) : n \in 1..a \/ (n \in (a + 1)..(a + b) /\ n - a \in 1..b)
    BY <1>3, <1>6
  <1>11. \A n \in (a + 1)..(a + b) : n - a \in 1..b
    BY <1>3, <1>6
  <1>12. r \in Seq(Range(r))
    <2>1. r \in [1..(a + b) -> Range(r)]
      BY <1>9 DEF Range
    <2>2. a + b \in Nat
      BY <1>3, <1>6
    <2> QED BY <2>1, <2>2, FunctionIsSeq
  <1>13. \A n \in DOMAIN r : r[n][1] \in Range(TYPES)
    <2> TAKE n \in DOMAIN r
    <2>1. CASE n \in 1..a
      BY <1>6, <1>9, <2>1 DEF EachTypeOnce
    <2>2. CASE n \in (a + 1)..(a + b) /\ n - a \in 1..b
      BY <1>3, <1>5, <1>7, <1>9, <2>2
    <2> QED BY <1>9, <1>10, <2>1, <2>2
  <1>14. ASSUME NEW m \in DOMAIN r, NEW n \in DOMAIN r, r[m][1] = r[n][1]
         PROVE  m = n
    <2>1. ASSUME NEW i \in 1..a, NEW j \in 1..b
          PROVE  ids[i][1] # tail[j][1]
      BY <1>3, <1>5, <1>6, <1>7
    <2>2. CASE m \in 1..a /\ n \in 1..a
      BY <1>6, <1>9, <1>14, <2>2 DEF EachTypeOnce
    <2>3. CASE m \in 1..a /\ n \in (a + 1)..(a + b)
      BY <1>9, <1>11, <1>14, <2>1, <2>3
    <2>4. CASE m \in (a + 1)..(a + b) /\ n \in 1..a
      BY <1>9, <1>11, <1>14, <2>1, <2>4
    <2>5. CASE m \in (a + 1)..(a + b) /\ n \in (a + 1)..(a + b)
      <3>1. new[m - a] = new[n - a] /\ m - a \in 1..b /\ n - a \in 1..b
        BY <1>5, <1>9, <1>11, <1>14, <2>5
      <3>2. m - a = n - a
        BY <1>3, <3>1
      <3> QED BY <1>6, <2>5, <3>2
    <2> QED BY <1>9, <1>10, <2>2, <2>3, <2>4, <2>5
  <1>15. \A n \in DOMAIN r :
            \/ n \in DOMAIN ids /\ r[n] = ids[n]
            \/ /\ r[n][2] \in id[r[n][1]]
               /\ \A m \in DOMAIN ids : ids[m][1] # r[n][1]
    <2> TAKE n \in DOMAIN r
    <2>1. CASE n \in 1..a
      BY <1>6, <1>9, <2>1
    <2>2. CASE n \in (a + 1)..(a + b) /\ n - a \in 1..b
      BY <1>3, <1>5, <1>7, <1>9, <2>2
    <2> QED BY <1>9, <1>10, <2>1, <2>2
  <1>16. ASSUME NEW t \in Range(TYPES), id[t] # {}
         PROVE  \E n \in DOMAIN r : r[n][1] = t
    <2>1. CASE \E n \in DOMAIN ids : ids[n][1] = t
      <3>1. PICK n \in DOMAIN ids : ids[n][1] = t
        BY <2>1
      <3>2. n \in 1..a /\ n \in 1..(a + b)
        BY <1>3, <1>6, <3>1
      <3> QED BY <1>9, <3>1, <3>2
    <2>2. CASE t \in free
      <3>1. PICK n \in 1..b : new[n] = t
        BY <1>4, <2>2
      <3>2. n + a \in (a + 1)..(a + b) /\ n + a \in 1..(a + b) /\ (n + a) - a = n
        BY <1>3, <1>6
      <3>3. r[n + a] = tail[n]
        BY <1>9, <3>2
      <3> QED BY <1>5, <1>9, <3>1, <3>2, <3>3
    <2> QED BY <1>8, <1>16, <2>1, <2>2
  <1> QED BY <1>1, <1>12, <1>13, <1>14, <1>15, <1>16 DEF LoopAdds, EachTypeOnce

\* The ids that tokenizer_config.json names come first and are not given up.
LEMMA SpecialIs ==
  ASSUME NEW t
  PROVE  /\ EachTypeOnce(special_token_ids(t))
         /\ \A n \in DOMAIN special_token_ids(t) :
              LET typ == special_token_ids(t)[n][1]
              IN  /\ typ \in Range(TYPES)
                  /\ NamedId(t, typ) # {} => special_token_ids(t)[n][2] \in NamedId(t, typ)
  <1> DEFINE Named == [y \in Range(TYPES) |-> NamedId(t, y)]
             Config == [y \in Range(TYPES) |-> ConfigId(t, y)]
             a == Assigned(<<>>, Named)
             r == Assigned(a, Config)
  <1>1. EachTypeOnce(<<>>)
    BY DEF EachTypeOnce
  <1>2. LoopAdds(<<>>, Named, a)
    BY <1>1, AssignedIs
  <1>3. EachTypeOnce(a)
    BY <1>2 DEF LoopAdds
  <1>4. LoopAdds(a, Config, r)
    <2> HIDE DEF a, Config
    <2> QED BY <1>3, AssignedIs
  <1>5. special_token_ids(t) = r
    BY DEF special_token_ids
  <1>6. \A y \in Range(TYPES) : Named[y] = NamedId(t, y)
    OBVIOUS
  <1> HIDE DEF Named, Config, a, r
  <1>7. EachTypeOnce(r)
    BY <1>4 DEF LoopAdds
  <1>8. \A n \in DOMAIN a : a[n][2] \in Named[a[n][1]]
    <2>1. \A n : n \notin DOMAIN <<>>
      OBVIOUS
    <2> QED BY <1>2, <2>1 DEF LoopAdds
  <1>9. ASSUME NEW n \in DOMAIN r, NamedId(t, r[n][1]) # {}
        PROVE  r[n][2] \in NamedId(t, r[n][1])
    <2>1. r[n][1] \in Range(TYPES)
      BY <1>7 DEF EachTypeOnce
    <2>2. PICK m \in DOMAIN a : a[m][1] = r[n][1]
      BY <1>2, <1>6, <1>9, <2>1 DEF LoopAdds
    <2>3. n \in DOMAIN a /\ r[n] = a[n]
      BY <1>4, <2>2 DEF LoopAdds
    <2> QED BY <1>6, <1>8, <2>1, <2>3
  <1> QED BY <1>5, <1>7, <1>9 DEF EachTypeOnce

LEMMA SpecialAdds ==
  ASSUME NEW sp, EachTypeOnce(sp)
  PROVE  [i \in DOMAIN sp |-> <<"token_id", sp[i][1]>>] \in Once(OfSpecial)
  <1> DEFINE ks == [i \in DOMAIN sp |-> <<"token_id", sp[i][1]>>]
  <1>1. sp \in Seq(Range(sp))
    BY DEF EachTypeOnce
  <1>2. DOMAIN sp = 1..Len(sp) /\ Len(sp) \in Nat
    BY <1>1
  <1>3. \A i \in DOMAIN sp : ks[i] = <<"token_id", sp[i][1]>> /\ ks[i] \in OfSpecial
    BY DEF EachTypeOnce, OfSpecial
  <1>4. ks \in [1..Len(sp) -> OfSpecial]
    BY <1>2, <1>3
  <1>5. ks \in Seq(OfSpecial) /\ DOMAIN ks = 1..Len(sp)
    <2> HIDE DEF ks
    <2> QED BY <1>2, <1>4, FunctionIsSeq
  <1>6. \A i \in DOMAIN sp : ks[i][2] = sp[i][1]
    <2> HIDE DEF ks
    <2> QED BY <1>3
  <1> HIDE DEF ks
  <1>7. \A i, j \in DOMAIN ks : ks[i] = ks[j] => i = j
    BY <1>2, <1>5, <1>6 DEF EachTypeOnce
  <1> QED BY <1>5, <1>7 DEF Once, IsInjective, ks

-----------------------------------------------------------------------------
(* The run: what has been added and computed before each block.            *)

\* A block that adds keys of its own does not panic.
LEMMA AddHolds ==
  ASSUME NEW A, NEW B, A \cap B = {}, keys \in Once(A), NEW ks \in Once(B), NEW next,
         Add(ks, next)
  PROVE  pc' = next /\ keys' \in Once(A \cup B) /\ dir' = dir
  <1>1. keys \o ks \in Once(A \cup B)
    BY Joined
  <1>2. IsInjective(keys \o ks)
    BY <1>1 DEF Once
  <1> QED BY <1>1, <1>2 DEF Add

To1 == FirstKeys \cup OfSampling
To2 == To1 \cup OfNaming
To3 == To2 \cup OfCard
To4 == To3 \cup OfHparams
To5 == To4 \cup OfVocab
To6 == To5 \cup OfSpecial
To7 == To6 \cup OfTemplate

KInv ==
  /\ dir \in Dirs
  /\ pc \in {"card", "sampling"} => keys \in Once(FirstKeys)
  /\ pc = "naming"               => keys \in Once(To1)
  /\ pc = "card_kvs"             => keys \in Once(To2)
  /\ pc = "hparams"              => keys \in Once(To3)
  /\ pc = "vocab"                => keys \in Once(To4)
  /\ pc = "special"              => keys \in Once(To5)
  /\ pc = "template"             => keys \in Once(To6)
  /\ pc = "panicked"             => dir.missing # "none"
  /\ pc \in {"special", "template", "done"} => tokens \in load_vocab(tok, dir.size)
  /\ pc \in {"template", "done"} => special = special_token_ids(tok)

LEMMA KInvInit == Init => KInv
  <1> SUFFICES ASSUME Init PROVE KInv
    OBVIOUS
  <1>1. pc = "card" /\ dir \in Dirs
    BY DEF Init
  <1>2. keys \in Once(FirstKeys)
    <2>1. keys = <<<<"general.architecture">>, <<"general.type">>>>
      BY DEF Init
    <2>2. keys \in [1..2 -> FirstKeys]
      BY <2>1 DEF FirstKeys
    <2>3. keys \in Seq(FirstKeys) /\ DOMAIN keys = 1..2
      BY <2>2, FunctionIsSeq
    <2>4. keys[1][1] = "general.architecture" /\ keys[2][1] = "general.type"
      BY <2>1
    <2>5. \A i, j \in 1..2 : keys[i] = keys[j] => i = j
      BY <2>4
    <2> QED BY <2>3, <2>5 DEF Once, IsInjective
  <1> QED BY <1>1, <1>2 DEF KInv

\* A step that leaves what KInv speaks of, and ends or goes on as before.
LEMMA KInvEnds ==
  ASSUME KInv, UNCHANGED <<dir, keys, tokens, special>>,
         \/ pc' = "err" \/ pc' = pc \/ (pc = "card" /\ pc' = "sampling")
         \/ pc' = "panicked" /\ dir.missing # "none"
  PROVE  KInv'
BY DEF KInv, tok

LEMMA KInvStep == KInv /\ [Next]_vars => KInv'
  <1> SUFFICES ASSUME KInv, [Next]_vars PROVE KInv'
    OBVIOUS
  <1>0. dir \in Dirs
    BY DEF KInv
  <1>a. \A X, next : Add(X, next) => dir' = dir
    BY DEF Add
  <1>1. CASE LoadCard
    BY <1>1, KInvEnds DEF LoadCard, Fail
  <1>2. CASE Sampling
    <2>1. pc = "sampling" /\ keys \in Once(FirstKeys)
      BY <1>2 DEF Sampling, KInv
    <2>2. Add([i \in DOMAIN Only(SamplingKeys, dir.gen) |->
                 <<"general.sampling", Only(SamplingKeys, dir.gen)[i]>>], "naming")
      BY <1>2 DEF Sampling
    <2>3. pc' = "naming" /\ keys' \in Once(To1) /\ dir' = dir
      BY <2>1, <2>2, AddHolds, SamplingAdds, BlocksApart DEF To1
    <2> QED BY <1>0, <2>3 DEF KInv
  <1>3. CASE Naming
    <2>1. pc = "naming" /\ keys \in Once(To1)
      BY <1>3 DEF Naming, KInv
    <2>2. PICK K : Add([i \in DOMAIN Only(CardFields, K) |->
                          <<"general", Only(CardFields, K)[i]>>], "card_kvs")
      BY <1>3 DEF Naming
    <2>3. pc' = "card_kvs" /\ keys' \in Once(To2) /\ dir' = dir
      BY <2>1, <2>2, AddHolds, NamingAdds, BlocksApart DEF To1, To2
    <2> QED BY <1>0, <2>3 DEF KInv
  <1>4. CASE CardKvs
    <2>1. pc = "card_kvs" /\ keys \in Once(To2)
      BY <1>4 DEF CardKvs, KInv
    <2>2. CASE card.tag # "map"
      <3>1. Add(<<>>, "hparams")
        BY <1>4, <2>2 DEF CardKvs
      <3>2. <<>> \in Once(OfCard)
        BY DEF Once, IsInjective
      <3>3. pc' = "hparams" /\ keys' \in Once(To3) /\ dir' = dir
        BY <2>1, <3>1, <3>2, AddHolds, BlocksApart DEF To1, To2, To3
      <3> QED BY <1>0, <3>3 DEF KInv
    <2>3. CASE card.tag = "map" /\ Fail
      BY <2>3, KInvEnds DEF Fail
    <2>4. CASE card.tag = "map" /\ ~Fail
      <3>1. Add(CardAdded, "hparams")
        BY <1>4, <2>4 DEF CardKvs, CardAdded
      <3>2. Len(card.bases) \in Nat
        BY <1>0, <2>4, DirsAssumption DEF card
      <3>3. pc' = "hparams" /\ keys' \in Once(To3) /\ dir' = dir
        BY <2>1, <3>1, <3>2, AddHolds, CardAdds, BlocksApart DEF To1, To2, To3
      <3> QED BY <1>0, <3>3 DEF KInv
    <2> QED BY <2>2, <2>3, <2>4
  <1>5. CASE SetParameters
    <2>1. pc = "hparams" /\ keys \in Once(To3)
      BY <1>5 DEF SetParameters, KInv
    <2>2. CASE dir.missing \in BeforeRope \cup AfterRope /\ Panic
      <3>1. dir.missing # "none"
        BY <2>2 DEF BeforeRope, AfterRope
      <3> QED BY <2>2, <3>1, KInvEnds DEF Panic
    <2>3. CASE Fail
      BY <2>3, KInvEnds DEF Fail
    <2>4. CASE Add([i \in DOMAIN HparamKeys |->
                      <<IF HparamKeys[i] \in GeneralKeys THEN "general" ELSE "qwen35",
                        HparamKeys[i]>>], "vocab")
      <3>1. pc' = "vocab" /\ keys' \in Once(To4) /\ dir' = dir
        BY <2>1, <2>4, AddHolds, HparamsAdd, BlocksApart DEF To1, To2, To3, To4
      <3> QED BY <1>0, <3>1 DEF KInv
    <2> QED BY <1>5, <2>2, <2>3, <2>4 DEF SetParameters
  <1>6. CASE SetVocab
    <2>1. pc = "vocab" /\ keys \in Once(To4)
      BY <1>6 DEF SetVocab, KInv
    <2>2. CASE dir.missing = "vocab_size" /\ Panic
      BY <2>2, KInvEnds DEF Panic
    <2>3. CASE Fail
      BY <2>3, KInvEnds DEF Fail
    <2>4. CASE tokens' \in load_vocab(tok, dir.size) /\ Add(TokenKeys, "special")
      <3>1. pc' = "special" /\ keys' \in Once(To5) /\ dir' = dir
        BY <2>1, <2>4, AddHolds, VocabAdds, BlocksApart DEF To1, To2, To3, To4, To5
      <3> QED BY <1>0, <2>4, <3>1 DEF KInv, tok
    <2> QED BY <1>6, <2>2, <2>3, <2>4 DEF SetVocab
  <1>7. CASE SetSpecial
    <2>1. pc = "special" /\ keys \in Once(To5) /\ tokens \in load_vocab(tok, dir.size)
      BY <1>7 DEF SetSpecial, KInv
    <2>2. /\ special' = special_token_ids(tok) /\ tokens' = tokens
          /\ Add([i \in DOMAIN special' |-> <<"token_id", special'[i][1]>>], "template")
      BY <1>7 DEF SetSpecial
    <2>3. [i \in DOMAIN special' |-> <<"token_id", special'[i][1]>>] \in Once(OfSpecial)
      BY <2>2, SpecialIs, SpecialAdds
    <2>4. pc' = "template" /\ keys' \in Once(To6) /\ dir' = dir
      BY <2>1, <2>2, <2>3, AddHolds, BlocksApart DEF To1, To2, To3, To4, To5, To6
    <2> QED BY <1>0, <2>1, <2>2, <2>4 DEF KInv, tok
  <1>8. CASE SetTemplate
    <2>1. pc = "template" /\ keys \in Once(To6) /\ tokens \in load_vocab(tok, dir.size)
          /\ special = special_token_ids(tok)
      BY <1>8 DEF SetTemplate, KInv
    <2>2. CASE Fail
      BY <2>2, KInvEnds DEF Fail
    <2>3. CASE ~Fail
      <3> DEFINE ks == IF chat_template(tok) = "found" THEN <<<<"chat_template">>>> ELSE <<>>
      <3>1. Add(ks, "done") /\ UNCHANGED <<tokens, special>>
        BY <1>8, <2>3 DEF SetTemplate
      <3>2. ks \in Once(OfTemplate)
        BY DEF Once, IsInjective, OfTemplate
      <3>3. pc' = "done" /\ keys' \in Once(To7) /\ dir' = dir
        BY <2>1, <3>1, <3>2, AddHolds, BlocksApart DEF To1, To2, To3, To4, To5, To6, To7
      <3> QED BY <1>0, <2>1, <3>1, <3>3 DEF KInv, tok
    <2> QED BY <2>2, <2>3
  <1>9. CASE UNCHANGED vars
    BY <1>9, KInvEnds DEF vars
  <1> QED BY <1>1, <1>2, <1>3, <1>4, <1>5, <1>6, <1>7, <1>8, <1>9 DEF Next

LEMMA KInvHolds == Spec => []KInv
  BY KInvInit, KInvStep, PTL DEF Spec

\* PanicsOnlyWithoutHparam, for every directory: the seven blocks of build_kvs never
\* add the same key twice, whatever the card, the names and the tokenizer say.
THEOREM PanicsOnlyWithoutHparamTheorem == Spec => []PanicsOnlyWithoutHparam
  <1>1. KInv => PanicsOnlyWithoutHparam
    BY DEF KInv, PanicsOnlyWithoutHparam
  <1> QED BY <1>1, KInvHolds, PTL

\* With ids of their own, an added token is what the token list has at its id.
LEMMA AddedToken ==
  ASSUME KInv, AddedInRange, tokens \in load_vocab(tok, dir.size), NEW n \in DOMAIN tok.added
  PROVE  /\ tok.added[n].id \in DOMAIN tokens
         /\ tokens[tok.added[n].id].content.text = tok.added[n].content.text
  <1> DEFINE a == tok.added[n]
             i == a.id
             entry == AddedEntry(a)
  <1>1. dir \in Dirs
    BY DEF KInv
  <1>2. i \in Nat /\ i < dir.size
    BY <1>1, DirsAssumption DEF tok, AddedInRange
  <1>3. {m \in DOMAIN tok.added : tok.added[m].id = i} = {n}
    BY DEF AddedInRange
  <1>4. LastAdded(tok, i) = {a}
    <2> DEFINE same == {m \in DOMAIN tok.added : tok.added[m].id = i}
    <2>1. same = {n}
      BY <1>3
    <2>2. n \in Nat
      BY <1>1, DirsAssumption DEF tok
    <2>3. LastAdded(tok, i)
            = {tok.added[m] : m \in {m \in same : \A k \in same : k <= m}}
      BY Zenon DEF LastAdded
    <2> HIDE DEF same, i
    <2> QED BY <2>1, <2>2, <2>3
  <1>5. EntriesAt(tok, i) = {entry}
    <2>1. {AddedEntry(x) : x \in LastAdded(tok, i)} = {entry}
      BY <1>4
    <2> QED BY <2>1 DEF EntriesAt
  <1>6. entry.content.text = a.content.text
    <2>1. CASE a.special \/ a.content.look
      BY <2>1 DEF AddedEntry
    <2>2. CASE ~(a.special \/ a.content.look)
      <3>1. entry.content = [a.content EXCEPT !.marks = FALSE]
        BY <2>2 DEF AddedEntry
      <3>2. [a.content EXCEPT !.marks = FALSE].text = a.content.text
        OBVIOUS
      <3> QED BY <3>1, <3>2
    <2> QED BY <2>1, <2>2
  <1>7. DOMAIN tokens = 0..(dir.size - 1)
        /\ \A k \in 0..(dir.size - 1) : tokens[k] \in EntriesAt(tok, k)
    BY DEF load_vocab
  <1>8. i \in DOMAIN tokens /\ tokens[i] = entry
    <2>1. i \in 0..(dir.size - 1)
      BY <1>1, <1>2, DirsAssumption
    <2> HIDE DEF i, entry
    <2> QED BY <1>5, <1>7, <2>1
  <1> QED BY <1>6, <1>8

\* SpecialIdNamesItsToken, for every tokenizer: what the scan by content calls the id
\* of a special token is where the scan by id puts that token.
THEOREM SpecialIdNamesItsTokenTheorem == Spec => []SpecialIdNamesItsToken
  <1>1. ASSUME KInv PROVE SpecialIdNamesItsToken
    <2> SUFFICES ASSUME pc = "done", AddedInRange, NEW n \in DOMAIN special,
                        {c \in tok.names[special[n][1]] :
                           \E k \in DOMAIN tok.added : tok.added[k].content = c} # {}
                 PROVE  /\ special[n][2] \in DOMAIN tokens
                        /\ \E c \in {c \in tok.names[special[n][1]] :
                                       \E k \in DOMAIN tok.added : tok.added[k].content = c} :
                              tokens[special[n][2]].content.text = c.text
      BY Zenon DEF SpecialIdNamesItsToken
    <2> DEFINE typ == special[n][1]
               found == {k \in DOMAIN tok.added : tok.added[k].content \in tok.names[typ]}
    <2>1. tokens \in load_vocab(tok, dir.size) /\ special = special_token_ids(tok)
      BY <1>1 DEF KInv
    <2>2. found # {}
      OBVIOUS
    <2>3. found \subseteq Nat
      <3>1. tok.added \in Seq(Range(tok.added))
        BY <1>1, DirsAssumption DEF KInv, tok
      <3> QED BY <3>1
    <2>4. PICK m \in found : \A k \in found : m <= k
      <3> HIDE DEF found
      <3> QED BY <2>2, <2>3, LeastExists
    <2>5. NamedId(tok, typ) = {tok.added[k].id : k \in {k \in found : \A j \in found : k <= j}}
      BY DEF NamedId
    <2>6. NamedId(tok, typ) # {}
      <3> HIDE DEF found, typ
      <3> QED BY <2>4, <2>5
    <2>7. special[n][2] \in NamedId(tok, typ)
      BY <2>1, <2>6, SpecialIs
    <2>8. PICK k \in found : tok.added[k].id = special[n][2]
      <3> HIDE DEF found, typ
      <3> QED BY <2>5, <2>7
    <2>9. /\ tok.added[k].id \in DOMAIN tokens
          /\ tokens[tok.added[k].id].content.text = tok.added[k].content.text
      BY <1>1, <2>1, <2>8, AddedToken
    <2>10. tok.added[k].content \in tok.names[typ] /\ k \in DOMAIN tok.added
      BY <2>8
    <2> QED BY <2>8, <2>9, <2>10
  <1> QED BY <1>1, KInvHolds, PTL
=============================================================================
