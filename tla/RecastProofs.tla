---------------------------- MODULE RecastProofs ----------------------------
(***************************************************************************)
(* Proofs about recast: each of its steps is a step of the writer, so that *)
(* what GGUFWriterProofs shows of any client holds of this one, and on top *)
(* of that what the exit status, the untouched old output and the recorded *)
(* scales and rotations promise.                                           *)
(***************************************************************************)
EXTENDS Recast, GGUFWriterProofs, CommonLemmas

-----------------------------------------------------------------------------
(* Numbers.                                                                *)

\* The numbers behind the constants, which need not be seen again.
LEMMA Numbers ==
  /\ INF \in Nat /\ NAN = INF + 1 /\ INF > 2 * FP16_OVERFLOW
  /\ MaxFinite \in Nat /\ MaxFinite < INF /\ MaxFinite > FP16_OVERFLOW
  /\ FP16_OVERFLOW = 4095 /\ FP16_MAX = 4094 /\ FP16_HALF_RANGE = 2048 /\ One = 1875
BY SMT DEF INF, NAN, MaxFinite, FP16_OVERFLOW, One, FP16_MAX, FP16_HALF_RANGE

\* Magnitudes are numbers up to NAN.
LEMMA MagnitudesBounded == Magnitudes \subseteq 0..NAN
BY Numbers, SMT DEF Magnitudes

\* The magnitude of a value, and of what is one already.
LEMMA MagType ==
  /\ \A x \in Values : Mag(x) \in 0..NAN
  /\ \A x \in Nat : Mag(x) = x
<1>1. ASSUME NEW x \in Values PROVE Mag(x) \in 0..NAN
  <2>1. CASE x \in Finites
    <3>1. x \in Int /\ -MaxFinite <= x /\ x <= MaxFinite
      BY <2>1, Numbers DEF Finites
    <3> QED BY <3>1, Numbers DEF Mag
  <2>2. CASE x \in {INF, -INF, NAN}
    BY <2>2, Numbers DEF Mag
  <2> QED BY <2>1, <2>2 DEF Values
<1>2. \A x \in Nat : Mag(x) = x
  BY DEF Mag
<1> QED BY <1>1, <1>2

\* A set of magnitudes that is not empty has a greatest element: of the
\* distances to NAN one is least.
LEMMA MaxExists ==
  ASSUME NEW S \in SUBSET (0..NAN), S # {}
  PROVE  Max(S) \in S /\ \A y \in S : y <= Max(S)
<1> DEFINE D == {NAN - x : x \in S}
<1>1. D \in SUBSET Nat /\ D # {}
  <2>1. \A x \in S : x \in 0..NAN /\ NAN \in Nat
    BY Numbers
  <2>2. \A x \in S : NAN - x \in Nat
    BY <2>1
  <2>3. QED
    BY <2>2
<1>2. PICK d \in D : \A e \in D : d <= e
  <2> HIDE DEF D
  <2> QED BY <1>1, LeastExists
<1>5. PICK x \in S : d = NAN - x
  OBVIOUS
<1>6. \A y \in S : x >= y
  <2> TAKE y \in S
  <2>1. NAN - x <= NAN - y
    BY <1>2, <1>5
  <2> QED BY <2>1, Numbers
<1>7. Max(S) \in S /\ \A y \in S : Max(S) >= y
  BY <1>6 DEF Max
<1> QED BY <1>7, Numbers

-----------------------------------------------------------------------------
(* Rows.                                                                   *)

Bounded == 0..NAN

\* The elements of a row.
LEMMA RowElements ==
  ASSUME NEW S, NEW rows \in Seq(Seq(S)), NEW r \in DOMAIN rows
  PROVE  /\ rows[r] \in Seq(S) /\ Len(rows[r]) \in Nat
         /\ DOMAIN rows[r] = 1..Len(rows[r])
         /\ \A c \in DOMAIN rows[r] : rows[r][c] \in S
<1>1. rows[r] \in Seq(S)
  BY ElementOfSeq, LenProperties
<1> QED BY <1>1, ElementOfSeq, LenProperties

\* The magnitudes in rows of values.
LEMMA ElemsIn ==
  ASSUME NEW rows \in Seq(Seq(Values))
  PROVE  Elems(rows) \in SUBSET Bounded
<1>1. SUFFICES ASSUME NEW r \in DOMAIN rows, NEW x \in Range(rows[r])
               PROVE  Mag(x) \in Bounded
  BY DEF Elems
<1>2. PICK c \in DOMAIN rows[r] : x = rows[r][c]
  BY DEF Range
<1> QED BY <1>2, RowElements, MagType DEF Bounded

\* The two maxima are members of what they are taken of.
LEMMA MaxType ==
  ASSUME NEW rows \in Seq(Seq(Values)), NEW elems \in SUBSET Bounded
  PROVE  /\ bf16_absmax(rows) \in Elems(rows) \cup {0}
         /\ \A x \in Elems(rows) : x <= bf16_absmax(rows)
         /\ max_fold(elems) \in (elems \ {NAN}) \cup {0}
         /\ \A x \in elems \ {NAN} : x <= max_fold(elems)
         /\ bf16_absmax(rows) \in Bounded /\ max_fold(elems) \in Bounded
<1>1. 0 \in Bounded
  BY Numbers DEF Bounded
<1>2. Elems(rows) \cup {0} \in SUBSET Bounded
  BY <1>1, ElemsIn
<1>3. bf16_absmax(rows) \in Elems(rows) \cup {0}
      /\ \A x \in Elems(rows) \cup {0} : x <= bf16_absmax(rows)
  <2> DEFINE S == Elems(rows) \cup {0}
  <2>1. S \in SUBSET (0..NAN) /\ S # {}
    BY <1>2 DEF Bounded
  <2>2. Max(S) \in S /\ \A y \in S : y <= Max(S)
    <3> HIDE DEF S
    <3> QED BY <2>1, MaxExists
  <2> QED BY <2>2 DEF bf16_absmax
<1>4. max_fold(elems) \in (elems \ {NAN}) \cup {0}
      /\ \A x \in (elems \ {NAN}) \cup {0} : x <= max_fold(elems)
  <2> DEFINE S == (elems \ {NAN}) \cup {0}
  <2>1. S \in SUBSET (0..NAN) /\ S # {}
    BY <1>1 DEF Bounded
  <2>2. Max(S) \in S /\ \A y \in S : y <= Max(S)
    <3> HIDE DEF S
    <3> QED BY <2>1, MaxExists
  <2> QED BY <2>2 DEF max_fold
<1> QED BY <1>1, <1>2, <1>3, <1>4

\* A rounded result is a value, whatever has been rounded.
LEMMA RoundedType == \A x, root : F32(x) \in Values /\ divided(x, root) \in Values
BY DEF F32, divided, Values

\* The transform keeps the length of a row.
LEMMA RowType ==
  ASSUME NEW row \in Seq(Values), NEW d
  PROVE  walsh_hadamard_row(row, d) \in Seq(Values)
         /\ DOMAIN walsh_hadamard_row(row, d) = DOMAIN row
<1> DEFINE levels == FoldLeft(LAMBDA w, h : Level(w, d, h), row, Spans(d))
<1>1. walsh_hadamard_row(row, d) =
        [j \in DOMAIN row |-> IF j > d THEN row[j] ELSE divided(levels[j], Root(d))]
  BY Zenon DEF walsh_hadamard_row
<1> HIDE DEF levels
<1>2. Len(row) \in Nat /\ DOMAIN row = 1..Len(row) /\ \A j \in DOMAIN row : row[j] \in Values
  BY LenProperties, ElementOfSeq
<1>3. \A j \in DOMAIN row : (IF j > d THEN row[j] ELSE divided(levels[j], Root(d))) \in Values
  BY <1>2, RoundedType, Zenon
<1>4. walsh_hadamard_row(row, d) \in [1..Len(row) -> Values]
  BY <1>1, <1>2, <1>3
<1> QED BY <1>1, <1>2, <1>4, FunctionIsSeq

LEMMA TransformedType ==
  ASSUME NEW rows \in Seq(Seq(Values))
  PROVE  /\ Transformed(rows) \in Seq(Seq(Values))
         /\ DOMAIN Transformed(rows) = DOMAIN rows
         /\ \A r \in DOMAIN rows : DOMAIN Transformed(rows)[r] = DOMAIN rows[r]
<1>1. Len(rows) \in Nat /\ DOMAIN rows = 1..Len(rows)
      /\ \A r \in DOMAIN rows : rows[r] \in Seq(Values)
  BY LenProperties, ElementOfSeq
<1>2. \A r \in DOMAIN rows :
         LET row == walsh_hadamard_row(rows[r], largest_pow2_le(Len(rows[r])))
         IN  row \in Seq(Values) /\ DOMAIN row = DOMAIN rows[r]
  BY <1>1, RowType
<1>3. Transformed(rows) \in [1..Len(rows) -> Seq(Values)]
  BY <1>1, <1>2 DEF Transformed
<1>4. Transformed(rows) \in Seq(Seq(Values)) /\ DOMAIN Transformed(rows) = DOMAIN rows
  BY <1>1, <1>3, FunctionIsSeq
<1>5. \A r \in DOMAIN rows : DOMAIN Transformed(rows)[r] = DOMAIN rows[r]
  BY <1>2 DEF Transformed
<1> QED BY <1>4, <1>5

-----------------------------------------------------------------------------
(* What recast_tensor plans.                                               *)

Kinds == {"CastF16", "Bf16Passthrough", "F32Passthrough", "RawPassthrough"}
PlanEntry == [kind : Kinds, num : Bounded, hadamard : BOOLEAN]

\* The kind that goes with the type of a tensor.
Fits(e, t) == /\ e.kind = "CastF16" => t.dtype = T_BF16
              /\ e.kind = "F32Passthrough" => t.dtype = T_F32

LEMMA CastEntry ==
  ASSUME NEW num \in Bounded, NEW h \in BOOLEAN, NEW kind \in Kinds
  PROVE  Cast(num, h) \in PlanEntry /\ Pass(kind) \in PlanEntry /\ Cast(One, h) \in PlanEntry
<1>1. One \in Bounded
  BY Numbers DEF Bounded
<1> QED BY <1>1 DEF Cast, Pass, PlanEntry, Kinds

LEMMA TierEntry ==
  ASSUME job \in Job, NEW t \in InTensor, NEW rows \in Seq(Seq(Values))
  PROVE  /\ TierPlan(t, rows, bf16_absmax(rows)) \in PlanEntry
         /\ TierPlan(t, rows, bf16_absmax(rows)).kind # "F32Passthrough"
<1> DEFINE a == bf16_absmax(rows)
           post == max_fold(Elems(Transformed(rows)))
<1>1. a \in Bounded /\ post \in Bounded
  <2>1. rows \in Seq(Seq(Values)) /\ Transformed(rows) \in Seq(Seq(Values))
    BY TransformedType
  <2>2. Elems(Transformed(rows)) \in SUBSET Bounded
    BY <2>1, ElemsIn
  <2> QED BY <2>1, <2>2, MaxType
<1>2. \A num \in Bounded, h \in BOOLEAN :
         /\ Cast(num, h) \in PlanEntry /\ Cast(One, h) \in PlanEntry
         /\ Cast(num, h).kind # "F32Passthrough" /\ Cast(One, h).kind # "F32Passthrough"
  <2>1. TAKE num \in Bounded, h \in BOOLEAN
  <2>2. "CastF16" \in Kinds
    BY DEF Kinds
  <2> QED BY <2>2, CastEntry DEF Cast
<1>3. Pass("Bf16Passthrough") \in PlanEntry /\ Pass("Bf16Passthrough").kind # "F32Passthrough"
  <2>1. "Bf16Passthrough" \in Kinds /\ a \in Bounded /\ TRUE \in BOOLEAN
    BY <1>1 DEF Kinds
  <2> HIDE DEF a
  <2>2. Pass("Bf16Passthrough") \in PlanEntry
    BY <2>1, CastEntry
  <2> QED BY <2>2 DEF Pass
<1>4. Rescale(a) \in PlanEntry /\ Rescale(a).kind # "F32Passthrough"
  <2> HIDE DEF a
  <2> QED BY <1>1, <1>2 DEF Rescale
<1>5. T5Plan(rows) \in PlanEntry /\ T5Plan(rows).kind # "F32Passthrough"
  <2>1. T5Plan(rows) = Cast(IF post > FP16_HALF_RANGE \/ job.force THEN post ELSE One, TRUE)
    BY DEF T5Plan
  <2> HIDE DEF post
  <2> QED BY <1>1, <1>2, <2>1
<1>6. Cast(One, FALSE) \in PlanEntry /\ Cast(One, FALSE).kind # "F32Passthrough"
  BY <1>1, <1>2
<1>7. job.tier \in {"dry-run", "T1", "T2", "T3", "T4", "T5"}
  BY DEF Job
<1> HIDE DEF a
<1>8. /\ job.tier = "dry-run" => TierPlan(t, rows, a) = Pass("Bf16Passthrough")
      /\ job.tier = "T1" => TierPlan(t, rows, a) \in {Pass("Bf16Passthrough"), Cast(One, FALSE)}
      /\ job.tier \in {"T2", "T3"} => TierPlan(t, rows, a) = Rescale(a)
      /\ job.tier = "T4" => TierPlan(t, rows, a) \in {Cast(One, FALSE), Rescale(a)}
      /\ job.tier = "T5" => TierPlan(t, rows, a) \in {T5Plan(rows), Rescale(a)}
  BY DEF TierPlan
<1>9. TierPlan(t, rows, a) \in {Pass("Bf16Passthrough"), Cast(One, FALSE), Rescale(a), T5Plan(rows)}
  BY <1>7, <1>8
<1>10. TierPlan(t, rows, a) \in PlanEntry /\ TierPlan(t, rows, a).kind # "F32Passthrough"
  BY <1>3, <1>4, <1>5, <1>6, <1>9
<1> QED BY <1>10 DEF a

\* A plan entry is well formed and casts nothing but BF16.
LEMMA EntryType ==
  ASSUME job \in Job, NEW t \in InTensor, NEW rows \in Seq(Seq(Values))
  PROVE  recast_tensor(t, rows) \in PlanEntry /\ Fits(recast_tensor(t, rows), t)
<1>1. \A kind \in Kinds : Pass(kind) \in PlanEntry /\ Pass(kind).kind = kind
  <2>1. TAKE kind \in Kinds
  <2>2. 0 \in Bounded /\ TRUE \in BOOLEAN
    BY Numbers DEF Bounded
  <2>3. Pass(kind) \in PlanEntry
    BY <2>2, CastEntry
  <2> QED BY <2>3 DEF Pass
<1>2. Cast(One, FALSE) \in PlanEntry /\ Cast(One, FALSE).kind = "CastF16"
  <2>1. 0 \in Bounded /\ "CastF16" \in Kinds
    BY Numbers DEF Bounded, Kinds
  <2> QED BY <2>1, CastEntry DEF Cast
<1>3. "F32Passthrough" \in Kinds /\ "RawPassthrough" \in Kinds /\ "Bf16Passthrough" \in Kinds
  BY DEF Kinds
<1>4. CASE t.dtype # T_BF16
  <2>1. recast_tensor(t, rows) = IF t.dtype = T_F32 THEN Pass("F32Passthrough") ELSE Pass("RawPassthrough")
    BY <1>4 DEF recast_tensor
  <2> QED BY <1>1, <1>3, <2>1 DEF Fits
<1>5. CASE t.dtype = T_BF16
  <2>1. recast_tensor(t, rows) \in {Pass("Bf16Passthrough"), Cast(One, FALSE),
                                    TierPlan(t, rows, bf16_absmax(rows))}
    BY <1>5 DEF recast_tensor
  <2>2. recast_tensor(t, rows) \in PlanEntry /\ recast_tensor(t, rows).kind # "F32Passthrough"
    BY <1>1, <1>2, <1>3, <2>1, TierEntry
  <2> QED BY <1>5, <2>2 DEF Fits
<1> QED BY <1>4, <1>5

\* A quotient below FP16_OVERFLOW is a number binary16 has room for.
LEMMA CastType ==
  ASSUME NEW x \in Bounded, NEW num \in Bounded
  PROVE  cast(x, num) \in 0..FP16_MAX \cup {INF, NAN}
<1>1. x \in Nat /\ num \in Nat
  BY Numbers DEF Bounded
<1>2. ASSUME num # 0, x * One < FP16_OVERFLOW * num
      PROVE  (x * One) \div num \in 0..FP16_MAX
  <2> DEFINE p == x * One
             q == p \div num
  <2>1. p \in Nat /\ num \in Nat \ {0}
    BY <1>1, <1>2, Numbers
  <2>2. p < FP16_OVERFLOW * num
    BY <1>2
  <2> HIDE DEF p
  <2>3. q \in Nat /\ q * num <= p
    BY <2>1
  <2> HIDE DEF q
  <2>4. ASSUME q >= FP16_OVERFLOW PROVE FALSE
    <3>1. q * num >= FP16_OVERFLOW * num
      BY <2>1, <2>3, <2>4, Numbers
    <3> QED BY <2>1, <2>2, <2>3, <3>1, Numbers
  <2>5. q \in 0..FP16_MAX
    BY <2>3, <2>4, Numbers
  <2> QED BY <2>5 DEF p, q
<1>3. CASE NAN \in {x, num} \/ num = INF \/ x = INF \/ (num = 0 /\ x # 0) \/ x = 0
  <2>1. 0 \in 0..FP16_MAX
    BY Numbers
  <2> QED BY <1>3, <2>1 DEF cast
<1>4. CASE ~(NAN \in {x, num} \/ num = INF \/ x = INF \/ (num = 0 /\ x # 0) \/ x = 0)
  <2>1. cast(x, num) = IF x * One >= FP16_OVERFLOW * num THEN INF ELSE (x * One) \div num
    BY <1>4 DEF cast
  <2>2. x * One \in Nat /\ FP16_OVERFLOW * num \in Nat /\ num # 0
    BY <1>1, <1>4, Numbers
  <2> QED BY <1>2, <2>1, <2>2
<1> QED BY <1>3, <1>4

\* The plan announces for every tensor the bytes that pass 2 reads for it.
LEMMA AnnouncedIsRead ==
  ASSUME NEW i \in DOMAIN job.tensors, NElems(job.tensors[i]) \in Nat,
         Fits(plan[i], job.tensors[i])
  PROVE  OutBytes(i) = TensorBytes(job.tensors[i])
<1> DEFINE t == job.tensors[i]
           n == NElems(t)
<1>1. NBytes(T_BF16, n) = n * 2 /\ NBytes(T_F32, n) = n * 4
  <2>1. type_sizes[T_BF16].block = 1 /\ type_sizes[T_BF16].bytes = 2
        /\ type_sizes[T_F32].block = 1 /\ type_sizes[T_F32].bytes = 4
    BY DEF type_sizes, T_F32, T_F16, T_Q4_0, T_Q8_0, T_BF16, T_Q4_0_AR16
  <2>2. n \in Nat
    OBVIOUS
  <2> HIDE DEF n
  <2>3. n \div 1 = n
    BY <2>2
  <2> QED BY <2>1, <2>3 DEF NBytes
<1>2. TensorBytes(t) = NBytes(t.dtype, n)
  BY DEF TensorBytes
<1>3. CASE plan[i].kind = "CastF16"
  BY <1>1, <1>2, <1>3 DEF OutBytes, Fits
<1>4. CASE plan[i].kind = "F32Passthrough"
  BY <1>1, <1>2, <1>4 DEF OutBytes, Fits
<1>5. CASE plan[i].kind \notin {"CastF16", "F32Passthrough"}
  BY <1>5 DEF OutBytes
<1> QED BY <1>3, <1>4, <1>5

-----------------------------------------------------------------------------
(* The KV section: what it declares, that it fits the writer's instance, and *)
(* when all its keys differ.                                                *)

Distinct(s) == \A i, j \in 1..Len(s) : i # j => s[i] # s[j]

\* The elements of s \o t by their places.
LEMMA JoinParts ==
  ASSUME NEW S, NEW s \in Seq(S), NEW t \in Seq(S)
  PROVE  /\ s \o t \in Seq(S) /\ Len(s \o t) = Len(s) + Len(t)
         /\ Len(s) \in Nat /\ Len(t) \in Nat
         /\ \A i \in 1..Len(s) : i \in 1..Len(s \o t) /\ (s \o t)[i] = s[i]
         /\ \A j \in 1..Len(t) :
              Len(s) + j \in 1..Len(s \o t) /\ (s \o t)[Len(s) + j] = t[j]
         /\ \A k \in 1..Len(s \o t) :
              k \in 1..Len(s) \/ (k - Len(s) \in 1..Len(t) /\ (s \o t)[k] = t[k - Len(s)])
<1> DEFINE m == Len(s)
           n == Len(t)
<1>1. m \in Nat /\ n \in Nat
  BY LenProperties
<1>2. /\ s \o t \in Seq(S) /\ Len(s \o t) = m + n
      /\ \A i \in 1..(m + n) : (s \o t)[i] = IF i <= m THEN s[i] ELSE t[i - m]
  BY ConcatProperties
<1> HIDE DEF m, n
<1>3. \A i \in 1..m : i \in 1..(m + n) /\ (s \o t)[i] = s[i]
  BY <1>1, <1>2
<1>4. \A j \in 1..n : m + j \in 1..(m + n) /\ (s \o t)[m + j] = t[j]
  <2> TAKE j \in 1..n
  <2>1. m + j \in 1..(m + n) /\ ~(m + j <= m) /\ (m + j) - m = j
    BY <1>1
  <2> QED BY <1>2, <2>1
<1>5. \A k \in 1..(m + n) : k \in 1..m \/ (k - m \in 1..n /\ (s \o t)[k] = t[k - m])
  <2> TAKE k \in 1..(m + n)
  <2>1. k \in 1..m \/ (k - m \in 1..n /\ ~(k <= m))
    BY <1>1
  <2> QED BY <1>2, <2>1
<1> QED BY <1>1, <1>2, <1>3, <1>4, <1>5 DEF m, n

\* Keys that differ within two parts and from part to part differ throughout.
LEMMA JoinDistinct ==
  ASSUME NEW S, NEW s \in Seq(S), NEW t \in Seq(S)
  PROVE  Distinct(s \o t) <=>
           /\ Distinct(s) /\ Distinct(t)
           /\ \A i \in 1..Len(s), j \in 1..Len(t) : s[i] # t[j]
<1> DEFINE u == s \o t
           m == Len(s)
           n == Len(t)
<1>1. /\ Len(u) = m + n /\ m \in Nat /\ n \in Nat
      /\ \A i \in 1..m : i \in 1..Len(u) /\ u[i] = s[i]
      /\ \A j \in 1..n : m + j \in 1..Len(u) /\ u[m + j] = t[j]
      /\ \A k \in 1..Len(u) : k \in 1..m \/ (k - m \in 1..n /\ u[k] = t[k - m])
  BY JoinParts
<1> HIDE DEF u, m, n
<1>2. ASSUME Distinct(u)
      PROVE  /\ \A i, j \in 1..m : i # j => s[i] # s[j]
             /\ \A i, j \in 1..n : i # j => t[i] # t[j]
             /\ \A i \in 1..m, j \in 1..n : s[i] # t[j]
  <2>1. \A i, j \in 1..m : i # j => s[i] # s[j]
    BY <1>1, <1>2 DEF Distinct
  <2>2. \A i, j \in 1..n : i # j => t[i] # t[j]
    <3> TAKE i, j \in 1..n
    <3> HAVE i # j
    <3>1. m + i # m + j
      BY <1>1
    <3> QED BY <1>1, <1>2, <3>1 DEF Distinct
  <2>3. \A i \in 1..m, j \in 1..n : s[i] # t[j]
    <3> TAKE i \in 1..m, j \in 1..n
    <3>1. i # m + j
      BY <1>1
    <3> QED BY <1>1, <1>2, <3>1 DEF Distinct
  <2> QED BY <2>1, <2>2, <2>3
<1>3. ASSUME \A i, j \in 1..m : i # j => s[i] # s[j],
             \A i, j \in 1..n : i # j => t[i] # t[j],
             \A i \in 1..m, j \in 1..n : s[i] # t[j]
      PROVE  Distinct(u)
  <2> SUFFICES ASSUME NEW k \in 1..Len(u), NEW l \in 1..Len(u), k # l
               PROVE  u[k] # u[l]
    BY DEF Distinct
  <2>1. /\ k \in 1..m \/ (k - m \in 1..n /\ u[k] = t[k - m])
        /\ l \in 1..m \/ (l - m \in 1..n /\ u[l] = t[l - m])
    BY <1>1
  <2>2. k - m # l - m
    BY <1>1
  <2>3. (k \in 1..m => u[k] = s[k]) /\ (l \in 1..m => u[l] = s[l])
    BY <1>1
  <2>4. CASE k \in 1..m /\ l \in 1..m
    BY <1>3, <2>3, <2>4, Zenon
  <2>5. CASE k \in 1..m /\ l \notin 1..m
    BY <1>3, <2>1, <2>3, <2>5, Zenon
  <2>6. CASE k \notin 1..m /\ l \in 1..m
    <3>1. u[l] = s[l] /\ u[k] = t[k - m] /\ k - m \in 1..n
      BY <2>1, <2>3, <2>6
    <3>2. s[l] # t[k - m]
      BY <1>3, <2>6, <3>1, Zenon
    <3> QED BY <3>1, <3>2
  <2>7. CASE k \notin 1..m /\ l \notin 1..m
    BY <1>3, <2>1, <2>2, <2>7, Zenon
  <2> QED BY <2>4, <2>5, <2>6, <2>7
<1>4. /\ Distinct(s) <=> \A i, j \in 1..m : i # j => s[i] # s[j]
      /\ Distinct(t) <=> \A i, j \in 1..n : i # j => t[i] # t[j]
  BY DEF Distinct, m, n
<1>5. Distinct(u) <=> /\ Distinct(s) /\ Distinct(t)
                      /\ \A i \in 1..m, j \in 1..n : s[i] # t[j]
  BY <1>2, <1>3, <1>4, Zenon
<1> QED BY <1>5 DEF u, m, n

\* Two lists of different keys out of different sets.
LEMMA Joined ==
  ASSUME NEW S, NEW s \in Seq(S), NEW m \in Nat, Len(s) <= m, Distinct(s),
         NEW T, NEW t \in Seq(T), NEW n \in Nat, Len(t) <= n, Distinct(t),
         S \cap T = {}
  PROVE  s \o t \in Seq(S \cup T) /\ Len(s \o t) <= m + n /\ Distinct(s \o t)
<1>1. s \in Seq(S \cup T) /\ t \in Seq(S \cup T)
  BY SeqMonotonic
<1>2. s \o t \in Seq(S \cup T) /\ Len(s \o t) = Len(s) + Len(t)
      /\ Len(s) \in Nat /\ Len(t) \in Nat
  BY <1>1, JoinParts
<1>3. \A i \in 1..Len(s), j \in 1..Len(t) : s[i] # t[j]
  <2> TAKE i \in 1..Len(s), j \in 1..Len(t)
  <2>1. s[i] \in S /\ t[j] \in T
    BY ElementOfSeq
  <2> QED BY <2>1
<1>4. Distinct(s \o t)
  BY <1>1, <1>3, JoinDistinct
<1> QED BY <1>2, <1>4

\* A list that is there or not.
LEMMA Optional ==
  ASSUME NEW S, NEW keys \in Seq(S), NEW n \in Nat, Len(keys) = n, Distinct(keys),
         NEW c, c = keys \/ c = <<>>
  PROVE  c \in Seq(S) /\ Len(c) <= n /\ Distinct(c)
<1>1. CASE c = keys
  BY <1>1
<1>2. CASE c = <<>>
  <2>1. <<>> \in Seq(S) /\ Len(<<>>) = 0
    BY EmptySeq, Zenon
  <2>2. c \in Seq(S) /\ Len(c) = 0
    BY <1>2, <2>1, Zenon
  <2>3. Distinct(c)
    BY <2>2 DEF Distinct
  <2> QED BY <2>2, <2>3
<1> QED BY <1>1, <1>2

\* run's own keys are up to nine, all different, and the architecture is not
\* among them.
LEMMA OwnKeysType ==
  /\ OwnKeys \in Seq(RecastKeys \ {ARCH}) /\ Len(OwnKeys) <= 9 /\ Distinct(OwnKeys)
  /\ Len(OwnKeys) \in Nat
<1> DEFINE C == {"recast.tier"}
           D == {"recast.force_rescale"}
           E == {"recast.scales.names", "recast.scales.values"}
           F == {"recast.hadamard.names", "recast.hadamard.values"}
           G == {"recast.per_channel.names", "recast.per_channel.lengths",
                 "recast.per_channel.values"}
           ks == <<"recast.scales.names", "recast.scales.values">>
           kh == <<"recast.hadamard.names", "recast.hadamard.values">>
           kc == <<"recast.per_channel.names", "recast.per_channel.lengths",
                   "recast.per_channel.values">>
           c == <<"recast.tier">>
           kf == <<"recast.force_rescale">>
           d == If(job.force, kf)
           e == If(Scaled # {}, ks)
           f == If(Rotated # {}, kh)
           g == If(chans # <<>>, kc)
<1>1. /\ c \in Seq(C) /\ Len(c) = 1 /\ Distinct(c)
      /\ kf \in Seq(D) /\ Len(kf) = 1 /\ Distinct(kf)
  BY DEF Distinct
<1>2. ks \in Seq(E) /\ Len(ks) = 2 /\ Distinct(ks)
  BY DEF Distinct
<1>3. kh \in Seq(F) /\ Len(kh) = 2 /\ Distinct(kh)
  BY DEF Distinct
<1>4. kc \in Seq(G) /\ Len(kc) = 3 /\ Distinct(kc)
  BY DEF Distinct
<1>5. /\ C \cap D = {} /\ (C \cup D) \cap E = {} /\ (C \cup D \cup E) \cap F = {}
      /\ (C \cup D \cup E \cup F) \cap G = {}
      /\ C \cup D \cup E \cup F \cup G \subseteq RecastKeys \ {ARCH}
  BY DEF RecastKeys, ARCH
<1>6. OwnKeys = (((c \o d) \o e) \o f) \o g
  BY Zenon DEF OwnKeys
<1>14. /\ d = kf \/ d = <<>>
       /\ e = ks \/ e = <<>>
       /\ f = kh \/ f = <<>>
       /\ g = kc \/ g = <<>>
  BY DEF If
<1> HIDE DEF C, D, E, F, G, c, kf, ks, kh, kc, d, e, f, g
<1>7. /\ d \in Seq(D) /\ Len(d) <= 1 /\ Distinct(d)
      /\ e \in Seq(E) /\ Len(e) <= 2 /\ Distinct(e)
      /\ f \in Seq(F) /\ Len(f) <= 2 /\ Distinct(f)
      /\ g \in Seq(G) /\ Len(g) <= 3 /\ Distinct(g)
  <2>1. d \in Seq(D) /\ Len(d) <= 1 /\ Distinct(d)
    <3>1. kf \in Seq(D) /\ Len(kf) = 1 /\ Distinct(kf) /\ (d = kf \/ d = <<>>)
      BY <1>1, <1>14
    <3>2. 1 \in Nat
      OBVIOUS
    <3> QED BY <3>1, <3>2, Optional, Zenon
  <2>2. e \in Seq(E) /\ Len(e) <= 2 /\ Distinct(e)
    BY <1>2, <1>14, Optional
  <2>3. f \in Seq(F) /\ Len(f) <= 2 /\ Distinct(f)
    BY <1>3, <1>14, Optional
  <2>4. g \in Seq(G) /\ Len(g) <= 3 /\ Distinct(g)
    BY <1>4, <1>14, Optional
  <2> QED BY <2>1, <2>2, <2>3, <2>4
<1>8. c \o d \in Seq(C \cup D) /\ Len(c \o d) <= 1 + 1 /\ Distinct(c \o d)
  <2>1. Len(c) <= 1
    BY <1>1
  <2> QED BY <1>1, <1>5, <1>7, <2>1, Joined
<1> DEFINE p == c \o d
<1> HIDE DEF p
<1>9. p \o e \in Seq(C \cup D \cup E) /\ Len(p \o e) <= 2 + 2 /\ Distinct(p \o e)
  <2>1. p \in Seq(C \cup D) /\ Len(p) <= 2 /\ Distinct(p)
    BY <1>8 DEF p
  <2> QED BY <1>5, <1>7, <2>1, Joined
<1> DEFINE q == p \o e
<1> HIDE DEF q
<1>10. q \o f \in Seq(C \cup D \cup E \cup F) /\ Len(q \o f) <= 4 + 2 /\ Distinct(q \o f)
  <2>1. q \in Seq(C \cup D \cup E) /\ Len(q) <= 4 /\ Distinct(q)
    BY <1>9 DEF q
  <2> QED BY <1>5, <1>7, <2>1, Joined
<1> DEFINE r == q \o f
<1> HIDE DEF r
<1>11. r \o g \in Seq(C \cup D \cup E \cup F \cup G) /\ Len(r \o g) <= 6 + 3
       /\ Distinct(r \o g)
  <2>1. r \in Seq(C \cup D \cup E \cup F) /\ Len(r) <= 6 /\ Distinct(r)
    BY <1>10 DEF r
  <2> QED BY <1>5, <1>7, <2>1, Joined
<1>12. OwnKeys = r \o g
  BY <1>6 DEF p, q, r
<1>13. OwnKeys \in Seq(RecastKeys \ {ARCH}) /\ Len(OwnKeys) \in Nat
  <2> DEFINE all == C \cup D \cup E \cup F \cup G
             own == RecastKeys \ {ARCH}
  <2>1. OwnKeys \in Seq(all) /\ all \subseteq own
    BY <1>5, <1>11, <1>12
  <2> HIDE DEF all, own
  <2>2. OwnKeys \in Seq(own) /\ Len(OwnKeys) \in Nat
    BY <2>1, SeqMonotonic, LenProperties
  <2> QED BY <2>2 DEF own
<1> QED BY <1>11, <1>12, <1>13

\* The KV section has keys the writer knows and is within its bound.
LEMMA KvPlanType ==
  ASSUME job \in Jobs
  PROVE  /\ KvPlan \in Seq(Keys) /\ Len(KvPlan) <= MaxKvs
         /\ If(Arch = "string", <<ARCH>>) \in Seq(Keys)
         /\ copy_kvs(job.kvs) \in Seq(Keys) /\ OwnKeys \in Seq(Keys)
         /\ If(Arch = "string", <<ARCH>>) \o copy_kvs(job.kvs) \in Seq(Keys)
         /\ KvPlan = (If(Arch = "string", <<ARCH>>) \o copy_kvs(job.kvs)) \o OwnKeys
         /\ Distinct(If(Arch = "string", <<ARCH>>))
         /\ \A i \in 1..Len(If(Arch = "string", <<ARCH>>)) :
               If(Arch = "string", <<ARCH>>)[i] = ARCH
<1> DEFINE a == If(Arch = "string", <<ARCH>>)
           b == copy_kvs(job.kvs)
<1>1. RecastKeys \subseteq Keys /\ ARCH \in Keys /\ MaxKvs \in Nat
      /\ b \in Seq(Keys) /\ Len(b) + 10 <= MaxKvs
  BY RecastAssumption DEF RecastKeys
<1>2. a \in Seq({ARCH}) /\ Len(a) <= 1 /\ Distinct(a)
  <2> DEFINE ks == <<ARCH>>
  <2>1. ks \in Seq({ARCH}) /\ Len(ks) = 1 /\ Distinct(ks)
    BY DEF Distinct
  <2>2. a = ks \/ a = <<>>
    BY DEF If
  <2> HIDE DEF ks, a
  <2> QED BY <2>1, <2>2, Optional
<1>3. KvPlan = (a \o b) \o OwnKeys
  BY Zenon DEF KvPlan
<1>4. OwnKeys \in Seq(Keys) /\ Len(OwnKeys) <= 9 /\ Len(OwnKeys) \in Nat
  BY <1>1, OwnKeysType, SeqMonotonic
<1> HIDE DEF a, b
<1>5. a \in Seq(Keys)
  BY <1>1, <1>2, SeqMonotonic
<1>6. a \o b \in Seq(Keys) /\ Len(a \o b) = Len(a) + Len(b)
      /\ Len(a) \in Nat /\ Len(b) \in Nat /\ Len(a \o b) \in Nat
  BY <1>1, <1>5, JoinParts, LenProperties
<1>7. KvPlan \in Seq(Keys) /\ Len(KvPlan) = (Len(a) + Len(b)) + Len(OwnKeys)
  BY <1>3, <1>4, <1>6, JoinParts
<1>8. Len(KvPlan) <= MaxKvs
  BY <1>1, <1>2, <1>4, <1>6, <1>7
<1>9. \A i \in 1..Len(a) : a[i] = ARCH
  <2> TAKE i \in 1..Len(a)
  <2>1. a[i] \in {ARCH}
    BY <1>2, ElementOfSeq
  <2> QED BY <2>1
<1> QED BY <1>1, <1>2, <1>3, <1>4, <1>5, <1>6, <1>7, <1>8, <1>9 DEF a, b

\* What copy_kvs copies, and the place of the KV at i in the copy.
KeptKvs  == {kv \in Range(job.kvs) : kv.key # ARCH /\ kv.form \notin Dropped}
Place(i) == Len(OnlyUpTo(job.kvs, KeptKvs)[i])
KeptAt   == {i \in DOMAIN job.kvs : Keep(job.kvs[i])}

\* Each KV that is kept has a place of its own in the copy, and there are no
\* others in it.
LEMMA CopyPlaces ==
  ASSUME job \in Jobs
  PROVE  /\ \A i \in KeptAt : /\ Place(i) \in 1..Len(copy_kvs(job.kvs))
                              /\ copy_kvs(job.kvs)[Place(i)] = job.kvs[i].key
         /\ \A i, j \in KeptAt : i # j => Place(i) # Place(j)
         /\ \A k \in 1..Len(copy_kvs(job.kvs)) : \E i \in KeptAt : Place(i) = k
<1> DEFINE KvT == [key : STRING, form : STRING]
<1> PICK s, K, l : s = job.kvs /\ K = KeptKvs /\ l = Len(s)
  OBVIOUS
<1>1. s \in Seq(KvT) /\ l \in Nat /\ DOMAIN s = 1..l /\ l = Len(s) /\ l \in 0..l
  <2>1. job \in Job
    BY RecastAssumption
  <2> QED BY <2>1, LenProperties DEF Job
<1>2. \A i \in 1..l : i \in KeptAt <=> s[i] \in K
  BY <1>1 DEF KeptAt, KeptKvs, Keep, Range
<1>3. KeptAt \subseteq 1..l
  BY <1>1 DEF KeptAt
<1> HIDE DEF KvT
<1> DEFINE kept == Only(s, K)
           copy == copy_kvs(job.kvs)
<1>4. copy = [i \in DOMAIN kept |-> kept[i].key]
  BY DEF copy_kvs, KeptKvs
<1>5. kept \in Seq(KvT \cap K) /\ Len(kept) \in Nat /\ kept = OnlyUpTo(s, K)[l]
  <2>1. Only(s, K) \in Seq(KvT \cap K) /\ Len(Only(s, K)) \in 0..Len(s)
    BY <1>1, OnlySeq
  <2>2. Only(s, K) = OnlyUpTo(s, K)[l]
    BY <1>1 DEF Only
  <2> QED BY <1>1, <2>1, <2>2
<1>6. DOMAIN kept = 1..Len(kept)
  BY <1>5, LenProperties
<1> HIDE DEF kept, copy
<1>7. Len(copy) = Len(kept) /\ \A k \in 1..Len(kept) : copy[k] = kept[k].key
  <2> DEFINE V == {kept[i].key : i \in 1..Len(kept)}
  <2>1. copy \in [1..Len(kept) -> V]
    BY <1>4, <1>6
  <2> HIDE DEF V
  <2>2. Len(copy) = Len(kept)
    BY <1>5, <2>1, FunctionIsSeq
  <2> QED BY <1>4, <1>6, <2>2
<1>8. ASSUME NEW i \in KeptAt
      PROVE  /\ Place(i) \in 1..Len(kept) /\ kept[Place(i)] = s[i]
             /\ \A j \in 1..(i - 1) : Place(j) < Place(i)
  <2>1. i \in 1..Len(s) /\ s[i] \in K
    BY <1>1, <1>2, <1>3
  <2>2. /\ Len(OnlyUpTo(s, K)[i]) \in 1..Len(Only(s, K))
        /\ Only(s, K)[Len(OnlyUpTo(s, K)[i])] = s[i]
        /\ \A j \in 1..(i - 1) : Len(OnlyUpTo(s, K)[j]) < Len(OnlyUpTo(s, K)[i])
    <3>1. s \in Seq(KvT)
      BY <1>1
    <3> QED BY <2>1, <3>1, OnlyPlace, Zenon
  <2>3. \A j : Place(j) = Len(OnlyUpTo(s, K)[j])
    BY DEF Place
  <2>4. kept = Only(s, K)
    BY DEF kept
  <2> QED BY <2>2, <2>3, <2>4
<1>9. \A i \in KeptAt : Place(i) \in Nat
  BY <1>5, <1>8
<1>10. ASSUME NEW i \in KeptAt, NEW j \in KeptAt, i # j
       PROVE  Place(i) # Place(j)
  <2>1. i \in 1..l /\ j \in 1..l /\ (i \in 1..(j - 1) \/ j \in 1..(i - 1))
    BY <1>1, <1>3, <1>10
  <2>2. Place(i) < Place(j) \/ Place(j) < Place(i)
    BY <1>8, <2>1
  <2> QED BY <1>9, <2>2
<1>11. ASSUME NEW k \in 1..Len(kept)
       PROVE  \E i \in KeptAt : Place(i) = k
  <2>1. s \in Seq(KvT) /\ l \in 0..Len(s) /\ k \in 1..Len(OnlyUpTo(s, K)[l])
    BY <1>1, <1>5, <1>11
  <2>2. ComesFrom(s, K, l)
    BY <2>1, OnlyFrom
  <2>3. \E i \in 1..l : /\ s[i] \in K /\ Len(OnlyUpTo(s, K)[i]) = k
                        /\ OnlyUpTo(s, K)[l][k] = s[i]
    BY <2>1, <2>2, Zenon DEF ComesFrom
  <2> QED BY <1>2, <2>3 DEF Place
<1>12. \A i \in KeptAt : Place(i) \in 1..Len(copy) /\ copy[Place(i)] = s[i].key
  BY <1>7, <1>8
<1>13. \A k \in 1..Len(copy) : \E i \in KeptAt : Place(i) = k
  BY <1>7, <1>11
<1> QED BY <1>10, <1>12, <1>13 DEF copy

\* The keys of a KV section are all different unless two equal ones are copied,
\* or one of run's own is.
LEMMA KvPlanDistinct ==
  ASSUME job \in Jobs
  PROVE  Distinct(KvPlan) <=>
           /\ ~TwoAlike(KeptAt)
           /\ \A i \in KeptAt : job.kvs[i].key \notin Range(OwnKeys)
<1> DEFINE a == If(Arch = "string", <<ARCH>>)
           b == copy_kvs(job.kvs)
           o == OwnKeys
<1>1. /\ a \in Seq(Keys) /\ b \in Seq(Keys) /\ o \in Seq(Keys) /\ a \o b \in Seq(Keys)
      /\ KvPlan = (a \o b) \o o /\ Distinct(a) /\ \A i \in 1..Len(a) : a[i] = ARCH
  BY KvPlanType
<1>2. Distinct(o) /\ \A i \in 1..Len(o) : o[i] # ARCH
  <2>1. \A i \in 1..Len(o) : o[i] \in RecastKeys \ {ARCH}
    BY OwnKeysType, ElementOfSeq
  <2> QED BY <2>1, OwnKeysType
<1>3. /\ \A i \in KeptAt : Place(i) \in 1..Len(b) /\ b[Place(i)] = job.kvs[i].key
      /\ \A i, j \in KeptAt : i # j => Place(i) # Place(j)
      /\ \A k \in 1..Len(b) : \E i \in KeptAt : Place(i) = k
  BY CopyPlaces
<1>4. Range(o) = {o[j] : j \in 1..Len(o)}
  BY <1>1, LenProperties DEF Range
<1>5. \A i \in KeptAt : job.kvs[i].key # ARCH
  BY DEF KeptAt, Keep
<1> HIDE DEF a, b, o
<1>6. \A k \in 1..Len(b) : b[k] # ARCH
  BY <1>3, <1>5
<1>7. Distinct(b) <=> ~TwoAlike(KeptAt)
  <2>1. ASSUME Distinct(b), TwoAlike(KeptAt)
        PROVE  FALSE
    <3>1. PICK i \in KeptAt, j \in KeptAt : i # j /\ job.kvs[i].key = job.kvs[j].key
      BY <2>1 DEF TwoAlike
    <3>2. Place(i) # Place(j) /\ b[Place(i)] = b[Place(j)]
          /\ Place(i) \in 1..Len(b) /\ Place(j) \in 1..Len(b)
      BY <1>3, <3>1
    <3> QED BY <2>1, <3>2 DEF Distinct
  <2>2. ASSUME ~TwoAlike(KeptAt), NEW k \in 1..Len(b), NEW l \in 1..Len(b), k # l
        PROVE  b[k] # b[l]
    <3>1. PICK i \in KeptAt : Place(i) = k
      BY <1>3
    <3>2. PICK j \in KeptAt : Place(j) = l
      BY <1>3
    <3>3. job.kvs[i].key # job.kvs[j].key
      BY <2>2, <3>1, <3>2 DEF TwoAlike
    <3> QED BY <1>3, <3>1, <3>2, <3>3
  <2> QED BY <2>1, <2>2 DEF Distinct
<1>8. Distinct(a \o b) <=> ~TwoAlike(KeptAt)
  <2>1. \A i \in 1..Len(a), j \in 1..Len(b) : a[i] # b[j]
    BY <1>1, <1>6
  <2>2. Distinct(a \o b) <=> /\ Distinct(a) /\ Distinct(b)
                             /\ \A i \in 1..Len(a), j \in 1..Len(b) : a[i] # b[j]
    BY <1>1, JoinDistinct
  <2> QED BY <1>1, <1>7, <2>1, <2>2
<1> DEFINE u == a \o b
           Clash == \E i \in KeptAt : job.kvs[i].key \in Range(o)
<1>9. (\A i \in 1..Len(u), j \in 1..Len(o) : u[i] # o[j]) <=> ~Clash
  <2>1. /\ \A i \in 1..Len(a) : i \in 1..Len(u) /\ u[i] = a[i]
        /\ \A j \in 1..Len(b) : Len(a) + j \in 1..Len(u) /\ u[Len(a) + j] = b[j]
        /\ \A k \in 1..Len(u) :
             k \in 1..Len(a) \/ (k - Len(a) \in 1..Len(b) /\ u[k] = b[k - Len(a)])
    BY <1>1, JoinParts
  <2> HIDE DEF u
  <2>2. ASSUME Clash
        PROVE  \E i \in 1..Len(u), j \in 1..Len(o) : u[i] = o[j]
    <3>1. PICK i \in KeptAt : job.kvs[i].key \in Range(o)
      BY <2>2
    <3>2. PICK j \in 1..Len(o) : job.kvs[i].key = o[j]
      BY <1>4, <3>1
    <3>3. Len(a) + Place(i) \in 1..Len(u) /\ u[Len(a) + Place(i)] = o[j]
      BY <1>3, <2>1, <3>2
    <3> QED BY <3>3
  <2>3. ASSUME NEW k \in 1..Len(u), NEW j \in 1..Len(o), u[k] = o[j]
        PROVE  Clash
    <3>1. CASE k \in 1..Len(a)
      <4>1. u[k] = ARCH
        BY <1>1, <2>1, <3>1
      <4> QED BY <1>2, <2>3, <4>1
    <3>2. CASE k - Len(a) \in 1..Len(b) /\ u[k] = b[k - Len(a)]
      <4>1. PICK i \in KeptAt : Place(i) = k - Len(a)
        BY <1>3, <3>2
      <4>2. job.kvs[i].key = o[j]
        BY <1>3, <2>3, <3>2, <4>1
      <4> QED BY <1>4, <4>2
    <3> QED BY <2>1, <3>1, <3>2
  <2> QED BY <2>2, <2>3
<1>10. Distinct(u \o o) <=> /\ Distinct(u) /\ Distinct(o)
                            /\ \A i \in 1..Len(u), j \in 1..Len(o) : u[i] # o[j]
  <2>1. u \in Seq(Keys) /\ o \in Seq(Keys)
    BY <1>1
  <2> HIDE DEF u
  <2> QED BY <2>1, JoinDistinct
<1>11. KvPlan = u \o o
  BY <1>1
<1> HIDE DEF u
<1>12. Distinct(KvPlan) <=> ~TwoAlike(KeptAt) /\ ~Clash
  BY <1>2, <1>8, <1>9, <1>10, <1>11 DEF u
<1> QED BY <1>12 DEF o

-----------------------------------------------------------------------------
(* Types: the file as it is on disk now keeps its shape, and each tensor    *)
(* that pass 1 is past has a plan of its own type.                          *)

Typed ==
  /\ job \in Jobs
  /\ DOMAIN cur = DOMAIN job.tensors
  /\ \A i \in DOMAIN cur : cur[i] \in Seq(Seq(Values))
  /\ plan \in Seq(PlanEntry) /\ Len(plan) <= Len(job.tensors)
  /\ \A i \in DOMAIN plan : Fits(plan[i], job.tensors[i])

\* What is known of a job.
LEMMA JobType ==
  ASSUME job \in Jobs
  PROVE  /\ job \in Job
         /\ job.tensors \in Seq(InTensor) /\ Len(job.tensors) \in Nat
         /\ DOMAIN job.tensors = 1..Len(job.tensors)
         /\ Len(job.tensors) <= MaxTensors /\ MaxTensors \in Nat
         /\ \A i \in DOMAIN job.tensors :
              /\ job.tensors[i] \in InTensor
              /\ NElems(job.tensors[i]) \in Nat /\ TensorBytes(job.tensors[i]) \in Sizes
<1>1. job \in Job
  BY RecastAssumption
<1>2. job.tensors \in Seq(InTensor)
  BY <1>1 DEF Job
<1>3. Len(job.tensors) \in Nat /\ DOMAIN job.tensors = 1..Len(job.tensors)
  BY <1>2, LenProperties
<1>4. \A i \in DOMAIN job.tensors : job.tensors[i] \in InTensor
  BY <1>2, <1>3, ElementOfSeq
<1> QED BY <1>1, <1>2, <1>3, <1>4, RecastAssumption

\* What is known of the tensors that have a plan.
LEMMA PlanType ==
  ASSUME Typed
  PROVE  /\ Len(plan) \in Nat /\ DOMAIN plan = 1..Len(plan)
         /\ \A i \in DOMAIN plan :
              /\ i \in DOMAIN job.tensors /\ plan[i] \in PlanEntry
              /\ job.tensors[i].name \in Names
              /\ OutBytes(i) = TensorBytes(job.tensors[i]) /\ OutBytes(i) \in Sizes
<1>1. Len(plan) \in Nat /\ DOMAIN plan = 1..Len(plan)
  BY LenProperties DEF Typed
<1>2. job \in Jobs /\ Len(plan) <= Len(job.tensors)
  BY DEF Typed
<1>3. ASSUME NEW i \in DOMAIN plan
      PROVE  /\ i \in DOMAIN job.tensors /\ plan[i] \in PlanEntry
             /\ job.tensors[i].name \in Names
             /\ OutBytes(i) = TensorBytes(job.tensors[i]) /\ OutBytes(i) \in Sizes
  <2>1. i \in DOMAIN job.tensors
    BY <1>1, <1>2, <1>3, JobType
  <2>2. plan[i] \in PlanEntry
    BY <1>1, <1>3, ElementOfSeq DEF Typed
  <2>3. job.tensors[i] \in InTensor /\ NElems(job.tensors[i]) \in Nat
        /\ TensorBytes(job.tensors[i]) \in Sizes
    BY <1>2, <2>1, JobType
  <2>4. OutBytes(i) = TensorBytes(job.tensors[i])
    BY <1>3, <2>1, <2>3, AnnouncedIsRead DEF Typed
  <2> QED BY <2>1, <2>2, <2>3, <2>4 DEF InTensor
<1> QED BY <1>1, <1>3

LEMMA TypedInit == Init => Typed
<1> SUFFICES ASSUME Init PROVE Typed
  OBVIOUS
<1>1. job \in Jobs /\ cur = [i \in DOMAIN job.tensors |-> job.tensors[i].rows] /\ plan = <<>>
  BY DEF Init
<1>2. \A i \in DOMAIN cur : cur[i] \in Seq(Seq(Values))
  BY <1>1, JobType DEF InTensor
<1>3. plan \in Seq(PlanEntry) /\ Len(plan) = 0 /\ DOMAIN plan = {}
  BY <1>1
<1>4. Len(plan) <= Len(job.tensors)
  BY <1>1, <1>3, JobType
<1> QED BY <1>1, <1>2, <1>3, <1>4 DEF Typed

LEMMA TypedStep ==
  ASSUME Typed, [Next]_vars
  PROVE  Typed' /\ job' = job
<1>1. CASE UNCHANGED <<job, cur, plan>>
  BY <1>1 DEF Typed
<1>2. CASE Classify
  <2> DEFINE i == Next1
             t == job.tensors[i]
             e == recast_tensor(t, cur[i])
  <2>1. /\ job' = job /\ cur' = cur /\ plan' = Append(plan, e)
        /\ Len(plan) < Len(job.tensors)
    BY <1>2 DEF Classify
  <2>2. i \in DOMAIN job.tensors /\ job \in Job /\ t \in InTensor /\ i = Len(plan) + 1
        /\ Len(job.tensors) \in Nat /\ Len(plan) \in Nat /\ DOMAIN plan = 1..Len(plan)
    BY <2>1, PlanType, JobType DEF Typed, Next1
  <2>3. cur[i] \in Seq(Seq(Values))
    BY <2>2 DEF Typed
  <2> HIDE DEF i, t
  <2>4. e \in PlanEntry /\ Fits(e, t)
    BY <2>2, <2>3, EntryType
  <2> HIDE DEF e
  <2>5. plan' \in Seq(PlanEntry) /\ Len(plan') = i /\ DOMAIN plan' = 1..i
    BY <2>1, <2>2, <2>4 DEF Typed
  <2>6. \A k \in 1..i : plan'[k] = IF k = i THEN e ELSE plan[k]
    BY <2>1, <2>2 DEF Typed
  <2>7. \A k \in DOMAIN plan' : Fits(plan'[k], job.tensors[k])
    <3>1. TAKE k \in DOMAIN plan'
    <3>2. CASE k = i
      BY <2>4, <2>5, <2>6, <3>2 DEF t
    <3>3. CASE k # i
      BY <2>2, <2>5, <2>6, <3>3 DEF Typed
    <3> QED BY <3>2, <3>3
  <2> QED BY <2>1, <2>2, <2>5, <2>7 DEF Typed
<1>3. CASE Replace
  <2>1. UNCHANGED <<job, plan>>
    BY <1>3 DEF Replace
  <2>2. PICK v \in ReplaceWith :
          cur' = [i \in DOMAIN cur |-> [r \in DOMAIN cur[i] |-> [c \in DOMAIN cur[i][r] |-> v]]]
    BY <1>3 DEF Replace
  <2>3. v \in Values
    BY RecastAssumption
  <2>4. DOMAIN cur' = DOMAIN cur
    BY <2>2
  <2>5. ASSUME NEW i \in DOMAIN cur
        PROVE  cur'[i] \in Seq(Seq(Values))
    <3>1. cur[i] \in Seq(Seq(Values))
      BY DEF Typed
    <3>2. cur'[i] = [r \in DOMAIN cur[i] |-> [c \in DOMAIN cur[i][r] |-> v]]
      BY <2>2
    <3>3. Len(cur[i]) \in Nat /\ DOMAIN cur[i] = 1..Len(cur[i])
          /\ \A r \in DOMAIN cur[i] : cur[i][r] \in Seq(Values)
      BY <3>1, LenProperties, ElementOfSeq
    <3>4. ASSUME NEW r \in DOMAIN cur[i]
          PROVE  cur'[i][r] \in Seq(Values)
      <4>1. Len(cur[i][r]) \in Nat /\ DOMAIN cur[i][r] = 1..Len(cur[i][r])
        BY <3>3, LenProperties
      <4>2. cur'[i][r] \in [1..Len(cur[i][r]) -> Values]
        BY <2>3, <3>2, <4>1
      <4> QED BY <4>1, <4>2, FunctionIsSeq
    <3>5. cur'[i] \in [1..Len(cur[i]) -> Seq(Values)]
      BY <3>2, <3>3, <3>4
    <3> QED BY <3>3, <3>5, FunctionIsSeq
  <2> QED BY <2>1, <2>4, <2>5 DEF Typed
<1>4. [Next]_vars => \/ UNCHANGED <<job, cur, plan>> \/ Classify \/ Replace
  BY DEF Next, Run, Open, RecordChannels, EndPass1, Report, Create, DeclareKv, DeclareTensor,
         Header, Emit, FinishFile, Sync, IoErr, Crash, Fail, AfterWriter, vars, rvars
<1>5. job' = job
  BY <1>1, <1>2, <1>3, <1>4 DEF Classify, Replace
<1>6. Typed'
  BY <1>1, <1>2, <1>3, <1>4
<1> QED BY <1>5, <1>6

-----------------------------------------------------------------------------
(* recast is a client of the writer.                                       *)

\* Every call that run makes is one that the writer's specification allows.
LEMMA StepOfWriter ==
  ASSUME TInv, Typed, [Next]_vars
  PROVE  [WNext]_wvars
<1>1. Len(kvs) \in Nat /\ Len(tensors) \in Nat /\ next_tensor \in Nat
  BY LenProperties DEF TInv, TypeOK
<1>2. /\ Len(plan) \in Nat /\ DOMAIN plan = 1..Len(plan)
      /\ Len(plan) <= MaxTensors
      /\ \A i \in DOMAIN plan :
           /\ job.tensors[i].name \in Names
           /\ OutBytes(i) = TensorBytes(job.tensors[i]) /\ OutBytes(i) \in Sizes
  BY PlanType, JobType DEF Typed
<1>3. CASE UNCHANGED wvars
  BY <1>3
<1>4. CASE Create
  BY <1>4 DEF Create, WNext, Declare
<1>5. CASE DeclareKv
  <2>1. Len(kvs) < Len(KvPlan) /\ AddKv(KvPlan[Len(kvs) + 1])
    BY <1>5 DEF DeclareKv
  <2>2. KvPlan \in Seq(Keys) /\ Len(KvPlan) <= MaxKvs /\ MaxKvs \in Nat /\ Len(KvPlan) \in Nat
    BY KvPlanType, LenProperties, RecastAssumption DEF Typed
  <2>3. KvPlan[Len(kvs) + 1] \in Keys
    BY <1>1, <2>1, <2>2, ElementOfSeq
  <2>4. Len(kvs) < MaxKvs
    BY <1>1, <2>1, <2>2
  <2> QED BY <2>1, <2>3, <2>4 DEF WNext, Declare
<1>6. CASE DeclareTensor
  <2> DEFINE i == Len(tensors) + 1
  <2>1. Len(tensors) < Len(plan) /\ AddTensorInfo(job.tensors[i].name, OutBytes(i))
    BY <1>6 DEF DeclareTensor
  <2>2. i \in DOMAIN plan /\ Len(tensors) < MaxTensors
    BY <1>1, <1>2, <2>1, JobType DEF Typed
  <2>3. job.tensors[i].name \in Names /\ OutBytes(i) \in Sizes
    BY <1>2, <2>2
  <2> QED BY <2>1, <2>2, <2>3 DEF WNext, Declare
<1>7. CASE Header
  BY <1>7 DEF Header, WNext, WriteHeader
<1>8. CASE Emit
  <2> DEFINE len == TensorBytes(job.tensors[Next2])
  <2>1. CASE UNCHANGED wvars
    BY <2>1
  <2>2. CASE WriteTensorData(len) \/ \E k \in TornAt : WriteTensorDataErr(len, k)
    <3>1. Next2 \in DOMAIN plan
      <4>1. next_tensor < Len(plan)
        BY <1>8 DEF Emit
      <4> QED BY <1>1, <1>2, <4>1 DEF Next2
    <3>2. len \in Sizes
      BY <1>2, <3>1
    <3>3. WriteTensorData(len) => Stream
      BY <3>2 DEF Stream
    <3>4. \A k \in TornAt : WriteTensorDataErr(len, k) => Stream
      BY <3>2 DEF Stream
    <3> QED BY <2>2, <3>3, <3>4 DEF WNext
  <2> QED BY <1>8, <2>1, <2>2 DEF Emit, Fail
<1>9. CASE FinishFile
  BY <1>9 DEF FinishFile, WNext
<1>10. [Next]_vars =>
          \/ UNCHANGED wvars \/ Create \/ DeclareKv \/ DeclareTensor \/ Header \/ Emit
          \/ FinishFile
  BY DEF Next, Run, Open, Classify, RecordChannels, EndPass1, Report, Sync, IoErr, Replace,
         Crash, Fail, vars
<1> QED BY <1>3, <1>4, <1>5, <1>6, <1>7, <1>8, <1>9, <1>10

\* The writer's types and the types of the plan, whatever happens.
LEMMA TypesStep ==
  ASSUME TInv, Typed, [Next]_vars
  PROVE  TInv' /\ Typed'
BY StepOfWriter, TypeStep, TypedStep

LEMMA TypesInit == Init => WInit /\ TInv /\ Typed
BY TypeInit, TypedInit DEF Init

\* Each step of recast.rs is a step that the specification of gguf::Writer allows,
\* or leaves the writer alone, for every set of jobs.
THEOREM UsesWriterTheorem == Spec => UsesWriter
<1>1. Init => WInit /\ TInv /\ Typed
  BY TypesInit
<1>2. TInv /\ Typed /\ [Next]_vars => TInv' /\ Typed' /\ [WNext]_wvars
  BY TypesStep, StepOfWriter
<1> QED BY <1>1, <1>2, PTL DEF Spec, UsesWriter, WSpec

-----------------------------------------------------------------------------
(* Where run stands and where its writer stands.                           *)

Before   == {"open", "classify", "channels", "report", "create"}
AfterPass1 == {"create", "declare", "header", "stream", "sync"}
Success  == pc = "ok" /\ job.tier # "dry-run"
ArchOK   == Arch \in {"string", "empty string"}

Phase ==
  /\ pc \in Before \cup AfterPass1 \cup Ends
  /\ out \in {"old", "writing", "durable"}
  /\ cause \in {"none", "no architecture", "io", "inf", "early EOF"}
  /\ pc \in Before => out = "old" /\ wstate = "none"
  /\ pc = "declare" => wstate = "open"
  /\ pc = "header" => wstate = "encoding" /\ Len(tensors) = Len(plan)
  /\ pc = "stream" => wstate = "open" /\ header_written /\ Len(tensors) = Len(plan)
  /\ pc = "sync" \/ Success =>
        wstate = "finished" /\ header_written /\ Len(tensors) = Len(plan)
        /\ next_tensor = Len(plan)
  /\ Success => out = "durable"

Reached ==
  /\ pc \in {"classify", "channels", "report"} \/ pc \in AfterPass1 \/ out # "old" => ArchOK
  /\ pc = "report" => Len(plan) = Len(job.tensors)
  /\ pc \in AfterPass1 \/ Success \/ out # "old" =>
        job.tier # "dry-run" /\ Len(plan) = Len(job.tensors)

LEMMA PhaseInit == Init => Phase /\ Reached
BY DEF Init, WInit, Phase, Reached, Before, AfterPass1, Success, Ends

\* An operation of the writer that returns leaves its state as run expects it.
LEMMA PhaseStep ==
  ASSUME Typed, Phase, Reached, [Next]_vars
  PROVE  Phase' /\ Reached'
<1>1. job' = job /\ ArchOK' = ArchOK
  BY TypedStep DEF ArchOK, Arch
<1> USE DEF Before, AfterPass1, Success, Ends, Phase, Reached
<1>2. CASE UNCHANGED vars
  BY <1>1, <1>2 DEF vars, rvars, wvars, decl, head, data
<1>3. CASE Open
  BY <1>1, <1>3 DEF Open, Fail, wvars, decl, head, data, ArchOK
<1>4. CASE Classify \/ RecordChannels \/ EndPass1
  <2>1. /\ pc \in {"classify", "channels"}
        /\ pc' \in {"classify", "channels", "report", "panicked"}
        /\ UNCHANGED <<out, cause, wvars>>
        /\ pc' = "report" => plan' = plan /\ Len(plan) = Len(job.tensors)
    BY <1>4 DEF Classify, RecordChannels, EndPass1
  <2> QED BY <1>1, <2>1 DEF wvars
<1>5. CASE Report
  BY <1>1, <1>5 DEF Report, wvars, decl, head, data
<1>6. CASE Create
  BY <1>1, <1>6 DEF Create, New, decl, head, data
<1>7. CASE DeclareKv
  <2>1. pc = "declare" /\ UNCHANGED <<job, plan, out>> /\ wstate' \in {"open", "panicked"}
    BY <1>7 DEF DeclareKv, AddKv, Panic
  <2>2. AfterWriter("declare")
    BY <1>7 DEF DeclareKv
  <2> QED BY <1>1, <2>1, <2>2 DEF AfterWriter
<1>8. CASE DeclareTensor
  <2>1. pc = "declare" /\ UNCHANGED <<job, plan, out>> /\ wstate' \in {"open", "panicked"}
    BY <1>8 DEF DeclareTensor, AddTensorInfo, Panic
  <2>2. AfterWriter("declare")
    BY <1>8 DEF DeclareTensor
  <2> QED BY <1>1, <2>1, <2>2 DEF AfterWriter
<1>9. CASE Header
  <2>1. UNCHANGED <<job, plan, out>> /\ pc \in {"declare", "header"}
    BY <1>9 DEF Header
  <2>2. CASE pc = "declare" /\ Len(tensors) = Len(plan) /\ BeginHeader /\ AfterWriter("header")
    BY <1>1, <2>1, <2>2 DEF BeginHeader, Panic, AfterWriter, decl
  <2>3. CASE pc = "header" /\ EncodeInfo /\ AfterWriter("header")
    BY <1>1, <2>1, <2>3 DEF EncodeInfo, AfterWriter, decl
  <2>4. CASE pc = "header" /\ (\E h \in HeaderLens : EmitHeader(h)) /\ AfterWriter("stream")
    BY <1>1, <2>1, <2>4 DEF EmitHeader, AfterWriter, decl
  <2>5. CASE pc = "header" /\ (\E h \in HeaderLens, k \in TornAt : EmitHeaderErr(h, k))
             /\ AfterWriter("stream")
    BY <1>1, <2>1, <2>5 DEF EmitHeaderErr, AfterWriter, decl
  <2> QED BY <1>9, <2>2, <2>3, <2>4, <2>5 DEF Header
<1>10. CASE Emit
  <2>1. pc = "stream" /\ UNCHANGED <<job, plan, out>>
    BY <1>10 DEF Emit, Fail
  <2>2. CASE Fail("early EOF") \/ Fail("inf")
    BY <1>1, <2>1, <2>2 DEF Fail, wvars
  <2>3. ASSUME NEW len, WriteTensorData(len), AfterWriter("stream")
        PROVE  Phase' /\ Reached'
    BY <1>1, <2>1, <2>3 DEF WriteTensorData, Panic, AfterWriter, decl, head
  <2>4. ASSUME NEW len, NEW k \in TornAt, WriteTensorDataErr(len, k), AfterWriter("stream")
        PROVE  Phase' /\ Reached'
    BY <1>1, <2>1, <2>4 DEF WriteTensorDataErr, AfterWriter, decl, head
  <2> QED BY <1>10, <2>2, <2>3, <2>4 DEF Emit
<1>11. CASE FinishFile
  BY <1>1, <1>11 DEF FinishFile, Finish, Panic, AfterWriter, decl, head, data
<1>12. CASE Sync
  BY <1>1, <1>12 DEF Sync, wvars, decl, head, data
<1>13. CASE IoErr
  BY <1>1, <1>13 DEF IoErr, Fail, wvars, decl, head, data
<1>14. CASE Replace \/ Crash
  <2>1. UNCHANGED <<job, plan, out, cause, wvars>> /\ (pc' = pc \/ pc' = "crashed")
    BY <1>14 DEF Replace, Crash
  <2> QED BY <1>1, <2>1 DEF wvars, decl, head, data
<1> QED
  BY <1>2, <1>3, <1>4, <1>5, <1>6, <1>7, <1>8, <1>9, <1>10, <1>11, <1>12, <1>13, <1>14
  DEF Next, Run

-----------------------------------------------------------------------------
(* What has been declared and what has been emitted.                       *)

Agree ==
  /\ Len(tensors) <= Len(plan)
  /\ \A i \in DOMAIN tensors : tensors[i].nbytes = TensorBytes(job.tensors[i])
  /\ \A i \in 1..next_tensor : Readable(i)

\* No FP16 infinity is handed to the writer, whatever the scales were.
NoInfEmitted == \A i \in DOMAIN emitted : INF \notin Elems(emitted[i])

Clean ==
  /\ emitted \in Seq(Seq(Seq(Bounded))) /\ Len(emitted) <= Len(plan)
  /\ pc # "panicked" => Len(emitted) = next_tensor
  /\ NoInfEmitted

LEMMA AgreeInit == Init => Agree /\ Clean
<1> SUFFICES ASSUME Init PROVE Agree /\ Clean
  OBVIOUS
<1>1. tensors = <<>> /\ plan = <<>> /\ next_tensor = 0 /\ emitted = <<>>
  BY DEF Init, WInit
<1>2. emitted \in Seq(Seq(Seq(Bounded))) /\ Len(emitted) = 0 /\ DOMAIN emitted = {}
      /\ Len(plan) = 0 /\ Len(tensors) = 0 /\ DOMAIN tensors = {}
  BY <1>1
<1> QED BY <1>1, <1>2 DEF Agree, Clean, NoInfEmitted

\* The writer's declarations are those of the plan, in order, and what it has
\* been handed was read from where the input was.
LEMMA AgreeStep ==
  ASSUME TInv, Typed, Agree, [Next]_vars
  PROVE  Agree'
<1>1. job' = job /\ \A i : Readable(i)' = Readable(i)
  BY TypedStep DEF Readable
<1>2. Len(plan') \in Nat /\ Len(plan) <= Len(plan')
  <2>1. Len(plan) \in Nat /\ Len(plan') \in Nat
    BY TypedStep, PlanType, LenProperties DEF Typed
  <2>2. \/ UNCHANGED plan \/ \E e : plan' = Append(plan, e)
    BY DEF Next, Run, Open, Classify, RecordChannels, EndPass1, Report, Create, DeclareKv,
           DeclareTensor, Header, Emit, FinishFile, Sync, IoErr, Replace, Crash, Fail, vars, rvars
  <2>3. \A e : plan' = Append(plan, e) => Len(plan') = Len(plan) + 1
    <3>1. TAKE e
    <3>2. HAVE plan' = Append(plan, e)
    <3> QED BY <3>2 DEF Typed
  <2> QED BY <2>1, <2>2, <2>3
<1>3. Len(tensors) \in Nat /\ DOMAIN tensors = 1..Len(tensors) /\ next_tensor \in Nat
      /\ tensors \in Seq(Tensor) /\ Len(plan) \in Nat /\ DOMAIN plan = 1..Len(plan)
  BY LenProperties, PlanType DEF TInv, TypeOK
<1>4. CASE UNCHANGED <<tensors, next_tensor>>
  BY <1>1, <1>2, <1>3, <1>4 DEF Agree
<1>5. CASE DeclareTensor
  <2> DEFINE n == Len(tensors) + 1
             e == [name |-> job.tensors[n].name, nbytes |-> OutBytes(n)]
  <2>1. CASE Panic
    BY <1>4, <2>1 DEF Panic, decl, data
  <2>2. CASE ~Panic
    <3>1. tensors' = Append(tensors, e) /\ next_tensor' = next_tensor /\ plan' = plan
          /\ Len(tensors) < Len(plan)
      BY <1>5, <2>2 DEF DeclareTensor, AddTensorInfo, data
    <3>2. n \in DOMAIN plan
      BY <1>3, <3>1
    <3>3. OutBytes(n) = TensorBytes(job.tensors[n]) /\ e \in Tensor
      BY <3>2, PlanType DEF Tensor
    <3>4. e.nbytes = TensorBytes(job.tensors[n])
      BY <3>3
    <3>5. n = Len(tensors) + 1
      OBVIOUS
    <3> HIDE DEF n, e
    <3>6. Len(tensors') = n /\ DOMAIN tensors' = 1..n
          /\ \A i \in 1..n : tensors'[i] = IF i = n THEN e ELSE tensors[i]
      BY <1>3, <3>1, <3>3, <3>5
    <3>7. \A i \in DOMAIN tensors' : tensors'[i].nbytes = TensorBytes(job.tensors[i])
      BY <1>3, <3>4, <3>5, <3>6 DEF Agree
    <3>8. Len(tensors') <= Len(plan')
      BY <1>3, <3>1, <3>5, <3>6
    <3> QED BY <1>1, <3>1, <3>7, <3>8 DEF Agree
  <2> QED BY <2>1, <2>2
<1>6. CASE Emit
  <2>1. CASE UNCHANGED <<tensors, next_tensor>>
    BY <1>4, <2>1
  <2>2. CASE next_tensor' = next_tensor + 1 /\ UNCHANGED tensors /\ Readable(Next2)
    <3>1. \A i \in 1..next_tensor' : i \in 1..next_tensor \/ i = Next2
      BY <1>3, <2>2 DEF Next2
    <3>2. \A i \in 1..next_tensor' : Readable(i)'
      BY <1>1, <2>2, <3>1 DEF Agree
    <3>3. Len(tensors') <= Len(plan')
      BY <1>2, <1>3, <2>2 DEF Agree
    <3> QED BY <1>1, <2>2, <3>2, <3>3 DEF Agree
  <2>3. /\ Fail("early EOF") \/ Fail("inf") => UNCHANGED <<tensors, next_tensor>>
        /\ \A len : WriteTensorData(len) =>
              \/ UNCHANGED <<tensors, next_tensor>>
              \/ next_tensor' = next_tensor + 1 /\ UNCHANGED tensors
        /\ \A len, k : WriteTensorDataErr(len, k) =>
              next_tensor' = next_tensor + 1 /\ UNCHANGED tensors
    BY DEF Fail, WriteTensorData, WriteTensorDataErr, Panic, wvars, decl, data
  <2> QED BY <1>6, <2>1, <2>2, <2>3 DEF Emit
<1>7. CASE ~DeclareTensor /\ ~Emit
  <2>1. UNCHANGED <<tensors, next_tensor>>
    <3>1. CASE UNCHANGED wvars
      BY <3>1 DEF wvars, decl, data
    <3>2. CASE Create \/ DeclareKv \/ FinishFile
      BY <3>2 DEF Create, New, DeclareKv, AddKv, FinishFile, Finish, Panic, decl, data
    <3>3. CASE Header
      BY <3>3 DEF Header, BeginHeader, EncodeInfo, EmitHeader, EmitHeaderErr, Panic, decl, data
    <3> QED BY <1>7, <3>1, <3>2, <3>3
      DEF Next, Run, Open, Classify, RecordChannels, EndPass1, Report, Sync, IoErr, Replace,
          Crash, Fail, vars
  <2> QED BY <1>4, <2>1
<1> QED BY <1>5, <1>6, <1>7

\* What pass 2 casts are numbers again.
LEMMA Pass2Type ==
  ASSUME Typed, NEW i \in DOMAIN plan
  PROVE  Pass2Rows(i) \in Seq(Seq(Bounded))
<1> DEFINE rows == IF plan[i].hadamard THEN Transformed(cur[i]) ELSE cur[i]
<1>1. rows \in Seq(Seq(Values)) /\ plan[i].num \in Bounded
  <2>1. i \in DOMAIN cur /\ plan[i] \in PlanEntry
    BY PlanType DEF Typed
  <2>2. cur[i] \in Seq(Seq(Values))
    BY <2>1 DEF Typed
  <2> QED BY <2>1, <2>2, TransformedType DEF PlanEntry
<1>2. Pass2Rows(i) =
        [r \in DOMAIN rows |-> [c \in DOMAIN rows[r] |-> cast(Mag(rows[r][c]), plan[i].num)]]
  BY DEF Pass2Rows
<1> HIDE DEF rows
<1>3. Len(rows) \in Nat /\ DOMAIN rows = 1..Len(rows)
      /\ \A r \in DOMAIN rows : rows[r] \in Seq(Values)
  BY <1>1, LenProperties, ElementOfSeq
<1>4. ASSUME NEW r \in DOMAIN rows
      PROVE  Pass2Rows(i)[r] \in Seq(Bounded)
  <2>1. Len(rows[r]) \in Nat /\ DOMAIN rows[r] = 1..Len(rows[r])
        /\ \A c \in DOMAIN rows[r] : Mag(rows[r][c]) \in Bounded
    BY <1>1, RowElements, MagType DEF Bounded
  <2>2. \A c \in DOMAIN rows[r] : cast(Mag(rows[r][c]), plan[i].num) \in Bounded
    <3>1. 0..FP16_MAX \cup {INF, NAN} \subseteq Bounded
      BY Numbers DEF Bounded
    <3> QED BY <1>1, <2>1, <3>1, CastType
  <2>3. Pass2Rows(i)[r] \in [1..Len(rows[r]) -> Bounded]
    BY <1>2, <2>1, <2>2
  <2> QED BY <2>1, <2>3, FunctionIsSeq
<1>5. Pass2Rows(i) \in [1..Len(rows) -> Seq(Bounded)]
  BY <1>2, <1>3, <1>4
<1> QED BY <1>3, <1>5, FunctionIsSeq

\* Nothing infinite is handed to the writer.
LEMMA CleanStep ==
  ASSUME TInv, Typed, Phase, Clean, [Next]_vars
  PROVE  Clean'
<1>1. Len(plan) \in Nat /\ Len(plan') \in Nat /\ Len(plan) <= Len(plan')
  <2>1. Len(plan) \in Nat /\ Len(plan') \in Nat
    BY TypedStep, PlanType, LenProperties DEF Typed
  <2>2. \/ UNCHANGED plan \/ \E e : plan' = Append(plan, e)
    BY DEF Next, Run, Open, Classify, RecordChannels, EndPass1, Report, Create, DeclareKv,
           DeclareTensor, Header, Emit, FinishFile, Sync, IoErr, Replace, Crash, Fail, vars, rvars
  <2>3. \A e : plan' = Append(plan, e) => Len(plan') = Len(plan) + 1
    <3>1. TAKE e
    <3>2. HAVE plan' = Append(plan, e)
    <3> QED BY <3>2 DEF Typed
  <2> QED BY <2>1, <2>2, <2>3
<1>2. Len(emitted) \in Nat /\ DOMAIN emitted = 1..Len(emitted) /\ next_tensor \in Nat
  BY LenProperties DEF Clean, TInv, TypeOK
<1>3. CASE UNCHANGED <<emitted, next_tensor>> /\ (pc = "panicked" => pc' = "panicked")
  <2>1. NoInfEmitted'
    <3>1. emitted' = emitted /\ NoInfEmitted
      BY <1>3 DEF Clean
    <3>2. \A i \in DOMAIN emitted : INF \notin Elems(emitted[i])
      BY <3>1 DEF NoInfEmitted
    <3>3. \A i \in DOMAIN emitted' : INF \notin Elems(emitted'[i])
      BY <3>1, <3>2, Zenon
    <3> QED BY <3>3 DEF NoInfEmitted, Elems
  <2>2. emitted' \in Seq(Seq(Seq(Bounded))) /\ Len(emitted') = Len(emitted)
    <3>1. emitted' = emitted /\ emitted \in Seq(Seq(Seq(Bounded)))
      BY <1>3 DEF Clean
    <3> DEFINE S == Seq(Seq(Bounded))
    <3>2. emitted' = emitted /\ emitted \in Seq(S)
      BY <3>1
    <3> HIDE DEF S
    <3>3. emitted' \in Seq(S) /\ Len(emitted') = Len(emitted)
      BY <3>2, Zenon
    <3> QED BY <3>3 DEF S
  <2>3. Len(emitted') <= Len(plan')
    <3>1. Len(emitted) <= Len(plan)
      BY DEF Clean
    <3> QED BY <1>1, <1>2, <2>2, <3>1
  <2>4. pc' # "panicked" => Len(emitted') = next_tensor'
    <3>1. pc # "panicked" => Len(emitted) = next_tensor
      BY DEF Clean
    <3> QED BY <1>3, <2>2, <3>1
  <2> QED BY <2>1, <2>2, <2>3, <2>4 DEF Clean
<1>4. CASE Emit
  <2>1. pc = "stream" /\ next_tensor < Len(plan)
    BY <1>4 DEF Emit
  <2>2. CASE Fail("early EOF") \/ Fail("inf")
    <3>1. UNCHANGED <<emitted, next_tensor>>
      BY <2>2 DEF Fail, wvars, data
    <3>2. pc # "panicked"
      BY <2>1
    <3> QED BY <1>3, <3>1, <3>2
  <2>3. CASE ~(Fail("early EOF") \/ Fail("inf"))
    <3> DEFINE rows == IF plan[Next2].kind = "CastF16" THEN Pass2Rows(Next2) ELSE <<>>
    <3>1. emitted' = Append(emitted, rows) /\ ~Overflows(Next2) /\ plan' = plan
      BY <1>4, <2>3 DEF Emit
    <3>2. Next2 \in DOMAIN plan
      BY <1>1, <1>2, <2>1, PlanType DEF Next2
    <3>3. rows \in Seq(Seq(Bounded)) /\ INF \notin Elems(rows)
      <4>1. CASE plan[Next2].kind = "CastF16"
        BY <3>1, <3>2, <4>1, Pass2Type DEF Overflows
      <4>2. CASE plan[Next2].kind # "CastF16"
        BY <4>2 DEF Elems
      <4> QED BY <4>1, <4>2
    <3> HIDE DEF rows
    <3>4. Len(emitted) = next_tensor
      BY <2>1 DEF Clean
    <3>5. /\ emitted' \in Seq(Seq(Seq(Bounded))) /\ Len(emitted') = Len(emitted) + 1
          /\ DOMAIN emitted' = 1..(Len(emitted) + 1)
          /\ emitted'[Len(emitted) + 1] = rows
          /\ \A i \in 1..Len(emitted) : emitted'[i] = emitted[i]
      BY <3>1, <3>3, Appended DEF Clean
    <3>6. NoInfEmitted'
      <4> SUFFICES ASSUME NEW i \in DOMAIN emitted'
                   PROVE  INF \notin Elems(emitted'[i])
        BY DEF NoInfEmitted, Elems
      <4>1. i = Len(emitted) + 1 \/ i \in 1..Len(emitted)
        BY <1>2, <3>5
      <4>2. CASE i = Len(emitted) + 1
        <5>1. emitted'[i] = rows
          BY <3>5, <4>2
        <5> QED BY <3>3, <5>1
      <4>3. CASE i \in 1..Len(emitted)
        <5>1. emitted'[i] = emitted[i] /\ i \in DOMAIN emitted
          BY <1>2, <3>5, <4>3
        <5> QED BY <5>1 DEF Clean, NoInfEmitted
      <4> QED BY <4>1, <4>2, <4>3
    <3>7. Len(emitted') <= Len(plan')
      BY <1>1, <1>2, <2>1, <3>1, <3>4, <3>5
    <3>8. pc' = "panicked" \/ next_tensor' = next_tensor + 1
      <4>1. \A len : WriteTensorData(len) => wstate' = "panicked" \/ next_tensor' = next_tensor + 1
        BY DEF WriteTensorData, Panic
      <4>2. \A len, k : WriteTensorDataErr(len, k) => next_tensor' = next_tensor + 1
        BY DEF WriteTensorDataErr
      <4>3. AfterWriter("stream") /\ wstate' = "panicked" => pc' = "panicked"
        BY DEF AfterWriter
      <4> QED BY <1>4, <2>3, <4>1, <4>2, <4>3 DEF Emit
    <3> QED BY <3>4, <3>5, <3>6, <3>7, <3>8 DEF Clean
  <2> QED BY <2>2, <2>3
<1>5. CASE ~Emit
  <2>1. UNCHANGED <<emitted, next_tensor>>
    <3>1. CASE UNCHANGED wvars
      BY <1>5, <3>1
      DEF Next, Run, Open, Classify, RecordChannels, EndPass1, Report, Create, DeclareKv,
          DeclareTensor, Header, FinishFile, Sync, IoErr, Replace, Crash, Fail, vars, rvars,
          wvars, data
    <3>2. CASE Create \/ DeclareKv \/ DeclareTensor \/ FinishFile
      BY <3>2 DEF Create, New, DeclareKv, AddKv, DeclareTensor, AddTensorInfo, FinishFile,
                  Finish, Panic, data
    <3>3. CASE Header
      BY <3>3 DEF Header, BeginHeader, EncodeInfo, EmitHeader, EmitHeaderErr, Panic, data
    <3> QED BY <1>5, <3>1, <3>2, <3>3
      DEF Next, Run, Open, Classify, RecordChannels, EndPass1, Report, Sync, IoErr, Replace,
          Crash, Fail, vars
  <2>2. pc = "panicked" => pc' = "panicked"
    BY <1>5 DEF Next, Run, Open, Classify, RecordChannels, EndPass1, Report, Create, DeclareKv,
          DeclareTensor, Header, FinishFile, Sync, IoErr, Replace, Crash, Fail, vars, rvars, Ends
  <2> QED BY <1>3, <2>1, <2>2
<1> QED BY <1>4, <1>5

-----------------------------------------------------------------------------
(* Panics: the inputs that run cannot get through.                          *)

\* What the writer has been told is a beginning of the plan, free of
\* repetitions, and all of it once the header is begun.
Listed ==
  /\ pc \in Before => kvs = <<>> /\ tensors = <<>>
  /\ pc \in Before \/ pc = "declare" => ~header_written
  /\ Len(kvs) <= Len(KvPlan) /\ \A i \in 1..Len(kvs) : kvs[i] = KvPlan[i]
  /\ Distinct(kvs)
  /\ \A i \in 1..Len(tensors) : tensors[i].name = job.tensors[i].name
  /\ \A i, j \in 1..Len(tensors) : i # j => tensors[i].name # tensors[j].name
  /\ pc \in {"header", "stream", "sync"} \/ Success => Len(kvs) = Len(KvPlan)

\* A tensor whose row scales T4 cannot count.
RowsOfNone(t) == /\ t.dtype = T_BF16 /\ t.name \notin Preserved
                 /\ Len(t.shape) = 2 /\ t.shape[1] = 0

\* T4 gets past no such tensor, and a panic has its cause in the input.
Caught ==
  /\ \A i \in DOMAIN plan : plan[i].kind = "CastF16" => job.tensors[i].name \notin Preserved
  /\ job.tier = "T4" =>
        \A i \in DOMAIN plan : RowsOfNone(job.tensors[i]) =>
           i = Len(plan) /\ pc \in {"channels", "err", "panicked", "crashed"}
  /\ pc = "channels" => /\ job.tier = "T4" /\ Len(plan) \in DOMAIN plan
                        /\ plan[Len(plan)].kind = "CastF16"
                        /\ Len(job.tensors[Len(plan)].shape) = 2
  /\ pc = "panicked" => Doomed

LEMMA ListedInit == Init => Listed /\ Caught
<1> SUFFICES ASSUME Init PROVE Listed /\ Caught
  OBVIOUS
<1>1. /\ kvs = <<>> /\ tensors = <<>> /\ plan = <<>> /\ pc = "open" /\ ~header_written
      /\ job \in Jobs
  BY DEF Init, WInit
<1>2. Len(kvs) = 0 /\ Len(tensors) = 0 /\ DOMAIN plan = {} /\ Len(KvPlan) \in Nat
  BY <1>1, KvPlanType, LenProperties
<1>3. Listed
  BY <1>1, <1>2 DEF Listed, Distinct, Success
<1>4. Caught
  BY <1>1, <1>2 DEF Caught
<1> QED BY <1>3, <1>4

\* What the plan of pass 1 decides stays decided.
LEMMA SamePlan ==
  ASSUME UNCHANGED <<job, plan, chans>>
  PROVE  KvPlan' = KvPlan /\ (Doomed' <=> Doomed)
<1>1. job' = job /\ plan' = plan /\ chans' = chans
  OBVIOUS
<1>2. OwnKeys' = OwnKeys
  BY <1>1 DEF OwnKeys, Scaled, Rotated
<1>3. KvPlan' = KvPlan
  BY <1>1, <1>2 DEF KvPlan, Arch
<1>4. Doomed' <=> Doomed
  BY <1>1, <1>2 DEF Doomed, TwoAlike, Keep
<1> QED BY <1>3, <1>4

\* A key that the writer has already makes the input a doomed one.
LEMMA KeyTwice ==
  ASSUME job \in Jobs, NEW i \in 1..Len(KvPlan), NEW j \in 1..Len(KvPlan), i # j,
         KvPlan[i] = KvPlan[j]
  PROVE  Doomed
<1>1. ~Distinct(KvPlan)
  BY DEF Distinct
<1>2. TwoAlike(KeptAt) \/ \E k \in KeptAt : job.kvs[k].key \in Range(OwnKeys)
  BY <1>1, KvPlanDistinct
<1> QED BY <1>2 DEF Doomed, KeptAt

\* The writer refuses nothing that it is told about an input without faults.
LEMMA ListedStep ==
  ASSUME TInv, Typed, Phase, Reached, Agree, Listed, Caught, [Next]_vars
  PROVE  Listed'
<1>1. /\ job' = job /\ job \in Jobs
      /\ Len(kvs) \in Nat /\ kvs \in Seq(Keys) /\ Len(KvPlan) \in Nat /\ KvPlan \in Seq(Keys)
      /\ Len(tensors) \in Nat /\ tensors \in Seq(Tensor)
  BY TypedStep, KvPlanType, LenProperties DEF Typed, TInv, TypeOK
<1>2. job' \in Jobs => Len(KvPlan') \in Nat
  <2>1. job' \in Jobs => KvPlan' \in Seq(Keys)
    <3> SUFFICES ASSUME job' \in Jobs PROVE KvPlan' \in Seq(Keys)
      OBVIOUS
    <3>1. (job \in Jobs => KvPlan \in Seq(Keys))'
      BY KvPlanType, PTL
    <3> QED BY <3>1
  <2> QED BY <2>1, LenProperties
<1>3. CASE /\ pc \in Before /\ UNCHANGED wvars
           /\ pc' \in Before \cup {"err", "crashed", "panicked"}
              \/ (pc' = "ok" /\ job.tier = "dry-run")
  <2>1. kvs' = <<>> /\ tensors' = <<>> /\ ~header_written'
    BY <1>3 DEF Listed, wvars, decl, head
  <2>2. Len(kvs') = 0 /\ Len(tensors') = 0
    BY <2>1
  <2>3. pc' \notin {"header", "stream", "sync"} /\ ~Success'
    BY <1>1, <1>3 DEF Before, Success
  <2>4. Distinct(kvs')
    BY <2>2 DEF Distinct
  <2>5. pc' \in Before \/ pc' = "declare" => ~header_written'
    BY <2>1
  <2> QED BY <1>1, <1>2, <2>1, <2>2, <2>3, <2>4, <2>5 DEF Listed, Success, Distinct
<1>4. ASSUME UNCHANGED <<job, plan, chans, kvs, tensors>>,
             pc' \in Before => pc \in Before,
             pc' \in Before \/ pc' = "declare" => ~header_written',
             pc' \in {"header", "stream", "sync"} \/ Success' => Len(kvs) = Len(KvPlan)
      PROVE  Listed'
  <2>1. KvPlan' = KvPlan
    BY <1>4, SamePlan
  <2> QED BY <1>4, <2>1 DEF Listed, Distinct
<1>5. CASE Create
  BY <1>4, <1>5 DEF Create, New, decl, head, Listed, Before, Success
<1>6. CASE DeclareKv
  <2> DEFINE n == Len(kvs) + 1
             k == KvPlan[n]
  <2>1. /\ pc = "declare" /\ Len(kvs) < Len(KvPlan) /\ AddKv(k) /\ AfterWriter("declare")
        /\ UNCHANGED <<job, plan, chans>>
    BY <1>6 DEF DeclareKv
  <2>2. pc' \in {"declare", "panicked", "err"}
    BY <2>1 DEF AfterWriter
  <2>3. CASE Panic
    BY <1>4, <2>1, <2>2, <2>3 DEF Panic, decl, head, Listed, Before, Success
  <2>4. CASE ~Panic
    <3>1. kvs' = Append(kvs, k) /\ UNCHANGED <<tensors, header_written>> /\ ~header_written
          /\ \A i \in DOMAIN kvs : kvs[i] # k
      BY <2>1, <2>4 DEF AddKv, head
    <3>2. n \in 1..Len(KvPlan) /\ k \in Keys
      BY <1>1, <2>1, ElementOfSeq
    <3>3. n = Len(kvs) + 1 /\ DOMAIN kvs = 1..Len(kvs)
      BY <1>1, LenProperties
    <3> HIDE DEF k
    <3>4. Len(kvs') = n /\ kvs'[n] = k /\ \A i \in 1..Len(kvs) : kvs'[i] = kvs[i]
      BY <1>1, <3>1, <3>2, Appended
    <3> HIDE DEF n
    <3>5. \A i \in 1..n : i \in 1..Len(kvs) \/ i = n
      BY <1>1, <3>3
    <3>6. \A i \in 1..n : kvs'[i] = KvPlan[i]
      BY <3>4, <3>5 DEF Listed, k
    <3>7. Distinct(kvs')
      <4> SUFFICES ASSUME NEW i \in 1..n, NEW j \in 1..n, i # j
                   PROVE  kvs'[i] # kvs'[j]
        BY <3>4 DEF Distinct
      <4>1. CASE i \in 1..Len(kvs) /\ j \in 1..Len(kvs)
        BY <3>4, <4>1 DEF Listed, Distinct
      <4>2. CASE i = n /\ j \in 1..Len(kvs)
        BY <3>1, <3>3, <3>4, <4>2
      <4>3. CASE j = n /\ i \in 1..Len(kvs)
        BY <3>1, <3>3, <3>4, <4>3
      <4> QED BY <3>5, <4>1, <4>2, <4>3
    <3>8. KvPlan' = KvPlan
      BY <2>1, SamePlan
    <3>9. Len(kvs') <= Len(KvPlan')
      BY <3>2, <3>4, <3>8, <1>1
    <3>10. \A i \in 1..Len(kvs') : kvs'[i] = KvPlan'[i]
      BY <3>4, <3>6, <3>8
    <3>11. pc' \notin Before /\ pc' \notin {"header", "stream", "sync"} /\ ~Success'
           /\ ~header_written'
      BY <2>2, <3>1 DEF Before, Success
    <3>12. /\ \A i \in 1..Len(tensors') : tensors'[i].name = job'.tensors[i].name
           /\ \A i, j \in 1..Len(tensors') : i # j => tensors'[i].name # tensors'[j].name
      BY <1>1, <3>1 DEF Listed
    <3> QED BY <3>7, <3>9, <3>10, <3>11, <3>12 DEF Listed, Distinct
  <2> QED BY <2>3, <2>4
<1>7. CASE DeclareTensor
  <2> DEFINE n == Len(tensors) + 1
             e == [name |-> job.tensors[n].name, nbytes |-> OutBytes(n)]
  <2>1. /\ pc = "declare" /\ Len(tensors) < Len(plan) /\ AddTensorInfo(e.name, e.nbytes)
        /\ AfterWriter("declare") /\ UNCHANGED <<job, plan, chans>>
    BY <1>7 DEF DeclareTensor
  <2>2. pc' \in {"declare", "panicked", "err"}
    BY <2>1 DEF AfterWriter
  <2>3. CASE Panic
    BY <1>4, <2>1, <2>2, <2>3 DEF Panic, decl, head, Listed, Before, Success
  <2>4. CASE ~Panic
    <3>1. tensors' = Append(tensors, e) /\ UNCHANGED <<kvs, header_written>> /\ ~header_written
          /\ \A i \in DOMAIN tensors : tensors[i].name # e.name
      BY <2>1, <2>4 DEF AddTensorInfo, head
    <3>2. n \in DOMAIN plan /\ n = Len(tensors) + 1 /\ DOMAIN tensors = 1..Len(tensors)
      BY <1>1, <2>1, PlanType, LenProperties
    <3>3. e \in Tensor
      BY <3>2, PlanType DEF Tensor
    <3>4. e.name = job.tensors[n].name
      OBVIOUS
    <3> HIDE DEF e
    <3>5. Len(tensors') = n /\ tensors'[n] = e
          /\ \A i \in 1..Len(tensors) : tensors'[i] = tensors[i]
      BY <1>1, <3>1, <3>3, Appended
    <3> HIDE DEF n
    <3>6. \A i \in 1..n : i \in 1..Len(tensors) \/ i = n
      BY <1>1, <3>2
    <3>7. \A i \in 1..n : tensors'[i].name = job.tensors[i].name
      BY <3>4, <3>5, <3>6 DEF Listed
    <3>8. \A i, j \in 1..n : i # j => tensors'[i].name # tensors'[j].name
      <4> SUFFICES ASSUME NEW i \in 1..n, NEW j \in 1..n, i # j
                   PROVE  tensors'[i].name # tensors'[j].name
        OBVIOUS
      <4>1. CASE i \in 1..Len(tensors) /\ j \in 1..Len(tensors)
        BY <3>5, <4>1 DEF Listed
      <4>2. CASE i = n /\ j \in 1..Len(tensors)
        BY <3>1, <3>2, <3>5, <4>2
      <4>3. CASE j = n /\ i \in 1..Len(tensors)
        BY <3>1, <3>2, <3>5, <4>3
      <4> QED BY <3>6, <4>1, <4>2, <4>3
    <3>9. KvPlan' = KvPlan
      BY <2>1, SamePlan
    <3>10. pc' \notin Before /\ pc' \notin {"header", "stream", "sync"} /\ ~Success'
           /\ ~header_written'
      BY <2>2, <3>1 DEF Before, Success
    <3>11. /\ Len(kvs') <= Len(KvPlan') /\ \A i \in 1..Len(kvs') : kvs'[i] = KvPlan'[i]
           /\ Distinct(kvs')
      BY <3>1, <3>9 DEF Listed, Distinct
    <3> QED BY <1>1, <3>5, <3>7, <3>8, <3>10, <3>11 DEF Listed, Distinct
  <2> QED BY <2>3, <2>4
<1>8. CASE Header
  <2>1. UNCHANGED <<job, plan, chans, kvs, tensors>>
        /\ pc' \in {"header", "stream", "err", "panicked"}
        /\ Len(kvs) = Len(KvPlan)
    <3>1. CASE pc = "declare"
      BY <1>8, <3>1 DEF Header, BeginHeader, Panic, AfterWriter, decl
    <3>2. CASE pc = "header"
      BY <1>8, <3>2 DEF Header, EncodeInfo, EmitHeader, EmitHeaderErr, AfterWriter, decl, Listed
    <3> QED BY <1>8, <3>1, <3>2 DEF Header
  <2> QED BY <1>4, <2>1 DEF Before, Success
<1>9. CASE Emit
  <2>1. pc = "stream" /\ UNCHANGED <<job, plan, chans>>
    BY <1>9 DEF Emit, Fail
  <2>2. UNCHANGED <<kvs, tensors>> /\ pc' \in {"stream", "err", "panicked"}
    BY <1>9 DEF Emit, Fail, WriteTensorData, WriteTensorDataErr, Panic, AfterWriter, wvars, decl
  <2> QED BY <1>4, <2>1, <2>2 DEF Before, Success, Listed
<1>10. CASE FinishFile
  <2>1. pc = "stream" /\ UNCHANGED <<job, plan, chans>>
        /\ UNCHANGED <<kvs, tensors>> /\ pc' \in {"sync", "err", "panicked"}
    BY <1>10 DEF FinishFile, Finish, Panic, AfterWriter, decl
  <2> QED BY <1>4, <2>1 DEF Before, Success, Listed
<1>11. CASE Sync
  <2>1. pc = "sync" /\ UNCHANGED <<job, plan, chans, kvs, tensors>> /\ pc' = "ok"
    BY <1>11 DEF Sync, wvars, decl
  <2> QED BY <1>4, <2>1 DEF Before, Success, Listed
<1>12. CASE /\ UNCHANGED <<job, plan, chans, wvars>> /\ pc \notin Before
            /\ pc' \in {pc, "err", "crashed"}
  <2>1. UNCHANGED <<kvs, tensors, header_written>>
    BY <1>12 DEF wvars, decl, head
  <2> QED BY <1>4, <1>12, <2>1 DEF Before, Success, Listed
<1>13. CASE Open \/ Classify \/ RecordChannels \/ EndPass1 \/ Report
  BY <1>3, <1>13
  DEF Open, Classify, RecordChannels, EndPass1, Report, Fail, Before
<1>14. CASE IoErr \/ Replace \/ Crash \/ UNCHANGED vars
  <2>1. UNCHANGED <<job, plan, chans, wvars>> /\ pc' \in {pc, "err", "crashed"}
    BY <1>14 DEF IoErr, Replace, Crash, Fail, vars, rvars
  <2>2. CASE pc \in Before
    BY <1>3, <2>1, <2>2
  <2>3. CASE pc \notin Before
    BY <1>12, <2>1, <2>3
  <2> QED BY <2>2, <2>3
<1> QED
  BY <1>5, <1>6, <1>7, <1>8, <1>9, <1>10, <1>11, <1>13, <1>14 DEF Next, Run

\* Which tensors a plan casts, under T4 all the 2-D ones it may.
LEMMA CastsWhich ==
  ASSUME job \in Job, NEW t \in InTensor, NEW rows \in Seq(Seq(Values))
  PROVE  LET e == recast_tensor(t, rows)
         IN  /\ e.kind = "CastF16" => t.dtype = T_BF16 /\ t.name \notin Preserved
             /\ /\ job.tier = "T4" /\ Len(t.shape) = 2
                /\ t.dtype = T_BF16 /\ t.name \notin Preserved
                => e.kind = "CastF16"
<1> DEFINE e == recast_tensor(t, rows)
<1>1. ASSUME t.dtype # T_BF16 PROVE e.kind # "CastF16"
  BY <1>1 DEF recast_tensor, Pass
<1>2. ASSUME t.dtype = T_BF16, t.name \in Preserved PROVE e.kind # "CastF16"
  BY <1>2 DEF recast_tensor, Pass
<1>3. ASSUME job.tier = "T4", Len(t.shape) = 2, t.dtype = T_BF16, t.name \notin Preserved
      PROVE  e.kind = "CastF16"
  <2>1. e = Cast(One, FALSE)
    BY <1>3 DEF recast_tensor, TierPlan
  <2> QED BY <2>1 DEF Cast
<1> HIDE DEF e
<1>4. /\ e.kind = "CastF16" => t.dtype = T_BF16 /\ t.name \notin Preserved
      /\ /\ job.tier = "T4" /\ Len(t.shape) = 2
         /\ t.dtype = T_BF16 /\ t.name \notin Preserved
         => e.kind = "CastF16"
  BY <1>1, <1>2, <1>3
<1> QED BY <1>4 DEF e

LEMMA CaughtStep ==
  ASSUME TInv, Typed, Phase, Reached, Agree, Listed, Caught, [Next]_vars
  PROVE  Caught'
<1>1. /\ job' = job /\ job \in Jobs /\ job \in Job
      /\ Len(plan) \in Nat /\ DOMAIN plan = 1..Len(plan)
      /\ Len(job.tensors) \in Nat /\ DOMAIN job.tensors = 1..Len(job.tensors)
      /\ \A i \in DOMAIN job.tensors : job.tensors[i] \in InTensor
  BY TypedStep, JobType, PlanType DEF Typed
<1>2. ASSUME UNCHANGED <<job, plan, chans>>,
             pc \notin {"channels"}, pc' \notin {"channels"},
             pc' = "panicked" => Doomed,
             pc \in {"err", "panicked", "crashed"} => pc' = pc
      PROVE  Caught'
  <2>1. Doomed' <=> Doomed
    BY <1>2, SamePlan
  <2>2. pc' = "panicked" => Doomed'
    BY <1>2, <2>1
  <2>3. job.tier = "T4" =>
           \A i \in DOMAIN plan : RowsOfNone(job.tensors[i]) =>
              i = Len(plan) /\ pc' \in {"channels", "err", "panicked", "crashed"}
    BY <1>2 DEF Caught
  <2> QED BY <1>2, <2>2, <2>3 DEF Caught, RowsOfNone
<1>3. CASE Classify
  <2> DEFINE n == Len(plan) + 1
             t == job.tensors[n]
             e == recast_tensor(t, cur[n])
  <2>1. /\ pc = "classify" /\ Len(plan) < Len(job.tensors) /\ plan' = Append(plan, e)
        /\ pc' = IF job.tier = "T4" /\ e.kind = "CastF16" /\ Len(t.shape) = 2
                 THEN "channels" ELSE "classify"
    BY <1>3 DEF Classify, Next1
  <2>2. n \in DOMAIN job.tensors /\ t \in InTensor /\ n = Len(plan) + 1
    BY <1>1, <2>1
  <2>3. cur[n] \in Seq(Seq(Values)) /\ plan \in Seq(PlanEntry)
    BY <2>2 DEF Typed
  <2>4. /\ e \in PlanEntry
        /\ e.kind = "CastF16" => t.dtype = T_BF16 /\ t.name \notin Preserved
        /\ /\ job.tier = "T4" /\ Len(t.shape) = 2
           /\ t.dtype = T_BF16 /\ t.name \notin Preserved
           => e.kind = "CastF16"
    <3> HIDE DEF n, t
    <3>1. e \in PlanEntry
      BY <1>1, <2>2, <2>3, EntryType
    <3> QED BY <1>1, <2>2, <2>3, <3>1, CastsWhich
  <2> HIDE DEF e
  <2>5. Len(plan') = n /\ DOMAIN plan' = 1..n /\ plan'[n] = e
        /\ \A i \in 1..Len(plan) : plan'[i] = plan[i]
    BY <2>1, <2>3, <2>4, Appended
  <2>6. t = job.tensors[n]
    OBVIOUS
  <2> HIDE DEF n, t
  <2>7. \A i \in 1..n : i \in 1..Len(plan) \/ i = n
    BY <1>1, <2>2
  <2>8. \A i \in DOMAIN plan' : plan'[i].kind = "CastF16" =>
           job'.tensors[i].name \notin Preserved
    BY <1>1, <2>4, <2>5, <2>6, <2>7 DEF Caught
  <2>9. ASSUME job.tier = "T4", NEW i \in 1..n, RowsOfNone(job.tensors[i])
        PROVE  i = n /\ pc' = "channels"
    <3>1. i \notin 1..Len(plan)
      BY <1>1, <2>1, <2>9 DEF Caught
    <3>2. i = n
      BY <2>7, <3>1
    <3> QED BY <2>1, <2>4, <2>6, <2>9, <3>2 DEF RowsOfNone
  <2>10. pc' = "channels" =>
           /\ job.tier = "T4" /\ n \in 1..n /\ plan'[n].kind = "CastF16"
           /\ Len(job.tensors[n].shape) = 2
    BY <1>1, <2>1, <2>2, <2>5, <2>6
  <2>11. pc' # "panicked"
    BY <2>1
  <2> QED BY <1>1, <2>5, <2>8, <2>9, <2>10, <2>11 DEF Caught, RowsOfNone
<1>4. CASE RecordChannels
  <2> DEFINE n == Len(plan)
             t == job.tensors[n]
  <2>1. /\ pc = "channels" /\ plan' = plan
        /\ pc' = IF t.shape[1] = 0 THEN "panicked" ELSE "classify"
    BY <1>4 DEF RecordChannels
  <2>2. /\ job.tier = "T4" /\ n \in DOMAIN plan /\ plan[n].kind = "CastF16"
        /\ Len(t.shape) = 2 /\ t.name \notin Preserved
    BY <2>1 DEF Caught
  <2>3. t.dtype = T_BF16 /\ n \in DOMAIN job.tensors
    BY <2>2, PlanType DEF Typed, Fits
  <2>4. pc' = "panicked" => Doomed'
    <3>1. ASSUME pc' = "panicked"
          PROVE  \E i \in DOMAIN job.tensors :
                    /\ job.tensors[i].dtype = T_BF16 /\ job.tensors[i].name \notin Preserved
                    /\ Len(job.tensors[i].shape) = 2 /\ job.tensors[i].shape[1] = 0
      BY <2>1, <2>2, <2>3, <3>1
    <3> QED BY <1>1, <2>2, <3>1 DEF Doomed
  <2>5. \A i \in DOMAIN plan : RowsOfNone(job.tensors[i]) => i = n /\ pc' = "panicked"
    <3> TAKE i \in DOMAIN plan
    <3> HAVE RowsOfNone(job.tensors[i])
    <3>1. i = n
      BY <2>2 DEF Caught
    <3> QED BY <2>1, <3>1 DEF RowsOfNone
  <2>6. pc' # "channels"
    BY <2>1
  <2> QED BY <1>1, <2>1, <2>4, <2>5, <2>6 DEF Caught, RowsOfNone
<1>5. CASE DeclareKv
  <2> DEFINE n == Len(kvs) + 1
  <2>1. /\ pc = "declare" /\ Len(kvs) < Len(KvPlan) /\ AddKv(KvPlan[n]) /\ AfterWriter("declare")
        /\ UNCHANGED <<job, plan, chans>>
    BY <1>5 DEF DeclareKv
  <2>2. ASSUME pc' = "panicked"
        PROVE  Doomed
    <3>1. wstate # "panicked"
      BY <2>1 DEF AddKv
    <3>2. Panic
      BY <2>1, <2>2, <3>1 DEF AddKv, AfterWriter
    <3>3. PICK i \in DOMAIN kvs : kvs[i] = KvPlan[n]
      BY <2>1, <3>1, <3>2 DEF AddKv, Panic, Listed
    <3>4. kvs \in Seq(Keys) /\ KvPlan \in Seq(Keys) /\ Len(KvPlan) \in Nat
          /\ Len(kvs) \in Nat /\ DOMAIN kvs = 1..Len(kvs)
      BY <1>1, KvPlanType, LenProperties DEF TInv, TypeOK
    <3>5. i \in 1..Len(KvPlan) /\ n \in 1..Len(KvPlan) /\ i # n
      BY <2>1, <3>4
    <3>6. KvPlan[i] = KvPlan[n]
      BY <3>3, <3>4 DEF Listed
    <3> QED BY <1>1, <3>5, <3>6, KeyTwice
  <2>3. pc' \in {"declare", "err", "panicked"}
    BY <2>1 DEF AfterWriter
  <2> QED BY <1>2, <2>1, <2>2, <2>3
<1>6. CASE DeclareTensor
  <2> DEFINE n == Len(tensors) + 1
  <2>1. /\ pc = "declare" /\ Len(tensors) < Len(plan) /\ AfterWriter("declare")
        /\ AddTensorInfo(job.tensors[n].name, OutBytes(n))
        /\ UNCHANGED <<job, plan, chans>>
    BY <1>6 DEF DeclareTensor
  <2>2. ASSUME pc' = "panicked"
        PROVE  Doomed
    <3>1. wstate # "panicked"
      BY <2>1 DEF AddTensorInfo
    <3>2. Panic
      BY <2>1, <2>2, <3>1 DEF AddTensorInfo, AfterWriter
    <3>3. PICK i \in DOMAIN tensors : tensors[i].name = job.tensors[n].name
      BY <2>1, <3>1, <3>2 DEF AddTensorInfo, Panic, Listed
    <3>4. Len(tensors) \in Nat /\ DOMAIN tensors = 1..Len(tensors)
      BY LenProperties DEF TInv, TypeOK
    <3>5. i \in DOMAIN job.tensors /\ n \in DOMAIN job.tensors /\ i # n
          /\ job.tensors[i].name = job.tensors[n].name
      <4>1. i \in 1..Len(tensors) /\ Len(plan) <= Len(job.tensors)
        BY <3>4 DEF Typed
      <4>2. job.tensors[i].name = job.tensors[n].name
        BY <3>3, <4>1 DEF Listed
      <4> QED BY <1>1, <2>1, <3>4, <4>1, <4>2
    <3> DEFINE names == [k \in DOMAIN job.tensors |-> job.tensors[k].name]
    <3>6. i \in DOMAIN names /\ n \in DOMAIN names /\ names[i] = names[n]
      BY <3>5
    <3>7. ~IsInjective(names)
      <4> HIDE DEF names, n
      <4> QED BY <3>5, <3>6 DEF IsInjective
    <3> QED BY <3>7 DEF Doomed
  <2>3. pc' \in {"declare", "err", "panicked"}
    BY <2>1 DEF AfterWriter
  <2> QED BY <1>2, <2>1, <2>2, <2>3
<1>7. CASE Header
  <2>1. UNCHANGED <<job, plan, chans>> /\ pc \in {"declare", "header"}
    BY <1>7 DEF Header
  <2>2. pc' \in {"header", "stream", "err"}
    <3>1. CASE pc = "declare"
      <4>1. BeginHeader /\ ~header_written /\ AfterWriter("header")
        BY <1>7, <3>1 DEF Header, Listed
      <4>2. wstate' = "encoding"
        BY <4>1 DEF BeginHeader
      <4> QED BY <4>1, <4>2 DEF AfterWriter
    <3>2. CASE pc = "header"
      <4>1. wstate' \in {"encoding", "open", "failed"}
        BY <1>7, <3>2 DEF Header, EncodeInfo, EmitHeader, EmitHeaderErr, Phase
      <4>2. AfterWriter("header") \/ AfterWriter("stream")
        BY <1>7, <3>2 DEF Header
      <4> QED BY <4>1, <4>2 DEF AfterWriter
    <3> QED BY <2>1, <3>1, <3>2
  <2> QED BY <1>2, <2>1, <2>2
<1>8. CASE Emit
  <2>1. pc = "stream" /\ UNCHANGED <<job, plan, chans>> /\ next_tensor < Len(plan)
    BY <1>8 DEF Emit, Fail
  <2>2. pc' \in {"stream", "err"}
    <3>1. CASE Fail("early EOF") \/ Fail("inf")
      BY <3>1 DEF Fail
    <3> DEFINE len == TensorBytes(job.tensors[Next2])
    <3>2. CASE /\ WriteTensorData(len) \/ \E k \in TornAt : WriteTensorDataErr(len, k)
               /\ AfterWriter("stream")
      <4>1. wstate = "open" /\ header_written /\ Len(tensors) = Len(plan)
        BY <2>1 DEF Phase
      <4>2. next_tensor \in Nat /\ Len(tensors) \in Nat /\ DOMAIN tensors = 1..Len(tensors)
        BY LenProperties DEF TInv, TypeOK
      <4>3. next_tensor + 1 \in DOMAIN tensors
        BY <2>1, <4>1, <4>2
      <4>4. len = Declared
        BY <4>3 DEF Agree, Declared, Next2
      <4>5. Accepts(len)
        BY <2>1, <4>1, <4>4 DEF Accepts, CanStart
      <4>6. wstate' \in {"open", "failed"}
        BY <3>2, <4>1, <4>5 DEF WriteTensorData, WriteTensorDataErr
      <4> QED BY <3>2, <4>6 DEF AfterWriter
    <3> QED BY <1>8, <3>1, <3>2 DEF Emit
  <2> QED BY <1>2, <2>1, <2>2
<1>9. CASE FinishFile
  <2>1. pc = "stream" /\ UNCHANGED <<job, plan, chans>> /\ next_tensor = Len(plan)
        /\ Finish /\ AfterWriter("sync")
    BY <1>9 DEF FinishFile
  <2>2. wstate' \in {"finished", "failed"}
    BY <2>1 DEF Finish, Phase
  <2>3. pc' \in {"sync", "err"}
    BY <2>1, <2>2 DEF AfterWriter
  <2> QED BY <1>2, <2>1, <2>3
<1>10. CASE Open \/ EndPass1 \/ Report \/ Create \/ Sync
  <2>1. /\ UNCHANGED <<job, plan, chans>>
        /\ pc \in {"open", "classify", "report", "create", "sync"}
        /\ pc' \in {"err", "classify", "report", "ok", "create", "declare"}
    BY <1>10 DEF Open, EndPass1, Report, Create, Sync, Fail
  <2> QED BY <1>2, <2>1
<1>11. CASE IoErr \/ Replace \/ Crash \/ UNCHANGED vars
  <2>1. /\ UNCHANGED <<job, plan, chans>> /\ pc' \in {pc, "err", "crashed"}
        /\ pc \in {"err", "panicked", "crashed"} => pc' = pc
    BY <1>11 DEF IoErr, Replace, Crash, Fail, vars, rvars, Ends
  <2>2. Doomed' <=> Doomed
    BY <2>1, SamePlan
  <2>3. pc' = "panicked" => Doomed'
    BY <2>1, <2>2 DEF Caught
  <2>4. job.tier = "T4" =>
           \A i \in DOMAIN plan : RowsOfNone(job.tensors[i]) =>
              i = Len(plan) /\ pc' \in {"channels", "err", "panicked", "crashed"}
    BY <2>1 DEF Caught
  <2>5. pc' = "channels" => pc = "channels"
    BY <2>1
  <2> QED BY <2>1, <2>3, <2>4, <2>5 DEF Caught, RowsOfNone
<1> QED
  BY <1>3, <1>4, <1>5, <1>6, <1>7, <1>8, <1>9, <1>10, <1>11 DEF Next, Run

-----------------------------------------------------------------------------
(* What the numbers of the plan do to the values they are meant for.        *)

\* Dividing rounds down by less than the divisor.
LEMMA Quotient ==
  ASSUME NEW p \in Nat, NEW n \in Nat, n # 0
  PROVE  p \div n \in Nat /\ (p \div n) * n <= p /\ p - (p \div n) * n < n
<1>1. p = n * (p \div n) + (p % n) /\ p % n \in 0..(n - 1) /\ p \div n \in Nat
  OBVIOUS
<1> DEFINE q == p \div n
           r == p % n
<1>2. p = n * q + r /\ r \in 0..(n - 1) /\ q \in Nat
  BY <1>1
<1> HIDE DEF q, r
<1>3. q * n <= p /\ p - q * n < n
  BY <1>2
<1> QED BY <1>2, <1>3 DEF q

\* A number below the overflow is its own quotient by 1.0.
LEMMA CastByOne ==
  ASSUME NEW x \in Bounded, x < FP16_OVERFLOW
  PROVE  cast(x, One) = x
<1>1. x \in Nat /\ x \notin {INF, NAN} /\ One \notin {0, INF, NAN}
  BY Numbers DEF Bounded
<1>2. (x * One) \div One = x
  <2>1. \A o \in Nat \ {0} : (x * o) \div o = x
    BY <1>1
  <2>2. One \in Nat \ {0}
    BY Numbers
  <2> QED BY <2>1, <2>2
<1>3. ~(x * One >= FP16_OVERFLOW * One)
  BY <1>1, Numbers
<1>4. cast(x, One) = IF x = 0 THEN 0 ELSE (x * One) \div One
  BY <1>1, <1>3 DEF cast
<1> QED BY <1>2, <1>4

\* A quotient of two numbers, when it is one.
LEMMA CastNumber ==
  ASSUME NEW x \in 0..(INF - 1), NEW num \in 0..(INF - 1), cast(x, num) # INF
  PROVE  /\ num = 0 => x = 0
         /\ x = 0 => cast(x, num) = 0
         /\ x # 0 => cast(x, num) = (x * One) \div num
         /\ cast(x, num) \in Nat
<1>1. x \in Nat /\ num \in Nat /\ x \notin {INF, NAN} /\ num \notin {INF, NAN}
  BY Numbers
<1>2. num = 0 => x = 0
  BY <1>1 DEF cast
<1>3. x = 0 => cast(x, num) = 0
  BY <1>1 DEF cast
<1>4. x # 0 => cast(x, num) = (x * One) \div num
  BY <1>1, <1>2 DEF cast
<1>5. ASSUME x # 0 PROVE (x * One) \div num \in Nat
  <2>1. x * One \in Nat /\ num \in Nat /\ num # 0
    BY <1>1, <1>2, <1>5, Numbers
  <2> DEFINE p == x * One
  <2> HIDE DEF p
  <2>2. p \in Nat
    BY <2>1 DEF p
  <2>3. p \div num \in Nat
    BY <2>1, <2>2, Quotient
  <2> QED BY <2>3 DEF p
<1> QED BY <1>1, <1>2, <1>3, <1>4, <1>5

\* Multiplying by the scale gives the value back to within one step of it.
LEMMA CastBack ==
  ASSUME NEW x \in 0..(INF - 1), NEW num \in 0..(INF - 1), cast(x, num) # INF
  PROVE  /\ cast(x, num) * num <= x * One
         /\ x * One = 0 \/ x * One - cast(x, num) * num < num
<1>1. x \in Nat /\ num \in Nat /\ One \in Nat
  BY Numbers
<1>2. CASE x = 0
  <2>1. cast(x, num) = 0 /\ 0 * num = 0 /\ x * One = 0
    BY <1>1, <1>2, CastNumber
  <2> QED BY <2>1
<1>3. CASE x # 0
  <2>1. num # 0 /\ cast(x, num) = (x * One) \div num
    BY <1>3, CastNumber
  <2> DEFINE p == x * One
  <2>2. p \in Nat
    BY <1>1
  <2>3. cast(x, num) = p \div num
    BY <2>1
  <2> HIDE DEF p
  <2>4. (p \div num) * num <= p /\ p - (p \div num) * num < num
    BY <1>1, <2>1, <2>2, Quotient
  <2> QED BY <2>3, <2>4 DEF p
<1> QED BY <1>2, <1>3

\* What is no more than the scale becomes no more than 1.0, and the scale itself
\* becomes just that.
LEMMA CastTop ==
  ASSUME NEW num \in 1..(INF - 1), NEW x \in 0..num
  PROVE  cast(x, num) \in 0..One /\ cast(num, num) = One
<1>1. /\ x \in Nat /\ num \in Nat /\ num # 0 /\ x \notin {INF, NAN} /\ num \notin {INF, NAN}
      /\ x <= num /\ One \in Nat /\ One < FP16_OVERFLOW /\ FP16_OVERFLOW \in Nat
  BY Numbers
<1>2. \A y \in 0..num : ~(y * One >= FP16_OVERFLOW * num) /\ y * One <= num * One
                        /\ y * One \in Nat
  <2> TAKE y \in 0..num
  <2>1. y \in Nat /\ y <= num
    BY <1>1
  <2>2. y * One <= num * One /\ y * One \in Nat /\ num * One < num * FP16_OVERFLOW
    BY <1>1, <2>1, Numbers
  <2>3. num * FP16_OVERFLOW = FP16_OVERFLOW * num
    BY <1>1
  <2> QED BY <1>1, <2>2, <2>3, Numbers
<1>3. \A y \in 0..num : cast(y, num) = IF y = 0 THEN 0 ELSE (y * One) \div num
  <2> TAKE y \in 0..num
  <2>1. y \notin {INF, NAN}
    BY Numbers
  <2> QED BY <1>1, <1>2, <2>1 DEF cast
<1>4. \A p \in Nat : p <= num * One => p \div num \in 0..One
  <2> TAKE p \in Nat
  <2> HAVE p <= num * One
  <2> DEFINE q == p \div num
  <2>1. q \in Nat /\ q * num <= p
    BY <1>1, Quotient
  <2> HIDE DEF q
  <2>2. ASSUME q > One PROVE FALSE
    <3>1. q >= One + 1 /\ One + 1 \in Nat
      BY <1>1, <2>1, <2>2
    <3>2. q * num >= (One + 1) * num
      BY <1>1, <2>1, <3>1
    <3>3. (One + 1) * num = num * One + num
      BY <1>1
    <3> QED BY <1>1, <2>1, <3>2, <3>3, Numbers
  <2>3. q \in 0..One
    BY <1>1, <2>1, <2>2
  <2> QED BY <2>3 DEF q
<1>5. (num * One) \div num = One
  <2>1. \A o \in Nat : (num * o) \div num = o
    BY <1>1
  <2> QED BY <1>1, <2>1
<1>6. cast(x, num) \in 0..One
  BY <1>1, <1>2, <1>3, <1>4
<1>7. cast(num, num) = One
  BY <1>1, <1>3, <1>5
<1> QED BY <1>6, <1>7

\* No quotient by a number at least as great is infinite.
LEMMA CastBelow ==
  ASSUME NEW x \in Bounded, NEW num \in Bounded, x = NAN \/ x <= num
  PROVE  cast(x, num) # INF
<1>1. x \in Nat /\ num \in Nat /\ x <= NAN /\ num <= NAN
  BY Numbers DEF Bounded
<1>2. CASE NAN \in {x, num}
  <2>1. cast(x, num) = NAN
    BY <1>2 DEF cast
  <2> QED BY <2>1, Numbers
<1>3. CASE NAN \notin {x, num} /\ num = INF
  <2>1. cast(x, num) \in {NAN, 0}
    BY <1>3 DEF cast
  <2> QED BY <2>1, Numbers
<1>4. CASE NAN \notin {x, num} /\ num # INF
  <2>1. num < INF /\ x < INF /\ x <= num
    BY <1>1, <1>4, Numbers
  <2>2. CASE num = 0
    <3>1. x = 0 /\ x # INF
      BY <1>1, <2>1, <2>2, Numbers
    <3>2. cast(x, num) = 0
      BY <1>4, <3>1 DEF cast
    <3> QED BY <3>2, Numbers
  <2>3. CASE num # 0
    <3>1. num \in 1..(INF - 1) /\ x \in 0..num
      BY <1>1, <2>1, <2>3, Numbers
    <3>2. cast(x, num) \in 0..One
      BY <3>1, CastTop
    <3>3. One \in Nat /\ INF \in Nat /\ One < INF
      BY Numbers
    <3>4. INF \notin 0..One
      BY <3>3
    <3> QED BY <3>2, <3>4, Zenon
  <2> QED BY <2>2, <2>3
<1> QED BY <1>2, <1>3, <1>4

-----------------------------------------------------------------------------
(* The plan of pass 1 and the rows of pass 2.                               *)

\* The rows that an entry is applied to.
Rotate(e, rows) == IF e.hadamard THEN Transformed(rows) ELSE rows

\* T4 casts the 2-D tensors without a scale of their own.
Unguarded(e, t) == e.num = One /\ ~e.hadamard /\ job.tier = "T4" /\ Len(t.shape) = 2

\* The scale is 1.0 over values that need none, or the greatest value.
Guarded(e, S) ==
  \/ e.num = One /\ \A x \in S \ {NAN} : x <= FP16_MAX
  \/ e.num \in S \cup {0} /\ \A x \in S \ {NAN} : x <= e.num

\* Every scale of pass 1 is one or the other, in every tier and with
\* --force-rescale.
LEMMA EntryGuards ==
  ASSUME job \in Job, NEW t \in InTensor, NEW rows \in Seq(Seq(Values)),
         NEW e, e = recast_tensor(t, rows), e.kind = "CastF16",
         NEW S, S = Elems(Rotate(e, rows))
  PROVE  S \in SUBSET Bounded /\ (Unguarded(e, t) \/ Guarded(e, S))
<1> DEFINE a == bf16_absmax(rows)
           post == max_fold(Elems(Transformed(rows)))
<1>1. /\ rows \in Seq(Seq(Values)) /\ Transformed(rows) \in Seq(Seq(Values))
      /\ Elems(rows) \in SUBSET Bounded /\ Elems(Transformed(rows)) \in SUBSET Bounded
      /\ Rotate(e, rows) \in Seq(Seq(Values))
  <2>1. rows \in Seq(Seq(Values)) /\ Transformed(rows) \in Seq(Seq(Values))
    BY TransformedType
  <2>2. Elems(rows) \in SUBSET Bounded /\ Elems(Transformed(rows)) \in SUBSET Bounded
    BY <2>1, ElemsIn
  <2> QED BY <2>1, <2>2 DEF Rotate
<1>2. S \in SUBSET Bounded
  BY <1>1, ElemsIn
<1>3. /\ a \in Elems(rows) \cup {0} /\ \A x \in Elems(rows) : x <= a
      /\ post \in (Elems(Transformed(rows)) \ {NAN}) \cup {0}
      /\ \A x \in Elems(Transformed(rows)) \ {NAN} : x <= post
      /\ a \in Bounded /\ post \in Bounded
  BY <1>1, MaxType
<1>4. ~e.hadamard => S = Elems(rows)
  BY DEF Rotate
<1>5. e.hadamard => S = Elems(Transformed(rows))
  BY DEF Rotate
<1>6. \A num : /\ Cast(num, FALSE).num = num /\ ~Cast(num, FALSE).hadamard
               /\ Cast(num, TRUE).num = num /\ Cast(num, TRUE).hadamard
  BY DEF Cast
<1>7. \A kind : Pass(kind).kind = kind
  BY DEF Pass
<1> HIDE DEF a, post
<1>8. ASSUME a <= FP16_MAX, e = Cast(One, FALSE)
      PROVE  Guarded(e, S)
  <2>1. S = Elems(rows) /\ e.num = One
    BY <1>4, <1>6, <1>8, Zenon
  <2>2. \A x \in S \ {NAN} : x <= FP16_MAX
    <3> TAKE x \in S \ {NAN}
    <3>1. x \in Nat /\ x <= a /\ a \in Nat
      BY <1>1, <1>3, <2>1, Numbers DEF Bounded
    <3> QED BY <1>8, <3>1, Numbers
  <2> QED BY <2>1, <2>2 DEF Guarded
<1>9. ASSUME e = Cast(a, FALSE)
      PROVE  Guarded(e, S)
  <2>1. S = Elems(rows) /\ e.num = a
    BY <1>4, <1>6, <1>9, Zenon
  <2> QED BY <1>3, <2>1 DEF Guarded
<1>10. ASSUME e = Rescale(a)
       PROVE  Guarded(e, S)
  <2>1. CASE classify_band(a) = "C" \/ job.force
    BY <1>9, <1>10, <2>1 DEF Rescale
  <2>2. CASE ~(classify_band(a) = "C" \/ job.force)
    <3>1. e = Cast(One, FALSE)
      BY <1>10, <2>2 DEF Rescale
    <3>2. a <= FP16_MAX
      <4>1. a <= FP16_HALF_RANGE \/ a <= FP16_MAX
        BY <2>2 DEF classify_band
      <4>2. a \in Nat
        BY <1>3, Numbers DEF Bounded
      <4> QED BY <4>1, <4>2, Numbers
    <3> QED BY <1>8, <3>1, <3>2
  <2> QED BY <2>1, <2>2
<1>11. ASSUME e = T5Plan(rows)
       PROVE  Guarded(e, S)
  <2>1. e = Cast(IF post > FP16_HALF_RANGE \/ job.force THEN post ELSE One, TRUE)
    BY <1>11 DEF T5Plan, post
  <2>2. S = Elems(Transformed(rows))
        /\ e.num = IF post > FP16_HALF_RANGE \/ job.force THEN post ELSE One
    BY <1>5, <1>6, <2>1, Zenon
  <2>3. CASE e.num = post
    BY <1>3, <2>2, <2>3 DEF Guarded
  <2>4. CASE e.num = One /\ ~(post > FP16_HALF_RANGE)
    <3>1. \A x \in S \ {NAN} : x <= FP16_MAX
      <4> TAKE x \in S \ {NAN}
      <4>1. x \in Nat /\ x <= post /\ post \in Nat
        BY <1>1, <1>3, <2>2, Numbers DEF Bounded
      <4> QED BY <2>4, <4>1, Numbers
    <3> QED BY <2>4, <3>1 DEF Guarded
  <2> QED BY <2>2, <2>3, <2>4
<1>12. CASE e = Pass("Bf16Passthrough") \/ e = Pass("F32Passthrough") \/ e = Pass("RawPassthrough")
  BY <1>7, <1>12
<1>13. CASE a = 0 /\ e = Cast(One, FALSE)
  <2>1. a <= FP16_MAX
    BY <1>13, Numbers
  <2> QED BY <1>2, <1>8, <1>13, <2>1
<1>14. CASE e = TierPlan(t, rows, a)
  <2>1. job.tier \in {"dry-run", "T1", "T2", "T3", "T4", "T5"}
    BY DEF Job
  <2>2. CASE job.tier = "dry-run"
    BY <1>12, <1>14, <2>2 DEF TierPlan
  <2>3. CASE job.tier = "T1"
    <3>1. CASE classify_band(a) = "C"
      BY <1>12, <1>14, <2>3, <3>1 DEF TierPlan
    <3>2. CASE classify_band(a) # "C"
      <4>1. e = Cast(One, FALSE)
        BY <1>14, <2>3, <3>2 DEF TierPlan
      <4>2. a <= FP16_MAX
        <5>1. a <= FP16_HALF_RANGE \/ a <= FP16_MAX
          BY <3>2 DEF classify_band
        <5>2. a \in Nat
          BY <1>3, Numbers DEF Bounded
        <5> QED BY <5>1, <5>2, Numbers
      <4> QED BY <1>2, <1>8, <4>1, <4>2
    <3> QED BY <3>1, <3>2
  <2>4. CASE job.tier \in {"T2", "T3"}
    <3>1. e = Rescale(a)
      BY <1>14, <2>4 DEF TierPlan
    <3> QED BY <1>2, <1>10, <3>1
  <2>5. CASE job.tier = "T4" /\ Len(t.shape) = 2
    <3>1. e = Cast(One, FALSE)
      BY <1>14, <2>5 DEF TierPlan
    <3>2. e.num = One /\ ~e.hadamard
      BY <1>6, <3>1
    <3> QED BY <1>2, <2>5, <3>2 DEF Unguarded
  <2>6. CASE job.tier = "T4" /\ Len(t.shape) # 2
    <3>1. e = Rescale(a)
      BY <1>14, <2>6 DEF TierPlan
    <3> QED BY <1>2, <1>10, <3>1
  <2>7. CASE job.tier = "T5" /\ Len(t.shape) = 2
    <3>1. e = T5Plan(rows)
      BY <1>14, <2>7 DEF TierPlan
    <3> QED BY <1>2, <1>11, <3>1
  <2>8. CASE job.tier = "T5" /\ Len(t.shape) # 2
    <3>1. e = Rescale(a)
      BY <1>14, <2>8 DEF TierPlan
    <3> QED BY <1>2, <1>10, <3>1
  <2> QED BY <2>1, <2>2, <2>3, <2>4, <2>5, <2>6, <2>7, <2>8
<1>15. \/ e = Pass("Bf16Passthrough") \/ e = Pass("F32Passthrough") \/ e = Pass("RawPassthrough")
       \/ a = 0 /\ e = Cast(One, FALSE)
       \/ e = TierPlan(t, rows, a)
  BY DEF recast_tensor, a
<1> QED BY <1>12, <1>13, <1>14, <1>15

\* A guarded scale meets no overflow, and 1.0 only at values beyond FP16.
LEMMA OverflowWhere ==
  ASSUME NEW S \in SUBSET Bounded, NEW e \in PlanEntry, NEW t,
         Unguarded(e, t) \/ Guarded(e, S),
         NEW x \in S, cast(x, e.num) = INF
  PROVE  Unguarded(e, t) /\ x >= FP16_OVERFLOW /\ x # NAN
<1>1. x \in Bounded /\ x \in Nat /\ e.num \in Bounded
  BY Numbers DEF PlanEntry, Bounded
<1>2. ASSUME e.num = One, x # NAN
      PROVE  x >= FP16_OVERFLOW
  <2>1. ASSUME x < FP16_OVERFLOW PROVE FALSE
    <3>1. cast(x, One) = x
      BY <1>1, <2>1, CastByOne
    <3> QED BY <1>1, <1>2, <2>1, <3>1, Numbers
  <2> QED BY <1>1, <2>1, Numbers
<1>3. x # NAN
  <2>1. ASSUME x = NAN PROVE FALSE
    <3>1. cast(x, e.num) # INF
      BY <1>1, <2>1, CastBelow
    <3> QED BY <3>1
  <2> QED BY <2>1
<1>4. ~Guarded(e, S)
  <2>1. ASSUME e.num = One, \A y \in S \ {NAN} : y <= FP16_MAX PROVE FALSE
    <3>1. x >= FP16_OVERFLOW /\ x <= FP16_MAX
      BY <1>2, <1>3, <2>1
    <3> QED BY <1>1, <3>1, Numbers
  <2>2. ASSUME \A y \in S \ {NAN} : y <= e.num PROVE FALSE
    <3>1. x <= e.num
      BY <1>3, <2>2
    <3>2. cast(x, e.num) # INF
      BY <1>1, <3>1, CastBelow
    <3> QED BY <3>2
  <2> QED BY <2>1, <2>2 DEF Guarded
<1>5. Unguarded(e, t)
  BY <1>4
<1> QED BY <1>2, <1>3, <1>5 DEF Unguarded

\* Rows of values as an entry casts them.
CastRows(e, rows) ==
  [r \in DOMAIN Rotate(e, rows) |->
     [c \in DOMAIN Rotate(e, rows)[r] |-> cast(Mag(Rotate(e, rows)[r][c]), e.num)]]

\* What pass 2 casts, element by element.
LEMMA CastElems ==
  ASSUME NEW e \in PlanEntry, NEW source \in Seq(Seq(Values)),
         NEW rows, rows = Rotate(e, source), NEW p, p = CastRows(e, source)
  PROVE  /\ Elems(p) = {cast(x, e.num) : x \in Elems(rows)}
         /\ DOMAIN p = DOMAIN rows
         /\ \A r \in DOMAIN p :
              /\ DOMAIN p[r] = DOMAIN rows[r]
              /\ \A c \in DOMAIN p[r] :
                   /\ p[r][c] = cast(Mag(rows[r][c]), e.num)
                   /\ Mag(rows[r][c]) \in Elems(rows) /\ Mag(rows[r][c]) \in Bounded
<1> DEFINE num == e.num
<1>1. p = [r \in DOMAIN rows |-> [c \in DOMAIN rows[r] |-> cast(Mag(rows[r][c]), num)]]
  BY DEF CastRows
<1>2. rows \in Seq(Seq(Values)) /\ num \in Bounded
  BY TransformedType DEF Rotate, PlanEntry
<1> HIDE DEF num
<1>3. /\ DOMAIN p = DOMAIN rows
      /\ \A r \in DOMAIN p :
           /\ DOMAIN p[r] = DOMAIN rows[r]
           /\ \A c \in DOMAIN p[r] : p[r][c] = cast(Mag(rows[r][c]), num)
  BY <1>1
<1>4. \A r \in DOMAIN rows : \A c \in DOMAIN rows[r] : Mag(rows[r][c]) \in Bounded
  BY <1>2, RowElements, MagType DEF Bounded
<1>5. \A r \in DOMAIN p : \A c \in DOMAIN p[r] : Mag(p[r][c]) = p[r][c]
  <2>1. 0..FP16_MAX \cup {INF, NAN} \subseteq Nat
    BY Numbers
  <2>2. ASSUME NEW r \in DOMAIN p, NEW c \in DOMAIN p[r] PROVE Mag(p[r][c]) = p[r][c]
    <3> DEFINE x == Mag(rows[r][c])
    <3>1. x \in Bounded /\ p[r][c] = cast(x, num)
      BY <1>3, <1>4
    <3> HIDE DEF x
    <3>2. cast(x, num) \in Nat
      BY <1>2, <2>1, <3>1, CastType
    <3> QED BY <3>1, <3>2, MagType
  <2> QED BY <2>2
<1>6. \A y : y \in Elems(p) <=> \E r \in DOMAIN p : \E c \in DOMAIN p[r] : y = Mag(p[r][c])
  BY DEF Elems, Range
<1>7. \A y : y \in Elems(rows) <=>
               \E r \in DOMAIN rows : \E c \in DOMAIN rows[r] : y = Mag(rows[r][c])
  BY DEF Elems, Range
<1>8. \A r \in DOMAIN p : \A c \in DOMAIN p[r] : Mag(rows[r][c]) \in Elems(rows)
  BY <1>3, <1>7
<1>9. \A y : y \in Elems(p) <=> \E x \in Elems(rows) : y = cast(x, num)
  <2>1. ASSUME NEW y, y \in Elems(p) PROVE \E x \in Elems(rows) : y = cast(x, num)
    <3>1. PICK r \in DOMAIN p : \E c \in DOMAIN p[r] : y = Mag(p[r][c])
      BY <1>6, <2>1
    <3>2. PICK c \in DOMAIN p[r] : y = Mag(p[r][c])
      BY <3>1
    <3>3. y = cast(Mag(rows[r][c]), num)
      BY <1>3, <1>5, <3>2
    <3> QED BY <1>8, <3>3
  <2>2. ASSUME NEW x \in Elems(rows) PROVE cast(x, num) \in Elems(p)
    <3>1. PICK r \in DOMAIN rows : \E c \in DOMAIN rows[r] : x = Mag(rows[r][c])
      BY <1>7, <2>2
    <3>2. PICK c \in DOMAIN rows[r] : x = Mag(rows[r][c])
      BY <3>1
    <3>3. r \in DOMAIN p /\ c \in DOMAIN p[r] /\ cast(x, num) = Mag(p[r][c])
      BY <1>3, <1>5, <3>2
    <3> QED BY <1>6, <3>3
  <2> QED BY <2>1, <2>2
<1>10. Elems(p) = {cast(x, num) : x \in Elems(rows)}
  BY <1>9
<1> QED BY <1>3, <1>4, <1>8, <1>10 DEF num

LEMMA Pass2Elems ==
  ASSUME Typed, NEW i \in DOMAIN plan
  PROVE  /\ Pass2Rows(i) = CastRows(plan[i], cur[i])
         /\ plan[i] \in PlanEntry /\ cur[i] \in Seq(Seq(Values))
         /\ Elems(Pass2Rows(i)) =
              {cast(x, plan[i].num) : x \in Elems(Rotate(plan[i], cur[i]))}
<1>1. plan[i] \in PlanEntry /\ cur[i] \in Seq(Seq(Values))
  BY PlanType DEF Typed
<1>2. Pass2Rows(i) = CastRows(plan[i], cur[i])
  BY DEF Pass2Rows, CastRows, Rotate
<1> QED BY <1>1, <1>2, CastElems

\* What pass 1 makes of tensor i of the input as it was.
Wanted(i) == recast_tensor(job.tensors[i], job.tensors[i].rows)

\* What has been written of a tensor is the cast, by its entry of the plan, of
\* what pass 1 found or of what is there now.
OfAVersion(i) ==
  plan[i].kind = "CastF16" =>
     emitted[i] \in {CastRows(plan[i], job.tensors[i].rows), CastRows(plan[i], cur[i])}

\* As long as the input does not change, pass 2 applies to each tensor the plan
\* that was made for it.
Faithful ==
  /\ ~replaced =>
        /\ \A i \in DOMAIN cur : cur[i] = job.tensors[i].rows
        /\ \A i \in DOMAIN plan : plan[i] = Wanted(i)
  /\ \A i \in DOMAIN emitted : OfAVersion(i)
  /\ cause # "none" => pc = "err"
  /\ InfErrorOnlyT4

LEMMA FaithfulInit == Init => Faithful
<1> SUFFICES ASSUME Init PROVE Faithful
  OBVIOUS
<1>1. /\ cur = [i \in DOMAIN job.tensors |-> job.tensors[i].rows]
      /\ plan = <<>> /\ emitted = <<>> /\ cause = "none"
  BY DEF Init
<1>2. DOMAIN plan = {} /\ DOMAIN emitted = {}
  BY <1>1
<1> QED BY <1>1, <1>2 DEF Faithful, InfErrorOnlyT4

\* The plan and the rows depend on the job, the entry and the input alone.
LEMMA SameWanted ==
  ASSUME job' = job, NEW i
  PROVE  Wanted(i)' = Wanted(i)
BY DEF Wanted, recast_tensor, TierPlan, Rescale, T5Plan

LEMMA SameVersion ==
  ASSUME job' = job, cur' = cur, NEW i, plan'[i] = plan[i], emitted'[i] = emitted[i],
         OfAVersion(i)
  PROVE  OfAVersion(i)'
<1>1. CastRows(plan[i], job.tensors[i].rows)' = CastRows(plan[i], job.tensors[i].rows)
  BY DEF CastRows, Rotate
<1>2. CastRows(plan[i], cur[i])' = CastRows(plan[i], cur[i])
  BY DEF CastRows, Rotate
<1> QED BY <1>1, <1>2 DEF OfAVersion

\* An entry that is what pass 1 wants of the rows on disk meets no overflow, but
\* for the case that T4 leaves open.
LEMMA OverflowOnlyT4 ==
  ASSUME Typed, NEW i \in DOMAIN plan, cur[i] = job.tensors[i].rows, plan[i] = Wanted(i),
         Overflows(i)
  PROVE  /\ job.tier = "T4" /\ CastIn2D(i)
         /\ \E x \in Elems(cur[i]) : x >= FP16_OVERFLOW /\ x # NAN
<1> DEFINE t == job.tensors[i]
           e == plan[i]
           S == Elems(Rotate(e, cur[i]))
<1>1. job \in Job /\ t \in InTensor /\ e \in PlanEntry /\ cur[i] \in Seq(Seq(Values))
  <2>1. job \in Jobs /\ i \in DOMAIN job.tensors /\ e \in PlanEntry
    BY PlanType DEF Typed
  <2> QED BY <2>1, JobType DEF Typed
<1>2. e.kind = "CastF16" /\ INF \in Elems(Pass2Rows(i)) /\ e = recast_tensor(t, cur[i])
  BY DEF Overflows, Wanted
<1>3. PICK x \in S : cast(x, e.num) = INF
  BY <1>2, Pass2Elems
<1> HIDE DEF e, t
<1>4. S \in SUBSET Bounded /\ (Unguarded(e, t) \/ Guarded(e, S))
  BY <1>1, <1>2, EntryGuards
<1> HIDE DEF S
<1>5. Unguarded(e, t) /\ x >= FP16_OVERFLOW /\ x # NAN
  BY <1>1, <1>3, <1>4, OverflowWhere
<1>6. x \in Elems(cur[i])
  BY <1>3, <1>5 DEF Unguarded, Rotate, S
<1> QED BY <1>2, <1>5, <1>6 DEF Unguarded, CastIn2D, e, t

LEMMA FaithfulStep ==
  ASSUME TInv, Typed, Phase, Clean, Faithful, [Next]_vars
  PROVE  Faithful'
<1>1. /\ job' = job /\ \A i : Wanted(i)' = Wanted(i)
      /\ Len(plan) \in Nat /\ DOMAIN plan = 1..Len(plan) /\ plan \in Seq(PlanEntry)
      /\ Len(emitted) \in Nat /\ DOMAIN emitted = 1..Len(emitted)
      /\ Len(emitted) <= Len(plan) /\ emitted \in Seq(Seq(Seq(Bounded)))
  BY TypedStep, SameWanted, PlanType, LenProperties DEF Typed, Clean
<1>2. ASSUME UNCHANGED <<cur, plan>>, ~replaced' => ~replaced,
             emitted' = emitted, cause' # "none" => pc' = "err",
             cause' = "inf" /\ ~replaced' =>
                /\ job.tier = "T4"
                /\ \E i \in DOMAIN plan :
                      CastIn2D(i) /\ \E x \in Elems(cur[i]) : x >= FP16_OVERFLOW /\ x # NAN
      PROVE  Faithful'
  <2>2. InfErrorOnlyT4'
    BY <1>1, <1>2 DEF InfErrorOnlyT4, CastIn2D
  <2>3. ~replaced' => \A i \in DOMAIN cur' : cur'[i] = job'.tensors[i].rows
    BY <1>1, <1>2 DEF Faithful
  <2>4. ~replaced' => \A i \in DOMAIN plan' : plan'[i] = Wanted(i)'
    BY <1>1, <1>2 DEF Faithful
  <2>5. \A i \in DOMAIN emitted' : OfAVersion(i)'
    BY <1>1, <1>2, SameVersion DEF Faithful
  <2> QED BY <1>2, <2>2, <2>3, <2>4, <2>5 DEF Faithful
<1>3. cause = "inf" /\ ~replaced =>
         /\ job.tier = "T4"
         /\ \E i \in DOMAIN plan :
               CastIn2D(i) /\ \E x \in Elems(cur[i]) : x >= FP16_OVERFLOW /\ x # NAN
  BY DEF Faithful, InfErrorOnlyT4
<1>4. CASE Classify
  <2> DEFINE n == Len(plan) + 1
             e == recast_tensor(job.tensors[n], cur[n])
  <2>1. /\ plan' = Append(plan, e) /\ UNCHANGED <<cur, emitted, replaced, cause>>
        /\ pc = "classify" /\ n \in DOMAIN job.tensors
    <3>1. Len(plan) < Len(job.tensors)
      BY <1>4 DEF Classify
    <3>2. n \in DOMAIN job.tensors
      BY <1>1, <3>1, JobType DEF Typed
    <3> QED BY <1>4, <3>2 DEF Classify, Next1
  <2>2. cause = "none"
    BY <2>1 DEF Faithful
  <2>3. n \in DOMAIN cur /\ (~replaced => e = Wanted(n))
    BY <2>1 DEF Typed, Faithful, Wanted
  <2> HIDE DEF e
  <2>4. Typed'
    BY TypedStep
  <2>5. Len(plan') = n /\ DOMAIN plan' = 1..n /\ plan'[n] = e
        /\ \A i \in 1..Len(plan) : plan'[i] = plan[i]
    <3>1. plan' \in Seq(PlanEntry)
      BY <2>4 DEF Typed
    <3>2. Len(plan') = n /\ plan'[n] = e /\ \A i \in 1..Len(plan) : plan'[i] = plan[i]
      BY <1>1, <2>1
    <3> QED BY <3>1, <3>2, LenProperties
  <2>6. n = Len(plan) + 1
    OBVIOUS
  <2> HIDE DEF n
  <2>7. \A i \in 1..n : i \in 1..Len(plan) \/ i = n
    BY <1>1, <2>6
  <2>8. ~replaced' => \A i \in DOMAIN plan' : plan'[i] = Wanted(i)'
    BY <1>1, <2>1, <2>3, <2>5, <2>7 DEF Faithful
  <2>9. \A i \in DOMAIN emitted' : OfAVersion(i)'
    <3> TAKE i \in DOMAIN emitted'
    <3>1. i \in 1..Len(plan) /\ i \in DOMAIN emitted
      BY <1>1, <2>1
    <3>2. plan'[i] = plan[i] /\ cur' = cur /\ emitted'[i] = emitted[i]
      BY <2>1, <2>5, <3>1
    <3> QED BY <1>1, <3>1, <3>2, SameVersion DEF Faithful
  <2>10. ~replaced' => \A i \in DOMAIN cur' : cur'[i] = job'.tensors[i].rows
    BY <1>1, <2>1 DEF Faithful
  <2>11. cause' = "none"
    BY <2>1, <2>2
  <2>12. InfErrorOnlyT4'
    BY <2>11 DEF InfErrorOnlyT4
  <2> QED BY <2>8, <2>9, <2>10, <2>11, <2>12 DEF Faithful
<1>5. CASE Emit
  <2>1. pc = "stream" /\ UNCHANGED <<cur, plan, replaced>> /\ next_tensor < Len(plan)
    BY <1>5 DEF Emit, Fail
  <2>2. cause = "none"
    BY <2>1 DEF Faithful
  <2>3. Next2 \in DOMAIN plan /\ Next2 = Len(emitted) + 1
    <3>1. next_tensor \in Nat /\ Len(emitted) = next_tensor
      BY <2>1 DEF TInv, TypeOK, Clean
    <3> QED BY <1>1, <2>1, <3>1 DEF Next2
  <2>4. CASE Fail("early EOF")
    <3>1. cause' # "inf" /\ pc' = "err" /\ emitted' = emitted
      BY <2>4 DEF Fail
    <3> QED BY <1>2, <2>1, <3>1
  <2>5. CASE Overflows(Next2) /\ Fail("inf")
    <3>1. cause' = "inf" /\ pc' = "err" /\ emitted' = emitted
      BY <2>5 DEF Fail
    <3>2. ASSUME ~replaced
          PROVE  /\ job.tier = "T4" /\ CastIn2D(Next2)
                 /\ \E x \in Elems(cur[Next2]) : x >= FP16_OVERFLOW /\ x # NAN
      <4>1. Next2 \in DOMAIN cur
        BY <2>3, PlanType DEF Typed
      <4>2. cur[Next2] = job.tensors[Next2].rows /\ plan[Next2] = Wanted(Next2)
        BY <2>3, <3>2, <4>1 DEF Faithful
      <4> QED BY <2>3, <2>5, <4>2, OverflowOnlyT4
    <3>3. ~replaced' => ~replaced
      BY <2>1
    <3> QED BY <1>2, <2>1, <2>3, <3>1, <3>2, <3>3
  <2>6. CASE ~Overflows(Next2) /\ ~Fail("early EOF")
    <3> DEFINE rows == IF plan[Next2].kind = "CastF16" THEN Pass2Rows(Next2) ELSE <<>>
    <3>1. emitted' = Append(emitted, rows) /\ AfterWriter("stream")
      BY <1>5, <2>6 DEF Emit
    <3>2. cause' # "none" => pc' = "err"
      BY <2>2, <3>1 DEF AfterWriter
    <3>3. cause' # "inf"
      BY <2>2, <3>1 DEF AfterWriter
    <3>4. rows \in Seq(Seq(Bounded))
      BY <2>3, Pass2Type
    <3>5. plan[Next2].kind = "CastF16" => rows = Pass2Rows(Next2)
      OBVIOUS
    <3> HIDE DEF rows
    <3>6. /\ DOMAIN emitted' = 1..(Len(emitted) + 1) /\ emitted'[Len(emitted) + 1] = rows
          /\ \A i \in 1..Len(emitted) : emitted'[i] = emitted[i]
      BY <1>1, <3>1, <3>4, Appended
    <3>8. \A i \in DOMAIN emitted' : OfAVersion(i)'
      <4> TAKE i \in DOMAIN emitted'
      <4>1. CASE i = Next2
        <5>1. plan'[i] = plan[i] /\ cur' = cur /\ emitted'[i] = rows
          BY <2>1, <2>3, <3>6, <4>1
        <5>2. plan[i].kind = "CastF16" => rows = CastRows(plan[i], cur[i])
          BY <2>3, <3>5, <4>1, Pass2Elems
        <5>3. CastRows(plan[i], cur[i])' = CastRows(plan[i], cur[i])
          BY <5>1 DEF CastRows, Rotate
        <5> QED BY <5>1, <5>2, <5>3 DEF OfAVersion
      <4>2. CASE i # Next2
        <5>1. i \in DOMAIN emitted /\ emitted'[i] = emitted[i]
          BY <1>1, <2>3, <3>6, <4>2
        <5> QED BY <1>1, <2>1, <5>1, SameVersion DEF Faithful
      <4> QED BY <4>1, <4>2
    <3>9. InfErrorOnlyT4'
      BY <3>3 DEF InfErrorOnlyT4
    <3>10. ~replaced' => \A i \in DOMAIN cur' : cur'[i] = job'.tensors[i].rows
      BY <1>1, <2>1 DEF Faithful
    <3>11. ~replaced' => \A i \in DOMAIN plan' : plan'[i] = Wanted(i)'
      BY <1>1, <2>1 DEF Faithful
    <3> QED BY <3>2, <3>8, <3>9, <3>10, <3>11 DEF Faithful
  <2> QED BY <1>5, <2>4, <2>5, <2>6 DEF Emit
<1>6. CASE Replace
  <2>1. replaced' = TRUE /\ UNCHANGED <<pc, cause>> /\ pc \in {"classify", "channels", "stream"}
    BY <1>6 DEF Replace
  <2>2. cause' = "none"
    BY <2>1 DEF Faithful
  <2>3. \A i \in DOMAIN emitted' : OfAVersion(i)'
    <3> TAKE i \in DOMAIN emitted'
    <3>1. ~replaced /\ UNCHANGED <<plan, emitted>>
      BY <1>6 DEF Replace
    <3>2. i \in DOMAIN emitted /\ i \in DOMAIN plan
      BY <1>1, <3>1
    <3>3. i \in DOMAIN cur
      BY <3>2, PlanType DEF Typed
    <3>4. cur[i] = job.tensors[i].rows
      BY <3>1, <3>3 DEF Faithful
    <3>5. plan[i].kind = "CastF16" => emitted[i] = CastRows(plan[i], job.tensors[i].rows)
      BY <3>2, <3>4 DEF Faithful, OfAVersion
    <3>6. CastRows(plan[i], job.tensors[i].rows)' = CastRows(plan[i], job.tensors[i].rows)
      BY <1>1, <3>1 DEF CastRows, Rotate
    <3> QED BY <3>1, <3>5, <3>6 DEF OfAVersion
  <2> QED BY <2>1, <2>2, <2>3 DEF Faithful, InfErrorOnlyT4
<1>7. CASE Open \/ IoErr
  <2>1. UNCHANGED <<cur, plan, replaced, emitted>>
        /\ (cause' # "none" => cause' \in {"io", "no architecture"} /\ pc' = "err")
    <3>1. cause = "none"
      BY <1>7 DEF Open, IoErr, Faithful
    <3> QED BY <1>7, <3>1 DEF Open, IoErr, Fail
  <2> QED BY <1>2, <2>1
<1>8. CASE DeclareKv \/ DeclareTensor \/ Header \/ FinishFile
  <2>1. cause = "none"
    BY <1>8 DEF DeclareKv, DeclareTensor, Header, FinishFile, Faithful
  <2>2. /\ UNCHANGED <<cur, plan, replaced, emitted>>
        /\ \E next : AfterWriter(next)
    BY <1>8 DEF DeclareKv, DeclareTensor, Header, FinishFile
  <2>3. cause' # "none" => cause' = "io" /\ pc' = "err"
    BY <2>1, <2>2 DEF AfterWriter
  <2> QED BY <1>2, <2>2, <2>3
<1>9. CASE RecordChannels \/ EndPass1 \/ Report \/ Create \/ Sync \/ Crash \/ UNCHANGED vars
  <2>1. UNCHANGED <<cur, plan, replaced, emitted, cause>>
    BY <1>9 DEF RecordChannels, EndPass1, Report, Create, Sync, Crash, vars, rvars
  <2>2. cause # "none" => pc' = "err"
    BY <1>9 DEF RecordChannels, EndPass1, Report, Create, Sync, Crash, vars, rvars,
                Faithful, Ends
  <2> QED BY <1>2, <1>3, <2>1, <2>2
<1> QED
  BY <1>4, <1>5, <1>6, <1>7, <1>8, <1>9 DEF Next, Run

-----------------------------------------------------------------------------
(* The theorems.                                                           *)

\* What holds of every state of a run, whatever its sources promise.
RInv == TInv /\ Typed /\ Phase /\ Reached /\ Agree /\ Clean /\ Listed /\ Caught
        /\ Faithful

LEMMA RInvInit == Init => RInv
BY TypesInit, PhaseInit, AgreeInit, ListedInit, FaithfulInit DEF RInv

LEMMA RInvStep == RInv /\ [Next]_vars => RInv'
BY TypesStep, PhaseStep, AgreeStep, CleanStep, ListedStep, CaughtStep, FaithfulStep DEF RInv

\* The old output is untouched until pass 1 has planned every tensor of a file
\* that names its architecture, and by a dry run at all times.
THEOREM TouchedTheorem == Spec => []TouchedOnlyAfterPass1
<1>1. RInv => TouchedOnlyAfterPass1
  BY DEF RInv, Reached, ArchOK, TouchedOnlyAfterPass1
<1> QED BY <1>1, RInvInit, RInvStep, PTL DEF Spec

\* Every variable of a run keeps its type.
THEOREM RecastTypes == Spec => []RTypeOK
<1>1. RInv => RTypeOK
  <2> SUFFICES ASSUME RInv PROVE RTypeOK
    OBVIOUS
  <2>1. TypeOK /\ job \in Jobs /\ Len(plan) <= Len(job.tensors) /\ Len(emitted) <= Len(plan)
    BY DEF RInv, TInv, Typed, Clean
  <2>2. /\ pc \in {"open", "classify", "channels", "report", "create", "declare",
                  "header", "stream", "sync"} \cup Ends
        /\ out \in {"old", "writing", "durable"}
        /\ cause \in {"none", "no architecture", "io", "inf", "early EOF"}
    BY DEF RInv, Phase, Before, AfterPass1
  <2>3. Bounded \subseteq Nat
    BY Numbers DEF Bounded
  <2>4. \A i \in DOMAIN plan :
          /\ plan[i].kind \in {"CastF16", "Bf16Passthrough", "F32Passthrough",
                               "RawPassthrough"}
          /\ plan[i].num \in Nat /\ plan[i].hadamard \in BOOLEAN
    BY <2>3, PlanType DEF RInv, Typed, PlanEntry, Kinds
  <2> QED BY <2>1, <2>2, <2>4 DEF RTypeOK
<1> QED BY <1>1, RInvInit, RInvStep, PTL DEF Spec

\* run panics only where the input is to blame (two copied keys alike, a key of
\* run's own among them, two names alike, T4 rows of length 0), and never gets
\* through such an input: no assertion of the writer and no division fails for
\* any other reason, at any point of the run.
THEOREM PanicsTheorem == Spec => []PanicsExactlyWhenDoomed
<1>1. RInv => PanicsExactlyWhenDoomed
  <2> SUFFICES ASSUME RInv PROVE PanicsExactlyWhenDoomed
    OBVIOUS
  <2>1. pc = "panicked" => Doomed
    BY DEF RInv, Caught
  <2>2. ASSUME Success PROVE ~Doomed
    <3>1. /\ Len(tensors) = Len(job.tensors) /\ Len(plan) = Len(job.tensors)
          /\ Len(kvs) = Len(KvPlan)
      BY <2>2 DEF RInv, Phase, Reached, Listed
    <3>2. job \in Jobs /\ DOMAIN job.tensors = 1..Len(job.tensors)
          /\ DOMAIN plan = 1..Len(plan)
      BY JobType, PlanType DEF RInv, Typed
    <3>3. ~TwoAlike(KeptAt) /\ \A i \in KeptAt : job.kvs[i].key \notin Range(OwnKeys)
      <4>1. Distinct(KvPlan)
        BY <3>1 DEF RInv, Listed, Distinct
      <4> QED BY <3>2, <4>1, KvPlanDistinct
    <3>4. IsInjective([i \in DOMAIN job.tensors |-> job.tensors[i].name])
      BY <3>1, <3>2 DEF RInv, Listed, IsInjective
    <3>5. job.tier = "T4" => \A i \in DOMAIN job.tensors : ~RowsOfNone(job.tensors[i])
      BY <2>2, <3>1, <3>2 DEF RInv, Caught, Success
    <3> QED BY <3>3, <3>4, <3>5 DEF Doomed, KeptAt, RowsOfNone
  <2> QED BY <2>1, <2>2 DEF PanicsExactlyWhenDoomed, Success
<1> QED BY <1>1, RInvInit, RInvStep, PTL DEF Spec

\* Exit status 0 means a durable file with every tensor whole and in its place,
\* none of them read from the output's own path; and wherever else a run ends,
\* no window of its file holds wrong bytes.
THEOREM ExitTheorem ==
  ASSUME SourceExact
  PROVE  Spec => []ExitTellsTruth
<1>1. RInv /\ IInv => ExitTellsTruth
  <2> SUFFICES ASSUME RInv, IInv PROVE ExitTellsTruth
    OBVIOUS
  <2>1. NoTornRead
    BY DEF IInv
  <2>2. ASSUME Success
        PROVE  /\ out = "durable" /\ wstate = "finished" /\ header_written
               /\ Len(tensors) = Len(job.tensors)
               /\ \A i \in DOMAIN tensors :
                     Intact(i) /\ (job.inplace => tensors[i].nbytes = 0)
    <3>1. /\ out = "durable" /\ wstate = "finished" /\ header_written
          /\ Len(tensors) = Len(plan) /\ Len(plan) = Len(job.tensors)
          /\ next_tensor = Len(plan)
      BY <2>2 DEF RInv, Phase, Reached
    <3>2. Len(tensors) \in Nat /\ DOMAIN tensors = 1..Len(tensors)
          /\ DOMAIN placed = 1..next_tensor
      BY Shapes, LenProperties
    <3>3. \A i \in DOMAIN tensors : Intact(i)
      BY <3>1, <3>2, EarlierIntact
    <3>4. ASSUME NEW i \in DOMAIN tensors, job.inplace
          PROVE  tensors[i].nbytes = 0
      <4>1. tensors[i].nbytes = TensorBytes(job.tensors[i]) /\ Readable(i)
        BY <3>1, <3>2 DEF RInv, Agree
      <4> QED BY <3>4, <4>1 DEF Readable
    <3> QED BY <3>1, <3>3, <3>4
  <2> QED BY <2>1, <2>2 DEF ExitTellsTruth, Success
<1>2. Init => RInv /\ IInv
  BY RInvInit, WriterInit DEF Init
<1>3. RInv /\ IInv /\ [Next]_vars => RInv' /\ IInv'
  BY RInvStep, StepOfWriter, WriterStep DEF RInv
<1> QED BY <1>1, <1>2, <1>3, PTL DEF Spec
\* The greatest element is the one that no other exceeds.
LEMMA MaxIs ==
  ASSUME NEW S \in SUBSET Bounded, NEW m \in S, \A y \in S : y <= m
  PROVE  Max(S) = m
<1>1. S \in SUBSET (0..NAN) /\ S # {} /\ NAN \in Nat
  BY Numbers DEF Bounded
<1>2. Max(S) \in S /\ \A y \in S : y <= Max(S)
  BY <1>1, MaxExists
<1>3. Max(S) \in 0..NAN /\ m \in 0..NAN /\ m <= Max(S) /\ Max(S) <= m
  BY <1>1, <1>2
<1> HIDE DEF Bounded
<1> QED BY <1>1, <1>3

\* At a scale of 1.0 what casts to a finite value is below the limit.
LEMMA CastByOneFinite ==
  ASSUME NEW x \in 0..(INF - 1), cast(x, One) # INF
  PROVE  cast(x, One) = x
<1>1. x \in Bounded /\ x \in Nat /\ x \notin {INF, NAN} /\ One \notin {0, INF, NAN}
      /\ FP16_OVERFLOW \in Nat /\ One \in Nat /\ FP16_OVERFLOW # 0
  BY Numbers DEF Bounded
<1>2. ASSUME x >= FP16_OVERFLOW PROVE FALSE
  <2>1. \A l, o \in Nat : x >= l => x * o >= l * o
    BY <1>1
  <2>2. x # 0 /\ x * One >= FP16_OVERFLOW * One
    BY <1>1, <1>2, <2>1
  <2> QED BY <1>1, <2>2 DEF cast
<1>3. x < FP16_OVERFLOW
  BY <1>1, <1>2
<1> QED BY <1>1, <1>3, CastByOne

\* A tensor that a successful run has cast: its entry in the plan, the scale and
\* the rotation that the output records of it, and its elements.
LEMMA Survivor ==
  ASSUME RInv, Success, ~replaced, NEW i \in DOMAIN plan,
         plan[i].kind = "CastF16", Finite(i),
         NEW S, S = Elems(SourceRows(i)), NEW num, num = plan[i].num
  PROVE  /\ RecordedNum(i) = num /\ (i \in Scaled <=> num # One)
         /\ SourceRows(i) = Rotate(plan[i], cur[i]) /\ emitted[i] = Pass2Rows(i)
         /\ num \in 0..(INF - 1) /\ S \in SUBSET (0..(INF - 1))
         /\ num # One => num \in S \cup {0} /\ \A x \in S : x <= num
         /\ \A x \in S : cast(x, num) # INF
<1> DEFINE t == job.tensors[i]
           e == plan[i]
<1>1. job \in Job /\ t \in InTensor /\ e \in PlanEntry /\ cur[i] \in Seq(Seq(Values))
      /\ i \in DOMAIN cur
  <2>1. job \in Jobs /\ i \in DOMAIN job.tensors /\ e \in PlanEntry
    BY PlanType DEF RInv, Typed
  <2> QED BY <2>1, JobType DEF RInv, Typed
<1>2. cur[i] = t.rows /\ e = recast_tensor(t, cur[i])
  BY <1>1 DEF RInv, Faithful, Wanted
<1>3. i \in DOMAIN emitted
  <2>1. next_tensor = Len(plan) /\ Len(emitted) = next_tensor /\ emitted \in Seq(Seq(Seq(Bounded)))
    BY DEF RInv, Phase, Clean, Success
  <2> QED BY <2>1, PlanType, LenProperties DEF RInv
<1>4. emitted[i] = Pass2Rows(i) /\ emitted[i] = CastRows(e, cur[i])
  BY <1>2, <1>3, Pass2Elems DEF RInv, Faithful, OfAVersion
<1>5. RecordedNum(i) = num /\ (i \in Scaled <=> num # One)
  BY DEF RecordedNum, Scaled
<1>6. SourceRows(i) = Rotate(e, cur[i])
  BY <1>2 DEF SourceRows, Turned, Rotated, Rotate
<1>7. \A x \in S : cast(x, num) # INF
  <2>1. INF \notin Elems(emitted[i])
    BY <1>3 DEF RInv, Clean, NoInfEmitted
  <2>2. Elems(Pass2Rows(i)) = {cast(x, num) : x \in S}
    BY <1>6, Pass2Elems DEF RInv
  <2> QED BY <1>4, <2>1, <2>2
<1>8. e.kind = "CastF16" /\ num = e.num /\ S = Elems(Rotate(e, cur[i]))
  BY <1>6
<1>9. S \cap {INF, NAN} = {}
  BY DEF Finite
<1> HIDE DEF e, t
<1>10. S \in SUBSET Bounded /\ (Unguarded(e, t) \/ Guarded(e, S))
  BY <1>1, <1>2, <1>8, EntryGuards
<1>11. S \in SUBSET (0..(INF - 1))
  <2>1. INF \in Nat /\ NAN = INF + 1 /\ One \in 0..(INF - 1)
    BY Numbers
  <2>2. \A x \in 0..(INF + 1) : x \notin {INF, INF + 1} => x \in 0..(INF - 1)
    BY <2>1
  <2> QED BY <1>9, <1>10, <2>1, <2>2 DEF Bounded
<1>12. num # One => num \in S \cup {0} /\ \A x \in S : x <= num
  <2>1. NAN \notin S
    BY <1>9
  <2> QED BY <1>8, <1>10, <2>1 DEF Unguarded, Guarded
<1>13. num \in 0..(INF - 1)
  <2>1. One \in 0..(INF - 1) /\ 0 \in 0..(INF - 1)
    BY Numbers
  <2> QED BY <1>11, <1>12, <2>1
<1> QED BY <1>4, <1>5, <1>6, <1>7, <1>11, <1>12, <1>13 DEF e

\* The greatest element after the cast.
LEMMA GreatestSurvives ==
  ASSUME NEW S \in SUBSET (0..(INF - 1)), NEW num \in 0..(INF - 1),
         num # One => num \in S \cup {0} /\ \A x \in S : x <= num,
         \A x \in S : cast(x, num) # INF,
         NEW T, T = {cast(x, num) : x \in S}
  PROVE  /\ Max(T \cup {0}) # NAN
         /\ Max(T \cup {0}) = IF num # One /\ max_fold(S) > 0 THEN One ELSE max_fold(S)
<1>0. /\ INF \in Nat /\ NAN = INF + 1 /\ One \in 1..(INF - 1) /\ One \in Nat
      /\ 0..(INF - 1) \subseteq Bounded /\ NAN \notin S /\ 0 \in Bounded
      /\ NAN \notin 0..(INF - 1)
  BY Numbers DEF Bounded
<1>1. (S \ {NAN}) \cup {0} = S \cup {0} /\ S \cup {0} \in SUBSET Bounded
      /\ S \cup {0} \in SUBSET (0..NAN) /\ S \cup {0} # {}
  BY <1>0 DEF Bounded
<1>2. max_fold(S) \in S \cup {0} /\ max_fold(S) \in 0..(INF - 1)
      /\ \A y \in S \cup {0} : y <= max_fold(S)
  <2>1. max_fold(S) = Max(S \cup {0})
    BY <1>1 DEF max_fold
  <2>2. Max(S \cup {0}) \in S \cup {0} /\ \A y \in S \cup {0} : y <= Max(S \cup {0})
    BY <1>1, MaxExists
  <2>3. S \cup {0} \in SUBSET (0..(INF - 1))
    BY <1>0
  <2> QED BY <2>1, <2>2, <2>3
<1>3. CASE num = One
  <2>1. \A x \in S : cast(x, num) = x
    BY <1>3, CastByOneFinite
  <2>2. T = S
    BY <2>1
  <2>3. Max(T \cup {0}) = max_fold(S)
    BY <1>1, <2>2 DEF max_fold
  <2> QED BY <1>0, <1>2, <1>3, <2>3
<1>4. CASE num # One
  <2>1. max_fold(S) = num
    <3>1. num \in S \cup {0} /\ \A y \in S \cup {0} : y <= num
      BY <1>4
    <3> QED BY <1>1, <3>1, MaxIs DEF max_fold
  <2>2. CASE num = 0
    <3>1. \A x \in S : x = 0
      <4>1. \A x \in S : x <= 0 /\ x \in Nat
        BY <1>0, <1>4, <2>2
      <4> QED BY <4>1
    <3>2. \A x \in S : cast(x, num) = 0
      BY <1>0, <3>1, CastNumber
    <3>3. T \cup {0} = {0}
      BY <3>2
    <3>4. {0} \in SUBSET Bounded /\ 0 \in {0} /\ \A y \in {0} : y <= 0
      BY <1>0
    <3>5. Max(T \cup {0}) = 0
      BY <3>3, <3>4, MaxIs
    <3> QED BY <1>0, <2>1, <2>2, <3>5
  <2>3. CASE num # 0
    <3>1. num \in 1..(INF - 1) /\ num \in S
      BY <1>4, <2>3
    <3>2. \A x \in S : x \in 0..num
      BY <1>0, <1>4, <3>1
    <3>3. One \in T
      BY <3>1, <3>2, CastTop
    <3>4. \A y \in T : y \in 0..One
      BY <3>1, <3>2, CastTop
    <3>5. T \cup {0} \in SUBSET Bounded /\ One \in T \cup {0} /\ \A y \in T \cup {0} : y <= One
      <4>1. \A y \in 0..One : y <= One /\ y \in Bounded
        BY Numbers DEF Bounded
      <4>2. 0 <= One
        BY Numbers
      <4> QED BY <1>0, <3>3, <3>4, <4>1, <4>2
    <3>6. Max(T \cup {0}) = One
      BY <3>5, MaxIs
    <3>7. max_fold(S) > 0 /\ One # NAN
      BY <1>0, <2>1, <3>1
    <3> QED BY <1>4, <3>6, <3>7
  <2> QED BY <2>2, <2>3
<1> QED BY <1>3, <1>4

\* On an input that does not change, only T4 runs into an infinity, on a 2-D
\* tensor that holds a value beyond FP16: every other scale of pass 1 suffices
\* for what pass 2 casts with it, in every tier and for every policy.
THEOREM InfErrorTheorem == Spec => []InfErrorOnlyT4
<1>1. RInv => InfErrorOnlyT4
  BY DEF RInv, Faithful
<1> QED BY <1>1, RInvInit, RInvStep, PTL DEF Spec

\* What a cast leaves, when it is no infinity, decodes to what was cast.
LEMMA CastDecodes ==
  ASSUME NEW x \in Bounded, NEW num \in Bounded, NEW y, y = cast(x, num), y # INF
  PROVE  Decodes(y, x, num)
<1>1. x \in Nat /\ num \in Nat /\ INF \in Nat /\ NAN = INF + 1 /\ x <= NAN /\ num <= NAN
  BY Numbers DEF Bounded
<1>2. CASE NAN \in {x, num}
  <2>1. y = NAN
    BY <1>2 DEF cast
  <2> QED BY <1>2, <2>1 DEF Decodes
<1>3. CASE NAN \notin {x, num} /\ num = INF
  <2>1. y = IF x = INF THEN NAN ELSE 0
    BY <1>1, <1>3 DEF cast
  <2> QED BY <1>1, <1>3, <2>1 DEF Decodes
<1>4. CASE NAN \notin {x, num} /\ num # INF /\ x = INF
  BY <1>4 DEF cast
<1>5. CASE NAN \notin {x, num} /\ num # INF /\ x # INF
  <2>1. x \in 0..(INF - 1) /\ num \in 0..(INF - 1)
    BY <1>1, <1>5
  <2>2. /\ y * num <= x * One
        /\ x * One = 0 \/ x * One - y * num < num
    BY <2>1, CastBack
  <2>3. y <= FP16_MAX
    <3>1. y \in 0..FP16_MAX \cup {INF, NAN} /\ FP16_MAX \in Nat
      BY CastType, Numbers
    <3>2. y # NAN
      <4>1. ASSUME x # 0 PROVE y # NAN
        <5>1. y = (x * One) \div num /\ num # 0
          BY <2>1, <4>1, CastNumber
        <5>2. ~(x * One >= FP16_OVERFLOW * num)
          BY <1>5, <4>1, <5>1 DEF cast
        <5>3. ASSUME y = NAN PROVE FALSE
          <6>1. NAN * num >= FP16_OVERFLOW * num
            BY <2>1, Numbers
          <6>2. x * One < FP16_OVERFLOW * num
            BY <2>1, <5>2, Numbers
          <6>3. NAN * num <= x * One
            BY <2>2, <5>3
          <6>4. NAN * num \in Nat /\ x * One \in Nat /\ FP16_OVERFLOW * num \in Nat
            BY <2>1, Numbers
          <6> QED BY <6>1, <6>2, <6>3, <6>4
        <5> QED BY <5>3
      <4>2. x = 0 => y = 0 /\ NAN # 0
        BY <1>1, <2>1, CastNumber
      <4> QED BY <4>1, <4>2
    <3> QED BY <3>1, <3>2
  <2>4. x * One = 0 => x = 0
    BY <1>1, Numbers
  <2> QED BY <1>5, <2>2, <2>3, <2>4 DEF Decodes
<1> QED BY <1>2, <1>3, <1>4, <1>5

\* Whatever has been written of a cast tensor, in a run that goes on, has ended or
\* has failed, decodes by the recorded scale and rotation to one version of its
\* input, for every length and number of rows.
THEOREM MetadataDecodesTheorem == Spec => []MetadataDecodes
<1>1. RInv => MetadataDecodes
  <2> SUFFICES ASSUME RInv, NEW i \in DOMAIN emitted, plan[i].kind = "CastF16"
               PROVE  \E rows \in {Turned(i, job.tensors[i].rows), Turned(i, cur[i])} :
                         /\ DOMAIN emitted[i] = DOMAIN rows
                         /\ \A r \in DOMAIN rows :
                               /\ DOMAIN emitted[i][r] = DOMAIN rows[r]
                               /\ \A c \in DOMAIN rows[r] :
                                     Decodes(emitted[i][r][c], Mag(rows[r][c]), RecordedNum(i))
    BY DEF MetadataDecodes
  <2> DEFINE e == plan[i]
  <2>1. i \in DOMAIN plan
    <3>1. emitted \in Seq(Seq(Seq(Bounded))) /\ Len(emitted) <= Len(plan)
      BY DEF RInv, Clean
    <3> QED BY <3>1, PlanType, LenProperties DEF RInv
  <2>2. e \in PlanEntry /\ cur[i] \in Seq(Seq(Values)) /\ i \in DOMAIN job.tensors
    BY <2>1, Pass2Elems, PlanType DEF RInv
  <2>3. job.tensors[i].rows \in Seq(Seq(Values))
    BY <2>2, JobType DEF RInv, Typed, InTensor
  <2>4. PICK source \in {job.tensors[i].rows, cur[i]} : emitted[i] = CastRows(e, source)
    BY DEF RInv, Faithful, OfAVersion
  <2>5. Turned(i, source) = Rotate(e, source) /\ RecordedNum(i) = e.num /\ e.num \in Bounded
    BY <2>1, <2>2 DEF Turned, Rotated, Rotate, RecordedNum, Scaled, PlanEntry
  <2>6. INF \notin Elems(emitted[i])
    BY DEF RInv, Clean, NoInfEmitted
  <2> DEFINE rows == Rotate(e, source)
             p == emitted[i]
  <2>7. source \in Seq(Seq(Values))
    BY <2>2, <2>3, <2>4
  <2>8. /\ Elems(p) = {cast(x, e.num) : x \in Elems(rows)}
        /\ DOMAIN p = DOMAIN rows
        /\ \A r \in DOMAIN p :
             /\ DOMAIN p[r] = DOMAIN rows[r]
             /\ \A c \in DOMAIN p[r] :
                  /\ p[r][c] = cast(Mag(rows[r][c]), e.num)
                  /\ Mag(rows[r][c]) \in Elems(rows) /\ Mag(rows[r][c]) \in Bounded
    BY <2>2, <2>4, <2>7, CastElems
  <2>9. rows \in {Turned(i, job.tensors[i].rows), Turned(i, cur[i])}
    BY <2>4, <2>5
  <2>10. e.num \in Bounded /\ RecordedNum(i) = e.num
    BY <2>5
  <2> HIDE DEF rows, p, e
  <2>11. \A r \in DOMAIN rows : \A c \in DOMAIN rows[r] :
            Decodes(p[r][c], Mag(rows[r][c]), RecordedNum(i))
    <3> TAKE r \in DOMAIN rows
    <3> TAKE c \in DOMAIN rows[r]
    <3>1. /\ p[r][c] = cast(Mag(rows[r][c]), e.num)
          /\ Mag(rows[r][c]) \in Elems(rows) /\ Mag(rows[r][c]) \in Bounded
      BY <2>8
    <3>2. p[r][c] # INF
      <4>1. INF \notin Elems(p)
        BY <2>6 DEF p
      <4> QED BY <2>8, <3>1, <4>1
    <3> QED BY <2>10, <3>1, <3>2, CastDecodes
  <2> QED BY <2>8, <2>9, <2>11 DEF p
<1> QED BY <1>1, RInvInit, RInvStep, PTL DEF Spec

\* A tensor that is finite as it is cast, after its rotation if it is rotated,
\* survives in every successful run over an unchanged input: without a NaN, its
\* greatest magnitude unchanged, or at 30000 where it was rescaled.
THEOREM FiniteSurvivesTheorem == Spec => []FiniteSurvives
<1>1. RInv => FiniteSurvives
  <2> SUFFICES ASSUME RInv, Success, ~replaced, NEW i \in DOMAIN plan,
                      plan[i].kind = "CastF16", Finite(i)
               PROVE  LET was == max_fold(Elems(SourceRows(i)))
                          is == Max(Elems(emitted[i]) \cup {0})
                      IN  /\ is # NAN
                          /\ is = IF i \in Scaled /\ was > 0 THEN One ELSE was
    BY DEF FiniteSurvives, Success
  <2> DEFINE S == Elems(SourceRows(i))
             num == plan[i].num
             T == {cast(x, num) : x \in S}
  <2>1. /\ i \in Scaled <=> num # One
        /\ SourceRows(i) = Rotate(plan[i], cur[i]) /\ emitted[i] = Pass2Rows(i)
        /\ num \in 0..(INF - 1) /\ S \in SUBSET (0..(INF - 1))
        /\ num # One => num \in S \cup {0} /\ \A x \in S : x <= num
        /\ \A x \in S : cast(x, num) # INF
    BY Survivor
  <2>2. Elems(emitted[i]) = T
    BY <2>1, Pass2Elems DEF RInv
  <2> HIDE DEF S, num
  <2>3. /\ Max(T \cup {0}) # NAN
        /\ Max(T \cup {0}) = IF num # One /\ max_fold(S) > 0 THEN One ELSE max_fold(S)
    BY <2>1, GreatestSurvives
  <2> QED BY <2>1, <2>2, <2>3 DEF S
<1> QED BY <1>1, RInvInit, RInvStep, PTL DEF Spec
=============================================================================
