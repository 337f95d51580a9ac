--------------------------- MODULE CommonLemmas ---------------------------
(***************************************************************************)
(* What the proofs about several components need: facts about naturals and *)
(* sequences, what Selection's operators return, division with rest, and   *)
(* of Quant the orders of the V heads and what emit_quant asserts.         *)
(* Each lemma that needs an induction on the number of iterations goes     *)
(* through a set of naturals that holds 0 and the successor of each of its *)
(* members.                                                                *)
(***************************************************************************)
EXTENDS Selection, Quant, Integers, TLAPS, SequenceTheorems, FiniteSetTheorems,
        WellFoundedInduction

\* A set of naturals with 0 and with all successors is the whole of Nat.
LEMMA AllNaturals ==
  ASSUME NEW P \in SUBSET Nat, 0 \in P, \A n \in P : n + 1 \in P
  PROVE  \A n \in Nat : n \in P
<1> SUFFICES ASSUME NEW n \in Nat, n \notin P
             PROVE  FALSE
  OBVIOUS
<1> DEFINE Rest == Nat \ P
<1>1. Rest \in SUBSET Nat /\ Rest # {}
  OBVIOUS
<1>2. IsWellFoundedOn(OpToRel(<, Nat), Nat)
  BY NatLessThanWellFounded
<1>3. PICK m \in Rest : \A k \in Rest : ~(<<k, m>> \in OpToRel(<, Nat))
  <2> HIDE DEF Rest
  <2> QED BY <1>1, <1>2, WFMin
<1>4. m \in Nat /\ m # 0 /\ m - 1 \in Nat /\ m - 1 < m
  OBVIOUS
<1>5. m - 1 \notin P
  <2>1. (m - 1) + 1 = m
    BY <1>4
  <2> QED BY <2>1
<1>6. <<m - 1, m>> \in OpToRel(<, Nat)
  BY <1>4 DEF OpToRel
<1> QED BY <1>3, <1>4, <1>5, <1>6

\* A set of naturals that is not empty has a least element.
LEMMA LeastExists ==
  ASSUME NEW S \in SUBSET Nat, S # {}
  PROVE  \E i \in S : \A j \in S : i <= j
<1>1. IsWellFoundedOn(OpToRel(<, Nat), Nat)
  BY NatLessThanWellFounded
<1>2. PICK i \in S : \A j \in S : ~(<<j, i>> \in OpToRel(<, Nat))
  BY <1>1, WFMin
<1>3. \A j \in S : ~(j < i)
  BY <1>2 DEF OpToRel
<1> QED BY <1>3

\* A function on 1..n is a sequence.
LEMMA FunctionIsSeq ==
  ASSUME NEW S, NEW n \in Nat, NEW f \in [1..n -> S]
  PROVE  f \in Seq(S) /\ Len(f) = n /\ DOMAIN f = 1..n
<1>1. f \in Seq(S)
  BY SeqDef
<1>2. DOMAIN f = 1..n /\ DOMAIN f = 1..Len(f) /\ Len(f) \in Nat
  BY <1>1, LenProperties
<1> QED BY <1>1, <1>2

\* What appending does, element by element.
LEMMA Appended ==
  ASSUME NEW S, NEW s \in Seq(S), NEW e \in S
  PROVE  /\ Append(s, e) \in Seq(S) /\ Len(Append(s, e)) = Len(s) + 1
         /\ DOMAIN Append(s, e) = 1..(Len(s) + 1)
         /\ Append(s, e)[Len(s) + 1] = e
         /\ \A i \in 1..Len(s) : Append(s, e)[i] = s[i]
OBVIOUS

-----------------------------------------------------------------------------
\* The recursion that defines OnlyUpTo has a solution, and OnlyUpTo is one.
Step(s, K, F) ==
  [n \in 0..Len(s) |->
     IF n = 0 THEN <<>> ELSE IF s[n] \in K THEN Append(F[n - 1], s[n]) ELSE F[n - 1]]

\* The first n iterations in closed form exist for every n.
LEMMA OnlyExists ==
  ASSUME NEW s, Len(s) \in Nat, NEW K
  PROVE  \E F : F = Step(s, K, F)
<1> DEFINE Solves(F, n) ==
      F = [k \in 0..n |->
             IF k = 0 THEN <<>>
             ELSE IF s[k] \in K THEN Append(F[k - 1], s[k]) ELSE F[k - 1]]
    P == {n \in Nat : \E F : Solves(F, n)}
<1>1. 0 \in P
  <2>1. Solves([k \in 0..0 |-> <<>>], 0)
    OBVIOUS
  <2> QED BY <2>1
<1>2. ASSUME NEW n \in P
      PROVE  n + 1 \in P
  <2>1. PICK F : Solves(F, n)
    OBVIOUS
  <2> DEFINE G == [k \in 0..(n + 1) |->
                     IF k <= n THEN F[k]
                     ELSE IF s[k] \in K THEN Append(F[k - 1], s[k]) ELSE F[k - 1]]
             H == [k \in 0..(n + 1) |->
                     IF k = 0 THEN <<>>
                     ELSE IF s[k] \in K THEN Append(G[k - 1], s[k]) ELSE G[k - 1]]
  <2>2. \A k \in 0..n : F[k] = IF k = 0 THEN <<>>
                               ELSE IF s[k] \in K THEN Append(F[k - 1], s[k]) ELSE F[k - 1]
    BY <2>1
  <2>3. \A k \in 0..(n + 1) : G[k] = H[k]
    BY <2>2
  <2>4. G = H
    BY <2>3
  <2>5. Solves(G, n + 1)
    BY <2>4
  <2> HIDE DEF G, Solves
  <2> QED BY <2>5
<1> HIDE DEF Solves
<1>3. Len(s) \in P
  <2>1. P \in SUBSET Nat
    OBVIOUS
  <2> HIDE DEF P
  <2> QED BY <1>1, <1>2, <2>1, AllNaturals
<1>4. PICK F : Solves(F, Len(s))
  BY <1>3
<1> QED BY <1>4 DEF Solves, Step

\* One iteration of the loop.
LEMMA OnlyStep ==
  ASSUME NEW s, Len(s) \in Nat, NEW K
  PROVE  /\ DOMAIN OnlyUpTo(s, K) = 0..Len(s)
         /\ OnlyUpTo(s, K)[0] = <<>>
         /\ \A n \in 1..Len(s) :
              OnlyUpTo(s, K)[n] = IF s[n] \in K
                                  THEN Append(OnlyUpTo(s, K)[n - 1], s[n])
                                  ELSE OnlyUpTo(s, K)[n - 1]
<1>1. OnlyUpTo(s, K) = CHOOSE F : F = Step(s, K, F)
  BY DEF OnlyUpTo, Step
<1>2. PICK f : f = OnlyUpTo(s, K) /\ f = Step(s, K, f)
  BY <1>1, OnlyExists
<1>3. f = [n \in 0..Len(s) |->
             IF n = 0 THEN <<>> ELSE IF s[n] \in K THEN Append(f[n - 1], s[n]) ELSE f[n - 1]]
  BY <1>2 DEF Step
<1>4. DOMAIN f = 0..Len(s)
  BY <1>3
<1>5. \A n \in 0..Len(s) :
        f[n] = IF n = 0 THEN <<>> ELSE IF s[n] \in K THEN Append(f[n - 1], s[n]) ELSE f[n - 1]
  BY <1>3, Zenon
<1>6. /\ DOMAIN f = 0..Len(s) /\ f[0] = <<>>
      /\ \A n \in 1..Len(s) : f[n] = IF s[n] \in K THEN Append(f[n - 1], s[n]) ELSE f[n - 1]
  <2>1. f[0] = <<>>
    BY <1>5
  <2>2. ASSUME NEW n \in 1..Len(s)
        PROVE  f[n] = IF s[n] \in K THEN Append(f[n - 1], s[n]) ELSE f[n - 1]
    <3>1. n \in 0..Len(s) /\ n # 0
      OBVIOUS
    <3> QED BY <1>5, <3>1, Zenon
  <2> QED BY <1>4, <2>1, <2>2
<1> QED BY <1>2, <1>6, Zenon

\* What has been passed on after n iterations is a sequence of members of K, and
\* no longer than n.
LEMMA OnlyType ==
  ASSUME NEW S, NEW s \in Seq(S), NEW K, NEW n \in 0..Len(s)
  PROVE  /\ OnlyUpTo(s, K)[n] \in Seq(S \cap K)
         /\ Len(OnlyUpTo(s, K)[n]) \in 0..n
<1> DEFINE o == OnlyUpTo(s, K)
           T == S \cap K
           Typed(m) == o[m] \in Seq(T) /\ Len(o[m]) \in 0..m
           P == {m \in Nat : m <= Len(s) => Typed(m)}
<1>1. /\ Len(s) \in Nat /\ o[0] = <<>>
      /\ \A m \in 1..Len(s) : o[m] = IF s[m] \in K THEN Append(o[m - 1], s[m]) ELSE o[m - 1]
      /\ \A m \in 1..Len(s) : s[m] \in S
  BY OnlyStep, LenProperties, ElementOfSeq
<1>2. 0 \in P
  <2> HIDE DEF o, T
  <2>1. o[0] \in Seq(T) /\ Len(o[0]) = 0
    BY <1>1
  <2> QED BY <2>1
<1>3. ASSUME NEW m \in P
      PROVE  m + 1 \in P
  <2> SUFFICES ASSUME m + 1 <= Len(s) PROVE Typed(m + 1)
    OBVIOUS
  <2>1. Typed(m) /\ m \in Nat /\ m + 1 \in 1..Len(s) /\ (m + 1) - 1 = m
    BY <1>1
  <2>2. o[m + 1] = IF s[m + 1] \in K THEN Append(o[m], s[m + 1]) ELSE o[m]
    BY <1>1, <2>1
  <2>3. s[m + 1] \in S
    BY <1>1, <2>1
  <2> HIDE DEF o
  <2>4. CASE s[m + 1] \in K
    <3>1. s[m + 1] \in T /\ o[m + 1] = Append(o[m], s[m + 1])
      BY <2>2, <2>3, <2>4
    <3> HIDE DEF T
    <3> QED BY <2>1, <3>1
  <2>5. CASE s[m + 1] \notin K
    BY <2>1, <2>2, <2>5
  <2> QED BY <2>4, <2>5
<1> HIDE DEF Typed
<1>4. P \in SUBSET Nat
  OBVIOUS
<1>5. n \in P
  <2> HIDE DEF P
  <2> QED BY <1>1, <1>2, <1>3, <1>4, AllNaturals
<1> QED BY <1>1, <1>5 DEF Typed

Begins(a, b) == Len(a) <= Len(b) /\ \A k \in 1..Len(a) : b[k] = a[k]

\* The loop only appends.
LEMMA OnlyGrows ==
  ASSUME NEW S, NEW s \in Seq(S), NEW K, NEW n \in 0..Len(s), NEW m \in n..Len(s)
  PROVE  Begins(OnlyUpTo(s, K)[n], OnlyUpTo(s, K)[m])
<1> DEFINE o == OnlyUpTo(s, K)
           Extends(b) == Begins(o[n], o[b])
           P == {b \in Nat : n + b <= Len(s) => Extends(n + b)}
<1>1. /\ Len(s) \in Nat /\ n \in Nat
      /\ \A b \in 1..Len(s) : o[b] = IF s[b] \in K THEN Append(o[b - 1], s[b]) ELSE o[b - 1]
      /\ \A b \in 0..Len(s) : o[b] \in Seq(S \cap K) /\ Len(o[b]) \in Nat
      /\ \A b \in 1..Len(s) : s[b] \in S
  <2>1. Len(s) \in Nat /\ n \in Nat /\ \A b \in 1..Len(s) : s[b] \in S
    BY LenProperties, ElementOfSeq
  <2>2. \A b \in 1..Len(s) :
          o[b] = IF s[b] \in K THEN Append(o[b - 1], s[b]) ELSE o[b - 1]
    BY <2>1, OnlyStep
  <2>3. \A b \in 0..Len(s) : o[b] \in Seq(S \cap K) /\ Len(o[b]) \in 0..b
    BY OnlyType, Zenon
  <2>4. \A b \in 0..Len(s) : Len(o[b]) \in Nat
    BY <2>3
  <2> QED BY <2>1, <2>2, <2>3, <2>4, Zenon
<1> HIDE DEF o
<1>2. 0 \in P
  BY <1>1 DEF Begins
<1>3. ASSUME NEW b \in P
      PROVE  b + 1 \in P
  <2> SUFFICES ASSUME n + (b + 1) <= Len(s) PROVE Extends(n + (b + 1))
    OBVIOUS
  <2>1. /\ Extends(n + b) /\ b \in Nat /\ n + (b + 1) \in 1..Len(s)
        /\ (n + (b + 1)) - 1 = n + b /\ n + b \in 0..Len(s)
    BY <1>1
  <2> DEFINE c == n + (b + 1)
  <2>2. o[c] = IF s[c] \in K THEN Append(o[n + b], s[c]) ELSE o[n + b]
    BY <1>1, <2>1
  <2>3. s[c] \in S /\ o[n + b] \in Seq(S \cap K) /\ Len(o[n + b]) \in Nat /\ Len(o[n]) \in Nat
    BY <1>1, <2>1
  <2> HIDE DEF c
  <2>4. CASE s[c] \in K
    <3> DEFINE T == S \cap K
    <3>1. s[c] \in T /\ o[c] = Append(o[n + b], s[c]) /\ o[n + b] \in Seq(T)
      BY <2>2, <2>3, <2>4
    <3> HIDE DEF T
    <3>2. Len(o[c]) = Len(o[n + b]) + 1 /\ \A k \in 1..Len(o[n + b]) : o[c][k] = o[n + b][k]
      BY <3>1
    <3>3. Len(o[n]) <= Len(o[c])
      BY <2>1, <2>3, <3>2 DEF Begins
    <3>4. ASSUME NEW k \in 1..Len(o[n])
          PROVE  o[c][k] = o[n][k]
      <4>1. k \in 1..Len(o[n + b]) /\ o[n + b][k] = o[n][k]
        BY <2>1, <2>3 DEF Begins
      <4> QED BY <3>2, <4>1
    <3>5. Extends(c)
      BY <3>3, <3>4 DEF Begins
    <3> QED BY <3>5 DEF c
  <2>5. CASE s[c] \notin K
    <3>1. Extends(c)
      BY <2>1, <2>2, <2>5
    <3> QED BY <3>1 DEF c
  <2> QED BY <2>4, <2>5
<1> HIDE DEF Extends
<1>4. P \in SUBSET Nat /\ m - n \in Nat /\ n + (m - n) = m /\ m <= Len(s)
  BY <1>1
<1>5. m - n \in P
  <2> HIDE DEF P
  <2> QED BY <1>2, <1>3, <1>4, AllNaturals
<1>6. Extends(m)
  BY <1>4, <1>5
<1> QED BY <1>6 DEF Extends, o

\* The type of the whole selection.
LEMMA OnlySeq ==
  ASSUME NEW S, NEW s \in Seq(S), NEW K
  PROVE  Only(s, K) \in Seq(S \cap K) /\ Len(Only(s, K)) \in 0..Len(s)
<1>1. Len(s) \in 0..Len(s)
  BY LenProperties
<1> QED BY <1>1, OnlyType DEF Only

\* A member of K has its own place in the selection, and places are in order.
LEMMA OnlyPlace ==
  ASSUME NEW S, NEW s \in Seq(S), NEW K, NEW i \in 1..Len(s), s[i] \in K
  PROVE  /\ Len(OnlyUpTo(s, K)[i]) = Len(OnlyUpTo(s, K)[i - 1]) + 1
         /\ Len(OnlyUpTo(s, K)[i]) \in 1..Len(Only(s, K))
         /\ Only(s, K)[Len(OnlyUpTo(s, K)[i])] = s[i]
         /\ \A j \in 1..(i - 1) : Len(OnlyUpTo(s, K)[j]) < Len(OnlyUpTo(s, K)[i])
<1> DEFINE o == OnlyUpTo(s, K)
           T == S \cap K
<1> PICK n \in Nat : n = Len(s)
  BY LenProperties
<1>1. n \in Nat /\ i \in 0..n /\ i - 1 \in 0..n /\ n \in i..n
  BY LenProperties
<1>2. o[i] = Append(o[i - 1], s[i]) /\ s[i] \in T /\ o[i - 1] \in Seq(T)
  BY <1>1, OnlyStep, OnlyType, ElementOfSeq
<1>3. /\ Len(o[i]) <= Len(o[n])
      /\ \A k \in 1..Len(o[i]) : o[n][k] = o[i][k]
  <2>1. i \in 0..Len(s) /\ n \in i..Len(s)
    BY <1>1
  <2>2. Begins(o[i], o[n])
    BY <2>1, OnlyGrows
  <2> HIDE DEF o
  <2> QED BY <2>2 DEF Begins
<1>4. Len(o[n]) \in Nat
  BY <1>1, OnlyType
<1>5. \A j \in 1..(i - 1) : Len(o[j]) <= Len(o[i - 1]) /\ Len(o[j]) \in Nat
  <2> TAKE j \in 1..(i - 1)
  <2>1. j \in 0..n /\ i - 1 \in j..n
    BY <1>1
  <2>2. Len(o[j]) <= Len(o[i - 1])
    <3>1. Begins(o[j], o[i - 1])
      BY <1>1, <2>1, OnlyGrows
    <3> HIDE DEF o
    <3> QED BY <3>1 DEF Begins
  <2>3. Len(o[j]) \in 0..j
    BY <2>1, OnlyType, Zenon
  <2> QED BY <2>2, <2>3
<1> HIDE DEF o, T
<1>6. Len(o[i - 1]) \in Nat /\ Len(o[i]) = Len(o[i - 1]) + 1 /\ o[i][Len(o[i])] = s[i]
  BY <1>2, LenProperties
<1>7. Only(s, K) = o[n]
  BY DEF Only, o
<1>8. Len(o[i]) \in 1..Len(o[n]) /\ o[n][Len(o[i])] = s[i]
      /\ \A j \in 1..(i - 1) : Len(o[j]) < Len(o[i])
  <2>1. Len(o[i]) \in 1..Len(o[n]) /\ Len(o[i]) \in 1..Len(o[i])
    BY <1>3, <1>4, <1>6
  <2>2. o[n][Len(o[i])] = s[i]
    BY <1>3, <1>6, <2>1
  <2>3. \A j \in 1..(i - 1) : Len(o[j]) < Len(o[i])
    BY <1>5, <1>6
  <2> QED BY <2>1, <2>2, <2>3
<1> QED BY <1>6, <1>7, <1>8 DEF o

\* What n iterations passed on is there because of a member of K met then.
ComesFrom(s, K, n) ==
  \A k \in 1..Len(OnlyUpTo(s, K)[n]) :
     \E i \in 1..n : /\ s[i] \in K /\ Len(OnlyUpTo(s, K)[i]) = k
                     /\ OnlyUpTo(s, K)[n][k] = s[i]

\* Whatever has been passed on is there because of a member of K.
LEMMA OnlyFrom ==
  ASSUME NEW S, NEW s \in Seq(S), NEW K, NEW n \in 0..Len(s)
  PROVE  ComesFrom(s, K, n)
<1> SUFFICES ASSUME NEW k \in 1..Len(OnlyUpTo(s, K)[n])
             PROVE  \E i \in 1..n : /\ s[i] \in K /\ Len(OnlyUpTo(s, K)[i]) = k
                                    /\ OnlyUpTo(s, K)[n][k] = s[i]
  BY Zenon DEF ComesFrom
<1> DEFINE o == OnlyUpTo(s, K)
           Late == {m \in Nat : m \in 0..n /\ k <= Len(o[m])}
           T == S \cap K
<1>1. n \in Nat /\ n <= Len(s) /\ Len(s) \in Nat /\ o[0] = <<>>
      /\ \A m \in 0..n : o[m] \in Seq(T) /\ Len(o[m]) \in Nat
  <2>1. n \in Nat /\ n <= Len(s) /\ Len(s) \in Nat
    BY LenProperties
  <2>2. o[0] = <<>>
    BY <2>1, OnlyStep
  <2>3. \A m \in 0..n : o[m] \in Seq(T) /\ Len(o[m]) \in Nat
    <3> TAKE m \in 0..n
    <3>1. m \in 0..Len(s)
      BY <2>1
    <3>2. o[m] \in Seq(T) /\ Len(o[m]) \in 0..m
      BY <3>1, OnlyType
    <3> QED BY <3>2
  <2> QED BY <2>1, <2>2, <2>3
<1>2. k \in Nat /\ 1 <= k /\ n \in Late
  BY <1>1
<1>3. PICK m \in Late : \A j \in Late : m <= j
  <2>1. Late \in SUBSET Nat /\ Late # {}
    BY <1>2
  <2> HIDE DEF Late
  <2> QED BY <2>1, LeastExists
<1>4. m # 0
  <2>1. Len(o[0]) = 0
    BY <1>1
  <2> QED BY <1>2, <2>1
<1>5. m \in 1..n /\ m \in 1..Len(s) /\ m - 1 \in 0..n /\ m - 1 \in Nat /\ m - 1 < m
      /\ k <= Len(o[m])
  BY <1>1, <1>4
<1>6. m - 1 \notin Late
  <2> HIDE DEF Late
  <2> QED BY <1>3, <1>5
<1>7. Len(o[m - 1]) < k
  BY <1>1, <1>2, <1>5, <1>6
<1>8. o[m] = IF s[m] \in K THEN Append(o[m - 1], s[m]) ELSE o[m - 1]
  BY <1>1, <1>5, OnlyStep
<1>9. s[m] \in K /\ s[m] \in T
  <2>1. s[m] \in K
    BY <1>1, <1>2, <1>5, <1>7, <1>8
  <2>2. s[m] \in S
    BY <1>5, ElementOfSeq
  <2> QED BY <2>1, <2>2
<1>10. \A j \in 1..Len(o[m]) : o[n][j] = o[m][j]
  <2>1. m \in 0..Len(s) /\ n \in m..Len(s)
    BY <1>1, <1>5
  <2>2. Begins(o[m], o[n])
    BY <2>1, OnlyGrows
  <2> HIDE DEF o
  <2> QED BY <2>2 DEF Begins
<1> HIDE DEF o, T, Late
<1>11. Len(o[m]) = Len(o[m - 1]) + 1 /\ o[m][Len(o[m])] = s[m]
  <2>1. o[m] = Append(o[m - 1], s[m]) /\ o[m - 1] \in Seq(T)
    BY <1>1, <1>5, <1>8, <1>9
  <2> QED BY <1>9, <2>1, LenProperties
<1>12. Len(o[m]) = k
  BY <1>1, <1>2, <1>5, <1>7, <1>11
<1>13. o[n][k] = s[m]
  BY <1>2, <1>10, <1>11, <1>12
<1> QED BY <1>5, <1>9, <1>12, <1>13 DEF o

\* Nothing passes exactly if nothing is in K.
LEMMA OnlyNone ==
  ASSUME NEW S, NEW s \in Seq(S), NEW K
  PROVE  Only(s, K) = <<>> <=> \A i \in 1..Len(s) : s[i] \notin K
<1>1. Only(s, K) \in Seq(S \cap K) /\ Len(Only(s, K)) \in Nat /\ Len(s) \in Nat
  BY OnlySeq, LenProperties
<1>2. ASSUME Only(s, K) # <<>>
      PROVE  \E i \in 1..Len(s) : s[i] \in K
  <2>1. Len(Only(s, K)) # 0
    BY <1>1, <1>2, EmptySeq
  <2>2. 1 \in 1..Len(OnlyUpTo(s, K)[Len(s)]) /\ Len(s) \in 0..Len(s)
    BY <1>1, <2>1 DEF Only
  <2>3. ComesFrom(s, K, Len(s))
    BY <2>2, OnlyFrom
  <2> QED BY <2>2, <2>3 DEF ComesFrom
<1>3. ASSUME NEW i \in 1..Len(s), s[i] \in K
      PROVE  Only(s, K) # <<>>
  <2>1. Len(OnlyUpTo(s, K)[i]) \in 1..Len(Only(s, K))
    BY <1>3, OnlyPlace
  <2>2. Len(Only(s, K)) # 0
    BY <1>1, <2>1
  <2>3. Only(s, K) = <<>> => Len(Only(s, K)) = 0
    BY EmptySeq
  <2> QED BY <2>2, <2>3
<1> QED BY <1>2, <1>3

\* Everything passes if everything is in K.
LEMMA OnlyAll ==
  ASSUME NEW S, NEW s \in Seq(S), NEW K, \A i \in 1..Len(s) : s[i] \in K
  PROVE  Only(s, K) = s
<1> DEFINE o == OnlyUpTo(s, K)
           P == {m \in Nat : m <= Len(s) => Len(o[m]) = m}
<1>1. Len(s) \in Nat /\ o[0] = <<>> /\ Len(o[0]) = 0
  BY OnlyStep, LenProperties
<1>2. 0 \in P
  BY <1>1
<1>3. ASSUME NEW m \in P
      PROVE  m + 1 \in P
  <2> SUFFICES ASSUME m + 1 <= Len(s) PROVE Len(o[m + 1]) = m + 1
    OBVIOUS
  <2>1. m \in Nat /\ Len(o[m]) = m /\ m + 1 \in 1..Len(s) /\ (m + 1) - 1 = m
    BY <1>1
  <2>2. Len(o[m + 1]) = Len(o[(m + 1) - 1]) + 1
    BY <2>1, OnlyPlace
  <2> QED BY <2>1, <2>2
<1>4. \A m \in 0..Len(s) : Len(o[m]) = m
  <2>1. P \in SUBSET Nat
    OBVIOUS
  <2>2. \A m \in Nat : m \in P
    <3> HIDE DEF P
    <3> QED BY <1>2, <1>3, <2>1, AllNaturals
  <2> QED BY <1>1, <2>2
<1>5. Len(Only(s, K)) = Len(s) /\ Only(s, K) \in Seq(S)
  <2>1. Len(Only(s, K)) = Len(s)
    BY <1>1, <1>4 DEF Only
  <2>2. Only(s, K) \in Seq(S \cap K)
    BY OnlySeq
  <2> QED BY <2>1, <2>2
<1>6. \A i \in 1..Len(s) : Only(s, K)[i] = s[i]
  <2> TAKE i \in 1..Len(s)
  <2>1. Len(o[i]) = i
    BY <1>1, <1>4
  <2>2. Only(s, K)[Len(o[i])] = s[i]
    BY OnlyPlace
  <2> QED BY <2>1, <2>2
<1> QED BY <1>5, <1>6, SeqEqual

\* Of a list without repetition, what passes is without repetition.
LEMMA OnlyDistinct ==
  ASSUME NEW S, NEW s \in Seq(S), NEW K,
         \A i, j \in 1..Len(s) : s[i] = s[j] => i = j
  PROVE  \A a, b \in 1..Len(Only(s, K)) : Only(s, K)[a] = Only(s, K)[b] => a = b
<1> TAKE a, b \in 1..Len(Only(s, K))
<1> HAVE Only(s, K)[a] = Only(s, K)[b]
<1>1. Len(s) \in 0..Len(s)
  BY LenProperties
<1>2. ComesFrom(s, K, Len(s))
  BY <1>1, OnlyFrom
<1>3. Only(s, K) = OnlyUpTo(s, K)[Len(s)]
  BY DEF Only
<1>4. PICK i \in 1..Len(s) : Len(OnlyUpTo(s, K)[i]) = a /\ Only(s, K)[a] = s[i]
  BY <1>2, <1>3, Zenon DEF ComesFrom
<1>5. PICK j \in 1..Len(s) : Len(OnlyUpTo(s, K)[j]) = b /\ Only(s, K)[b] = s[j]
  BY <1>2, <1>3, Zenon DEF ComesFrom
<1>6. i = j
  BY <1>4, <1>5
<1> QED BY <1>4, <1>5, <1>6

-----------------------------------------------------------------------------
(* Division with rest, of products and by products.                        *)

\* What is between q and q + 1 times n has the quotient q.
LEMMA QuotientIs ==
  ASSUME NEW p \in Nat, NEW n \in Nat \ {0}, NEW q \in Nat, q * n <= p, p < (q + 1) * n
  PROVE  p \div n = q
<1> DEFINE d == p \div n
           r == p % n
<1>1. p = n * d + r /\ r \in 0..(n - 1) /\ d \in Nat
  OBVIOUS
<1> HIDE DEF d, r
<1>2. ASSUME d < q
      PROVE  FALSE
  <2>1. PICK e \in Nat : q = d + 1 + e
    <3>1. q - d - 1 \in Nat /\ q = d + 1 + (q - d - 1)
      BY <1>1, <1>2
    <3> QED BY <3>1
  <2>2. q * n = d * n + n + e * n /\ e * n \in Nat /\ d * n \in Nat
    BY <1>1, <2>1
  <2>3. n * d = d * n
    BY <1>1
  <2> QED BY <1>1, <2>2, <2>3
<1>3. ASSUME q < d
      PROVE  FALSE
  <2>1. PICK e \in Nat : d = q + 1 + e
    <3>1. d - q - 1 \in Nat /\ d = q + 1 + (d - q - 1)
      BY <1>1, <1>3
    <3> QED BY <3>1
  <2>2. n * d = (q + 1) * n + e * n /\ e * n \in Nat /\ (q + 1) * n \in Nat
    BY <1>1, <2>1
  <2> QED BY <1>1, <2>2
<1>4. d = q
  BY <1>1, <1>2, <1>3
<1> QED BY <1>4 DEF d

\* Scaling dividend and divisor scales neither quotient; multiples have no rest.
LEMMA ScaledDivision ==
  ASSUME NEW p \in Nat, NEW m \in Nat \ {0}, NEW h \in Nat \ {0}
  PROVE  /\ (p * h) \div (m * h) = p \div m
         /\ (p * h) \div h = p
         /\ (p * h) % h = 0
<1>1. (p * h) \div h = p
  <2>1. p * h \in Nat /\ p * h <= p * h /\ p * h < (p + 1) * h
    <3>1. (p + 1) * h = p * h + h /\ p * h \in Nat
      OBVIOUS
    <3> QED BY <3>1
  <2> QED BY <2>1, QuotientIs
<1>2. (p * h) % h = 0
  <2> DEFINE a == p * h
             r == a % h
  <2>1. a \in Nat /\ a = h * (a \div h) + r /\ r \in 0..(h - 1)
    OBVIOUS
  <2>2. h * (a \div h) = a
    BY <1>1
  <2> HIDE DEF a, r
  <2>3. r = 0
    BY <2>1, <2>2
  <2> QED BY <2>3 DEF a, r
<1>3. (p * h) \div (m * h) = p \div m
  <2> DEFINE q == p \div m
             r == p % m
  <2>1. p = m * q + r /\ r \in 0..(m - 1) /\ q \in Nat
    OBVIOUS
  <2> HIDE DEF q, r
  <2>2. p * h = (m * q) * h + r * h /\ (m * q) * h = q * (m * h)
    BY <2>1
  <2>3. r * h \in Nat /\ r * h < m * h
    <3>1. PICK e \in Nat : m = r + 1 + e
      <4>1. m - r - 1 \in Nat /\ m = r + 1 + (m - r - 1)
        BY <2>1
      <4> QED BY <4>1
    <3>2. m * h = r * h + h + e * h /\ e * h \in Nat /\ r * h \in Nat
      BY <2>1, <3>1
    <3> QED BY <3>2
  <2>4. (q + 1) * (m * h) = q * (m * h) + m * h /\ q * (m * h) \in Nat /\ m * h \in Nat \ {0}
        /\ p * h \in Nat
    <3> DEFINE n == m * h
    <3>1. n \in Nat \ {0}
      BY <2>3
    <3>2. p * h \in Nat
      OBVIOUS
    <3> HIDE DEF n
    <3>3. (q + 1) * n = q * n + n /\ q * n \in Nat
      BY <2>1, <3>1
    <3> QED BY <3>1, <3>2, <3>3 DEF n
  <2>5. q * (m * h) <= p * h /\ p * h < (q + 1) * (m * h)
    BY <2>2, <2>3, <2>4
  <2>6. (p * h) \div (m * h) = q
    BY <2>1, <2>4, <2>5, QuotientIs
  <2> QED BY <2>6 DEF q
<1> QED BY <1>1, <1>2, <1>3

\* Row a of m rows of n elements, element b: inside, and found again.
LEMMA RowMajor ==
  ASSUME NEW m \in Nat, NEW n \in Nat, NEW a \in Nat, NEW b \in Nat, a < m, b < n
  PROVE  /\ a * n + b \in Nat /\ a * n + b < m * n /\ m * n \in Nat
         /\ (a * n + b) \div n = a /\ (a * n + b) % n = b
<1>1. n \in Nat \ {0}
  OBVIOUS
<1>2. a * n \in Nat /\ (a + 1) * n = a * n + n
  BY <1>1
<1>3. m * n \in Nat /\ a * n + n <= m * n
  <2>1. PICK e \in Nat : m = a + 1 + e
    <3>1. m - a - 1 \in Nat /\ m = a + 1 + (m - a - 1)
      OBVIOUS
    <3> QED BY <3>1
  <2>2. m * n = (a + 1) * n + e * n /\ e * n \in Nat
    BY <1>1, <2>1
  <2> QED BY <1>2, <2>2
<1> DEFINE p == a * n + b
<1>4. p \in Nat /\ a * n <= p /\ p < (a + 1) * n /\ p < m * n
  <2> DEFINE x == a * n
             y == m * n
             z == (a + 1) * n
  <2>1. x \in Nat /\ z = x + n /\ y \in Nat /\ x + n <= y
    BY <1>2, <1>3
  <2> HIDE DEF x, y, z
  <2>2. x + b \in Nat /\ x <= x + b /\ x + b < z /\ x + b < y
    BY <2>1
  <2> QED BY <2>2 DEF x, y, z
<1>5. p \div n = a
  <2> HIDE DEF p
  <2> QED BY <1>1, <1>4, QuotientIs
<1>6. p = n * (p \div n) + (p % n) /\ p % n \in 0..(n - 1)
  <2> HIDE DEF p
  <2> QED BY <1>1, <1>4
<1>7. p % n = b
  <2> DEFINE x == n * a
             r == p % n
  <2>1. x = a * n /\ x \in Nat
    BY <1>1
  <2>2. p = x + b
    BY <2>1
  <2>3. p = x + r /\ r \in Nat
    <3> HIDE DEF p
    <3> QED BY <1>1, <1>5, <1>6
  <2> HIDE DEF p, x, r
  <2>4. r = b
    BY <2>1, <2>2, <2>3
  <2> QED BY <2>4 DEF r
<1> QED BY <1>3, <1>4, <1>5, <1>7

\* Each index into m rows of n elements is in one of the rows.
LEMMA RowOf ==
  ASSUME NEW m \in Nat, NEW n \in Nat, NEW p \in Nat, p < m * n
  PROVE  /\ n \in Nat \ {0} /\ p \div n \in Nat /\ p \div n < m
         /\ p % n \in Nat /\ p % n < n /\ p = (p \div n) * n + (p % n)
<1>1. n # 0
  <2> SUFFICES ASSUME n = 0 PROVE FALSE
    OBVIOUS
  <2>1. m * n = 0
    OBVIOUS
  <2> QED BY <2>1
<1> DEFINE q == p \div n
           r == p % n
<1>2. q \in Nat /\ r \in 0..(n - 1) /\ p = n * q + r
  BY <1>1
<1> HIDE DEF q, r
<1>3. n * q = q * n /\ q * n \in Nat
  BY <1>2
<1>4. q < m
  <2> SUFFICES ASSUME m <= q PROVE FALSE
    BY <1>2
  <2>1. PICK e \in Nat : q = m + e
    <3>1. q - m \in Nat /\ q = m + (q - m)
      BY <1>2
    <3> QED BY <3>1
  <2>2. q * n = m * n + e * n /\ e * n \in Nat /\ m * n \in Nat
    BY <2>1
  <2> QED BY <1>2, <1>3, <2>2
<1>5. r \in Nat /\ r < n
  BY <1>1, <1>2
<1>6. p = q * n + r
  BY <1>2, <1>3
<1> QED BY <1>1, <1>2, <1>4, <1>5, <1>6 DEF q, r

\* Dividing twice.
LEMMA DividedTwice ==
  ASSUME NEW p \in Nat, NEW m \in Nat \ {0}, NEW n \in Nat \ {0}
  PROVE  (p \div m) \div n = p \div (n * m)
<1> DEFINE a == p \div m
           r == p % m
           q == a \div n
           u == a % n
<1>1. a \in Nat /\ r \in 0..(m - 1) /\ p = m * a + r
  OBVIOUS
<1>2. q \in Nat /\ u \in 0..(n - 1) /\ a = n * q + u
  <2> HIDE DEF a
  <2> QED BY <1>1
<1> HIDE DEF a, r, q, u
<1>3. u * m + r \in Nat /\ u * m + r < n * m /\ n * m \in Nat
  <2>1. u \in Nat /\ u < n /\ r \in Nat /\ r < m
    BY <1>1, <1>2
  <2> QED BY <2>1, RowMajor
<1>4. p = q * (n * m) + (u * m + r)
  <2>1. m * a = q * (n * m) + u * m
    <3>1. m * a = (n * q) * m + u * m
      BY <1>1, <1>2
    <3>2. (n * q) * m = q * (n * m)
      BY <1>2
    <3> QED BY <3>1, <3>2
  <2> DEFINE x == q * (n * m)
             y == u * m
             z == m * a
  <2>2. x \in Nat /\ y \in Nat /\ z = x + y /\ p = z + r /\ r \in Nat
    <3>1. x \in Nat
      <4>1. \A i, j \in Nat : i * j \in Nat
        OBVIOUS
      <4> QED BY <1>2, <1>3, <4>1
    <3> QED BY <1>1, <1>2, <2>1, <3>1
  <2> HIDE DEF x, y, z
  <2>3. p = x + (y + r)
    BY <2>2
  <2> QED BY <2>3 DEF x, y
<1>5. p \div (n * m) = q
  <2> DEFINE w == n * m
             v == u * m + r
  <2>1. v \in Nat /\ w \in Nat /\ v < w /\ p = q * w + v
    BY <1>3, <1>4
  <2> HIDE DEF w, v
  <2>2. q < q + 1 /\ q + 1 \in Nat
    BY <1>2
  <2>3. (q * w + v) \div w = q
    BY <1>2, <2>1, <2>2, RowMajor
  <2> QED BY <2>1, <2>3 DEF w
<1> QED BY <1>5 DEF a, q

\* Tiling the heads of K groups of R: the p-th in tiled order.
LEMMA Tiled ==
  ASSUME NEW K \in Nat \ {0}, NEW R \in Nat, NEW p \in Nat, p < K * R
  PROVE  /\ (p % K) * R + (p \div K) \in Nat /\ (p % K) * R + (p \div K) < K * R
         /\ p % K \in Nat /\ p % K < K /\ p \div K \in Nat /\ p \div K < R
<1>1. p < R * K
  BY K * R = R * K
<1>2. p \div K \in Nat /\ p \div K < R /\ p % K \in Nat /\ p % K < K
  BY <1>1, RowOf
<1> QED BY <1>2, RowMajor

\* Each head is one in tiled order.
LEMMA Untiled ==
  ASSUME NEW K \in Nat \ {0}, NEW R \in Nat, NEW h \in Nat, h < K * R
  PROVE  \E p \in Nat : p < K * R /\ (p % K) * R + (p \div K) = h
<1> DEFINE a == h \div R
           b == h % R
           p == b * K + a
<1>1. /\ a \in Nat /\ a < K /\ b \in Nat /\ b < R /\ h = a * R + b
  BY RowOf
<1> HIDE DEF a, b
<1>2. p \in Nat /\ p < R * K /\ p \div K = b /\ p % K = a
  BY <1>1, RowMajor
<1>3. R * K = K * R
  OBVIOUS
<1> HIDE DEF p
<1>4. (p % K) * R + (p \div K) = h
  BY <1>1, <1>2
<1> QED BY <1>2, <1>3, <1>4

\* There are n indices below n.
LEMMA CountBelow ==
  ASSUME NEW n \in Nat
  PROVE  Cardinality(0..(n - 1)) = n /\ IsFiniteSet(0..(n - 1))
<1>1. n - 1 \in Int
  OBVIOUS
<1>2. /\ IsFiniteSet(0..(n - 1))
      /\ Cardinality(0..(n - 1)) = IF 0 > n - 1 THEN 0 ELSE (n - 1) - 0 + 1
  BY <1>1, FS_Interval
<1> QED BY <1>2

-----------------------------------------------------------------------------
(* The head orders and the assertions of emit_quant (Quant).               *)

\* An array of n elements.
LEMMA SizeIs ==
  ASSUME NEW a, NEW n \in Nat, DOMAIN a = Indices(n)
  PROVE  Size(a) = n
BY CountBelow DEF Size, Indices

\* Element x of row r of an array with m rows of n elements.
LEMMA InRow ==
  ASSUME NEW m \in Nat, NEW n \in Nat, NEW r \in Indices(m), NEW x \in Indices(n)
  PROVE  /\ r * n + x \in Indices(m * n) /\ m * n \in Nat
         /\ (r * n + x) \div n = r /\ (r * n + x) % n = x
<1>1. r \in Nat /\ r < m /\ x \in Nat /\ x < n
  BY DEF Indices
<1>2. /\ r * n + x \in Nat /\ r * n + x < m * n /\ m * n \in Nat
      /\ (r * n + x) \div n = r /\ (r * n + x) % n = x
  BY <1>1, RowMajor
<1> DEFINE p == r * n + x
           l == m * n
<1>3. p \in Indices(l)
  <2> HIDE DEF p, l
  <2> QED BY <1>2 DEF Indices, p, l
<1> QED BY <1>2, <1>3

\* What v_reorder_perm has asserted of the heads it gets, and their sizes.
Divided(t) ==
  /\ t.num_k \in Nat \ {0} /\ t.num_v \in Nat /\ t.num_v % t.num_k = 0
  /\ t.head_k \in Nat /\ t.head_v \in Nat \ {0}

\* The head that is p-th in tiled order, of K groups of heads, V in all.
HeadAt(K, V, p) == (p % K) * (V \div K) + (p \div K)

\* The element that is i-th in tiled order, the heads being of d elements.
ElementAt(K, V, d, i) == HeadAt(K, V, i \div d) * d + (i % d)

\* The p-th head in tiled order is one of the heads.
LEMMA HeadInRange ==
  ASSUME NEW K \in Nat \ {0}, NEW V \in Nat, V % K = 0, NEW p \in Nat, p < V
  PROVE  HeadAt(K, V, p) \in Nat /\ HeadAt(K, V, p) < V
<1> DEFINE R == V \div K
<1>1. R \in Nat /\ V = K * R
  OBVIOUS
<1>2. HeadAt(K, V, p) = (p % K) * R + (p \div K)
  BY DEF HeadAt
<1> HIDE DEF R
<1>3. p < K * R
  BY <1>1
<1>4. (p % K) * R + (p \div K) \in Nat /\ (p % K) * R + (p \div K) < K * R
  BY <1>1, <1>3, Tiled
<1> QED BY <1>1, <1>2, <1>4

\* Each of the heads has its place in tiled order.
LEMMA HeadReached ==
  ASSUME NEW K \in Nat \ {0}, NEW V \in Nat, V % K = 0, NEW h \in Nat, h < V
  PROVE  \E p \in Nat : p < V /\ HeadAt(K, V, p) = h
<1> DEFINE R == V \div K
<1>1. R \in Nat /\ V = K * R
  OBVIOUS
<1>2. \A p : HeadAt(K, V, p) = (p % K) * R + (p \div K)
  BY DEF HeadAt
<1> HIDE DEF R
<1>3. PICK p \in Nat : p < K * R /\ (p % K) * R + (p \div K) = h
  BY <1>1, Untiled
<1> QED BY <1>1, <1>2, <1>3

\* The code's arithmetic on elements is that on heads, and stays inside.
LEMMA ReorderIs ==
  ASSUME NEW K \in Nat \ {0}, NEW V \in Nat, V % K = 0, NEW d \in Nat \ {0}
  PROVE  /\ V * d \in Nat
         /\ DOMAIN v_reorder_perm(K, V, d) = Indices(V * d)
         /\ \A i \in Indices(V * d) :
              /\ v_reorder_perm(K, V, d)[i] = ElementAt(K, V, d, i)
              /\ ElementAt(K, V, d, i) \in Indices(V * d)
<1>1. \A i, j \in Nat : i * j \in Nat
  OBVIOUS
<1>2. V * d \in Nat
  <2>1. V \in Nat /\ d \in Nat
    OBVIOUS
  <2> QED BY <1>1, <2>1, Zenon
<1>3. DOMAIN v_reorder_perm(K, V, d) = Indices(V * d)
  BY Zenon DEF v_reorder_perm
<1>5. \A i \in Nat : (i \div d) \div K = i \div (K * d)
  <2> TAKE i \in Nat
  <2> QED BY DividedTwice, Zenon
<1>4. ASSUME NEW i \in Indices(V * d)
      PROVE  /\ v_reorder_perm(K, V, d)[i] = ElementAt(K, V, d, i)
             /\ ElementAt(K, V, d, i) \in Indices(V * d)
  <2>1. i \in Nat /\ i < V * d
    BY <1>2 DEF Indices
  <2>2. i \div d \in Nat /\ i \div d < V /\ i % d \in Nat /\ i % d < d
    BY <2>1, RowOf
  <2>3. (i \div d) \div K = i \div (K * d)
    BY <1>5, <2>1, Zenon
  <2>4. v_reorder_perm(K, V, d)[i]
          = (((i \div d) % K) * (V \div K) + (i \div (K * d))) * d + (i % d)
    BY DEF v_reorder_perm
  <2>5. ElementAt(K, V, d, i)
          = (((i \div d) % K) * (V \div K) + ((i \div d) \div K)) * d + (i % d)
    BY DEF ElementAt, HeadAt
  <2>7. HeadAt(K, V, i \div d) \in Nat /\ HeadAt(K, V, i \div d) < V
    BY <2>2, HeadInRange
  <2>8. ElementAt(K, V, d, i) \in Indices(V * d)
    <3> DEFINE h == HeadAt(K, V, i \div d)
               e == i % d
    <3>1. h \in Indices(V) /\ e \in Indices(d) /\ ElementAt(K, V, d, i) = h * d + e
      <4>1. ElementAt(K, V, d, i) = h * d + e
        BY DEF ElementAt
      <4> HIDE DEF h, e
      <4>2. h \in Nat /\ h < V /\ e \in Nat /\ e < d
        BY <2>2, <2>7 DEF h, e
      <4> QED BY <4>1, <4>2 DEF Indices
    <3> HIDE DEF h, e
    <3> QED BY <3>1, InRow
  <2> QED BY <2>3, <2>4, <2>5, <2>8
<1> QED BY <1>2, <1>3, <1>4

\* Each element is moved somewhere.
LEMMA ReorderReaches ==
  ASSUME NEW K \in Nat \ {0}, NEW V \in Nat, V % K = 0, NEW d \in Nat \ {0},
         NEW x \in Indices(V * d)
  PROVE  \E i \in Indices(V * d) : v_reorder_perm(K, V, d)[i] = x
<1>1. V * d \in Nat
  BY ReorderIs
<1>2. x \in Nat /\ x < V * d
  BY <1>1 DEF Indices
<1>3. x \div d \in Nat /\ x \div d < V /\ x % d \in Nat /\ x % d < d
      /\ x = (x \div d) * d + (x % d)
  BY <1>2, RowOf
<1>4. PICK p \in Nat : p < V /\ HeadAt(K, V, p) = x \div d
  BY <1>3, HeadReached
<1> DEFINE e == x % d
           i == p * d + e
<1>5. i \in Indices(V * d) /\ i \div d = p /\ i % d = e
  <2> HIDE DEF e
  <2>1. p \in Indices(V) /\ e \in Indices(d)
    BY <1>3, <1>4 DEF Indices, e
  <2> QED BY <2>1, InRow
<1> HIDE DEF i
<1>6. ElementAt(K, V, d, i) = x
  BY <1>3, <1>4, <1>5 DEF ElementAt
<1>7. v_reorder_perm(K, V, d)[i] = x
  BY <1>5, <1>6, ReorderIs
<1> QED BY <1>5, <1>7

\* The elements of the V heads, in the checkpoint's order and in the tiled one.
Elements(t) == t.num_v * t.head_v
Origins(t, i) == ElementAt(t.num_k, t.num_v, t.head_v, i)

\* perm_v moves the elements of the V heads as the tiled order says.
LEMMA VPermIs ==
  ASSUME NEW t, Divided(t)
  PROVE  /\ Elements(t) \in Nat
         /\ DOMAIN perm_v(t) = Indices(Elements(t))
         /\ \A i \in Indices(Elements(t)) :
              /\ perm_v(t)[i] = Origins(t, i)
              /\ Origins(t, i) \in Indices(Elements(t))
<1>1. /\ t.num_k \in Nat \ {0} /\ t.num_v \in Nat /\ t.num_v % t.num_k = 0
      /\ t.head_v \in Nat \ {0}
  BY DEF Divided
<1> DEFINE K == t.num_k
           V == t.num_v
           d == t.head_v
<1>2. /\ K \in Nat \ {0} /\ V \in Nat /\ V % K = 0 /\ d \in Nat \ {0}
      /\ Elements(t) = V * d /\ perm_v(t) = v_reorder_perm(K, V, d)
      /\ \A i : Origins(t, i) = ElementAt(K, V, d, i)
  BY <1>1 DEF Elements, Origins, perm_v
<1> HIDE DEF K, V, d
<1> QED BY <1>2, ReorderIs

\* perm_v leaves no element out.
LEMMA VPermReaches ==
  ASSUME NEW t, Divided(t), NEW x \in Indices(Elements(t))
  PROVE  \E i \in Indices(Elements(t)) : perm_v(t)[i] = x
<1>1. /\ t.num_k \in Nat \ {0} /\ t.num_v \in Nat /\ t.num_v % t.num_k = 0
      /\ t.head_v \in Nat \ {0}
  BY DEF Divided
<1> DEFINE K == t.num_k
           V == t.num_v
           d == t.head_v
<1>2. /\ K \in Nat \ {0} /\ V \in Nat /\ V % K = 0 /\ d \in Nat \ {0}
      /\ Elements(t) = V * d /\ perm_v(t) = v_reorder_perm(K, V, d)
  BY <1>1 DEF Elements, perm_v
<1> HIDE DEF K, V, d
<1>3. x \in Indices(V * d)
  BY <1>2
<1>4. \E i \in Indices(V * d) : v_reorder_perm(K, V, d)[i] = x
  BY <1>2, <1>3, ReorderReaches
<1> QED BY <1>2, <1>4

\* Where output n of the fused projection comes from.
FusedOrigin(t, n) ==
  IF n < qk_rows(t) THEN n ELSE qk_rows(t) + Origins(t, n - qk_rows(t))

\* The fused projection keeps its queries and keys and has its values reordered.
LEMMA FusedPermIs ==
  ASSUME NEW t, Divided(t)
  PROVE  /\ qk_rows(t) \in Nat /\ qk_rows(t) = 2 * t.num_k * t.head_k
         /\ DOMAIN full_perm_qkv(t) = Indices(qk_rows(t) + Elements(t))
         /\ \A n \in Indices(qk_rows(t) + Elements(t)) :
              /\ full_perm_qkv(t)[n] = FusedOrigin(t, n)
              /\ FusedOrigin(t, n) \in Indices(qk_rows(t) + Elements(t))
<1>1. qk_rows(t) \in Nat /\ qk_rows(t) = 2 * t.num_k * t.head_k
  <2>1. t.num_k \in Nat /\ t.head_k \in Nat
    BY DEF Divided
  <2>2. \A i, j \in Nat : i * j * 2 \in Nat /\ i * j * 2 = 2 * j * i
    OBVIOUS
  <2> QED BY <2>1, <2>2 DEF qk_rows
<1>2. Elements(t) \in Nat
  BY VPermIs
<1>3. DOMAIN full_perm_qkv(t) = Indices(qk_rows(t) + Elements(t))
  BY DEF full_perm_qkv, Elements
<1>4. ASSUME NEW n \in Indices(qk_rows(t) + Elements(t))
      PROVE  /\ full_perm_qkv(t)[n] = FusedOrigin(t, n)
             /\ FusedOrigin(t, n) \in Indices(qk_rows(t) + Elements(t))
  <2>1. full_perm_qkv(t)[n]
          = IF n < qk_rows(t) THEN n
            ELSE qk_rows(t) + perm_v(t)[n - qk_rows(t)]
    BY DEF full_perm_qkv, Elements
  <2>2. CASE n < qk_rows(t)
    BY <2>1, <2>2 DEF FusedOrigin
  <2>3. CASE ~(n < qk_rows(t))
    <3>1. n - qk_rows(t) \in Indices(Elements(t))
      BY <1>1, <1>2, <2>3 DEF Indices
    <3>2. /\ perm_v(t)[n - qk_rows(t)] = Origins(t, n - qk_rows(t))
          /\ Origins(t, n - qk_rows(t)) \in Indices(Elements(t))
      BY <3>1, VPermIs
    <3>3. qk_rows(t) + Origins(t, n - qk_rows(t))
            \in Indices(qk_rows(t) + Elements(t))
      BY <1>1, <1>2, <3>2 DEF Indices
    <3> QED BY <2>1, <2>3, <3>2, <3>3 DEF FusedOrigin
  <2> QED BY <2>2, <2>3
<1> QED BY <1>1, <1>3, <1>4

\* Chunks of 16 stay together if heads are made of such, or are not moved at all.
LEMMA ChunksStay ==
  ASSUME NEW t, Divided(t), Elements(t) % 16 = 0,
         t.head_v % 16 = 0 \/ t.num_k = 1 \/ t.num_k = t.num_v
  PROVE  aligned_chunks(perm_v(t))
<1> DEFINE K == t.num_k
           V == t.num_v
           d == t.head_v
           N == Elements(t)
           perm == perm_v(t)
<1>1. /\ K \in Nat \ {0} /\ V \in Nat /\ d \in Nat \ {0} /\ V % K = 0
      /\ N \in Nat /\ N = V * d /\ N % 16 = 0 /\ DOMAIN perm = Indices(N)
      /\ \A i \in Indices(N) : perm[i] = ElementAt(K, V, d, i)
  BY VPermIs DEF Divided, Elements, Origins
<1>2. Size(perm) = N
  <2> HIDE DEF perm, N
  <2> QED BY <1>1, SizeIs
<1> HIDE DEF perm, N, K, V, d
<1>3. ASSUME NEW i \in Indices(N)
      PROVE  /\ perm[i - (i % 16)] % 16 = 0
             /\ perm[i] = perm[i - (i % 16)] + (i % 16)
  <2> DEFINE e == i % 16
             f == i - (i % 16)
  <2>1. /\ i \in Nat /\ i < N /\ e \in 0..15 /\ f \in Nat /\ f % 16 = 0 /\ i = f + e
        /\ f \in Indices(N)
    BY <1>1 DEF Indices
  <2> HIDE DEF e, f
  <2>2. perm[i] = HeadAt(K, V, i \div d) * d + (i % d)
        /\ perm[f] = HeadAt(K, V, f \div d) * d + (f % d)
    BY <1>1, <2>1 DEF ElementAt
  <2>3. /\ i \div d \in Nat /\ i \div d < V /\ i % d \in Nat /\ i % d < d
        /\ i = (i \div d) * d + (i % d)
        /\ f \div d \in Nat /\ f \div d < V /\ f % d \in Nat /\ f % d < d
        /\ f = (f \div d) * d + (f % d)
    <3>1. i \in Nat /\ i < V * d /\ f \in Nat /\ f < V * d
      BY <1>1, <2>1 DEF Indices
    <3>2. V \in Nat /\ d \in Nat
      BY <1>1
    <3> QED BY <3>1, <3>2, RowOf
  <2>4. CASE K = 1 \/ K = V
    <3>1. \A p \in Nat : p < V => HeadAt(K, V, p) = p
      <4> TAKE p \in Nat
      <4> HAVE p < V
      <4>1. CASE K = 1
        <5>1. p % 1 = 0 /\ p \div 1 = p /\ V \div 1 = V
          BY <1>1
        <5>2. 0 * V + p = p
          BY <1>1
        <5> QED BY <4>1, <5>1, <5>2 DEF HeadAt
      <4>2. CASE K = V
        <5>1. p % V = p /\ p \div V = 0 /\ V \div V = 1
          BY <1>1, <4>2
        <5>2. p * 1 + 0 = p
          OBVIOUS
        <5> QED BY <4>2, <5>1, <5>2 DEF HeadAt
      <4> QED BY <2>4, <4>1, <4>2
    <3>2. perm[i] = i /\ perm[f] = f
      BY <2>2, <2>3, <3>1
    <3> QED BY <2>1, <3>2 DEF e, f
  <2>5. CASE d % 16 = 0
    <3> DEFINE q == i \div d
               r == i % d
    <3>1. q \in Nat /\ q < V /\ r \in Nat /\ r < d /\ i = q * d + r
      BY <2>3
    <3> HIDE DEF q, r
    <3>2. PICK c \in Nat : d = 16 * c
      <4>1. d = 16 * (d \div 16) /\ d \div 16 \in Nat
        BY <1>1, <2>5
      <4> QED BY <4>1
    <3>3. q * d \in Nat /\ q * d = 16 * (q * c) /\ q * c \in Nat
      BY <1>1, <3>1, <3>2
    <3>4. r >= e /\ (r - e) % 16 = 0 /\ r - e \in Nat /\ r - e < d
      <4> DEFINE a == q * c
      <4> HIDE DEF a
      <4>1. a \in Nat /\ i = 16 * a + r
        BY <3>1, <3>3 DEF a
      <4>2. PICK b \in Nat : f = 16 * b
        <5>1. f = 16 * (f \div 16) /\ f \div 16 \in Nat
          BY <2>1
        <5> QED BY <5>1
      <4>3. 16 * a + r = 16 * b + e
        BY <2>1, <4>1, <4>2
      <4>4. a <= b
        BY <2>1, <3>1, <4>1, <4>3
      <4>5. r = 16 * (b - a) + e /\ b - a \in Nat
        BY <2>1, <3>1, <4>1, <4>3, <4>4
      <4>6. r - e = 16 * (b - a)
        BY <2>1, <4>5
      <4> QED BY <2>1, <3>1, <4>5, <4>6, <1>1
    <3>5. f \div d = q /\ f % d = r - e
      <4>1. f = q * d + (r - e)
        BY <2>1, <3>1, <3>3, <3>4
      <4> DEFINE s == r - e
      <4>2. s \in Nat /\ s < d /\ q < V
        BY <3>1, <3>4
      <4> HIDE DEF s
      <4>3. (q * d + s) \div d = q /\ (q * d + s) % d = s
        <5>1. V \in Nat /\ d \in Nat /\ q \in Nat
          BY <1>1, <3>1
        <5> QED BY <4>2, <5>1, RowMajor
      <4> QED BY <4>1, <4>3 DEF s
    <3>6. HeadAt(K, V, q) \in Nat
      BY <1>1, <3>1, HeadInRange
    <3> DEFINE h == HeadAt(K, V, q)
    <3>7. perm[i] = h * d + r /\ perm[f] = h * d + (r - e)
      BY <2>2, <3>5 DEF q, r
    <3>8. h \in Nat
      BY <3>6
    <3> HIDE DEF h
    <3>9. h * d = 16 * (h * c) /\ h * c \in Nat
      BY <3>2, <3>8
    <3> DEFINE y == h * c
    <3>10. y \in Nat /\ perm[i] = 16 * y + r /\ perm[f] = 16 * y + (r - e)
      BY <3>7, <3>9
    <3> HIDE DEF y
    <3>11. perm[f] % 16 = 0
      BY <2>1, <3>1, <3>4, <3>10
    <3>12. perm[i] = perm[f] + e
      BY <2>1, <3>1, <3>4, <3>10
    <3> QED BY <3>11, <3>12 DEF e, f
  <2>6. t.head_v = d /\ t.num_k = K /\ t.num_v = V
    BY DEF d, K, V
  <2> QED BY <2>4, <2>5, <2>6
<1>4. aligned_chunks(perm)
  BY <1>1, <1>2, <1>3 DEF aligned_chunks, AR_BLOCK
<1> QED BY <1>4 DEF perm

-----------------------------------------------------------------------------
(* What emit_quant asserts.                                                *)

\* The kinds whose rows are gathered.
VRows == {"QuantVRowQkv", "QuantVRowZ"}

\* What has been asserted when a tensor is converted, kind by kind.
Asserted(kind, topo, q, s) ==
  /\ Size(q.words) = q.shape[1] * OutF(q)
  /\ kind # "QuantVCol" => Q4Packs(q, s)
  /\ kind \in VRows => Size(row_perm(kind, topo)) = OutF(q)
  /\ kind = "QuantVCol" =>
       /\ topo.num_v * topo.head_v = InF(q)
       /\ InF(q) % AR_BLOCK = 0
       /\ OutF(q) > 0 =>
            \A b \in Indices(InF(q) \div AR_BLOCK) :
               (source_group(perm_v(topo), b) + 1) * OutF(q) <= Size(s.elems)

\* Converts, read as one conjunction.
LEMMA ConvertsIs ==
  ASSUME NEW kind \in QuantKinds, NEW topo, NEW q, NEW s
  PROVE  Converts(kind, topo, q, s) <=> Asserted(kind, topo, q, s)
<1> DEFINE A == Size(q.words) = q.shape[1] * OutF(q)
           B == Q4Packs(q, s)
           C == Size(row_perm(kind, topo)) = OutF(q)
           D == /\ topo.num_v * topo.head_v = InF(q)
                /\ InF(q) % AR_BLOCK = 0
                /\ OutF(q) > 0 =>
                     \A b \in Indices(InF(q) \div AR_BLOCK) :
                        (source_group(perm_v(topo), b) + 1) * OutF(q) <= Size(s.elems)
<1>1. Converts(kind, topo, q, s)
        <=> A /\ CASE kind = "QuantTrunk" -> B
                   [] kind \in {"QuantVRowQkv", "QuantVRowZ"} -> C /\ B
                   [] kind = "QuantVCol" -> D
  BY Zenon DEF Converts
<1>2. Asserted(kind, topo, q, s)
        <=> /\ A /\ (kind # "QuantVCol" => B) /\ (kind \in VRows => C)
            /\ (kind = "QuantVCol" => D)
  BY Zenon DEF Asserted
<1> HIDE DEF A, B, C, D
<1>3. CASE kind = "QuantTrunk"
  BY <1>1, <1>2, <1>3 DEF VRows
<1>4. CASE kind \in VRows
  BY <1>1, <1>2, <1>4 DEF VRows
<1>5. CASE kind = "QuantVCol"
  BY <1>1, <1>2, <1>5 DEF VRows
<1> QED BY <1>3, <1>4, <1>5 DEF QuantKinds, VRows

\* The groups of 128 suffice for the blocks of 32 just if no group is partial.
LEMMA WholeGroups ==
  ASSUME NEW in_f \in Nat
  PROVE  in_f % 128 = 0
           <=> /\ in_f % 32 = 0
               /\ \A b \in Indices(in_f \div 32) : b \div 4 < in_f \div 128
<1> DEFINE nb == in_f \div 32
           g == in_f \div 128
<1>1. nb \in Nat /\ g \in Nat /\ in_f - 32 * nb \in 0..31 /\ in_f - 128 * g \in 0..127
  OBVIOUS
<1>2. ASSUME in_f % 128 = 0
      PROVE  in_f % 32 = 0 /\ \A b \in Indices(nb) : b \div 4 < g
  <2>1. in_f = 128 * g
    BY <1>2
  <2>2. in_f % 32 = 0 /\ nb = 4 * g
    BY <2>1
  <2> HIDE DEF nb, g
  <2>3. \A b \in Indices(nb) : b \div 4 < g
    BY <1>1, <2>2 DEF Indices
  <2> QED BY <2>2, <2>3
<1>3. ASSUME in_f % 32 = 0, \A b \in Indices(nb) : b \div 4 < g
      PROVE  in_f % 128 = 0
  <2>1. in_f = 32 * nb
    BY <1>3
  <2>2. nb <= 4 * g
    <3> HIDE DEF nb, g
    <3>1. CASE nb = 0
      BY <1>1, <3>1
    <3>2. CASE nb # 0
      <4>1. nb - 1 \in Indices(nb)
        BY <1>1, <3>2 DEF Indices
      <4>2. (nb - 1) \div 4 < g
        BY <1>3, <4>1
      <4> QED BY <1>1, <3>2, <4>2
    <3> QED BY <3>1, <3>2
  <2> HIDE DEF nb, g
  <2>3. in_f = 128 * g
    BY <1>1, <2>1, <2>2
  <2> QED BY <1>1, <2>3
<1> QED BY <1>2, <1>3

\* What fits the heads, in whole groups and with slices of the shapes' lengths, passes
\* every assertion.
LEMMA FittingConverts ==
  ASSUME NEW kind \in QuantKinds, NEW t, Divided(t), NEW q, NEW s,
         InF(q) \in Nat, OutF(q) \in Nat, InF(q) % 128 = 0,
         Size(q.words) = q.shape[1] * OutF(q),
         Size(s.elems) = NGroups(q) * OutF(q),
         kind = "QuantVRowQkv" => OutF(q) = qk_rows(t) + Elements(t),
         kind = "QuantVRowZ" => OutF(q) = Elements(t),
         kind = "QuantVCol" => InF(q) = Elements(t)
  PROVE  Converts(kind, t, q, s)
<1> DEFINE I == InF(q)
           O == OutF(q)
           G == I \div 128
<1>1. NGroups(q) = G /\ G \in Nat /\ I = 128 * G /\ Elements(t) \in Nat /\ O \in Nat /\ I \in Nat
  BY VPermIs DEF NGroups, GROUP_SIZE
<1> HIDE DEF I, O
<1>2. Q4Packs(q, s)
  <2>1. I % 32 = 0 /\ \A b \in Indices(I \div 32) : b \div 4 < I \div 128
    <3>1. I % 128 = 0
      BY DEF I
    <3> QED BY <1>1, <3>1, WholeGroups
  <2>2. GROUP_SIZE \div BLOCK = 4 /\ BLOCK = 32
    BY DEF GROUP_SIZE, BLOCK
  <2> QED BY <1>1, <2>1, <2>2 DEF Q4Packs, I
<1>3. kind \in VRows => Size(row_perm(kind, t)) = O
  <2>1. CASE kind = "QuantVRowQkv"
    <3>1. qk_rows(t) + Elements(t) \in Nat
          /\ DOMAIN full_perm_qkv(t) = Indices(qk_rows(t) + Elements(t))
      BY <1>1, FusedPermIs
    <3>2. row_perm(kind, t) = full_perm_qkv(t) /\ O = qk_rows(t) + Elements(t)
      BY <2>1 DEF row_perm, O
    <3> QED BY <3>1, <3>2, SizeIs
  <2>2. CASE kind = "QuantVRowZ"
    <3>1. row_perm(kind, t) = perm_v(t) /\ O = Elements(t)
      BY <2>2 DEF row_perm, O
    <3>2. DOMAIN perm_v(t) = Indices(Elements(t))
      BY VPermIs
    <3> QED BY <1>1, <3>1, <3>2, SizeIs
  <2> QED BY <2>1, <2>2 DEF VRows
<1>4. ASSUME kind = "QuantVCol", NEW b \in Indices(I \div 16)
      PROVE  (source_group(perm_v(t), b) + 1) * O <= Size(s.elems)
  <2>1. b * 16 \in Indices(I)
    <3>1. b \in Nat /\ b < I \div 16
      BY <1>1 DEF Indices
    <3> QED BY <1>1, <3>1 DEF Indices
  <2>2. PICK x \in Indices(I) : x = perm_v(t)[b * 16]
    <3>1. I = Elements(t)
      BY <1>4 DEF I
    <3>2. perm_v(t)[b * 16] \in Indices(I)
      BY <2>1, <3>1, VPermIs
    <3> QED BY <3>2
  <2>3. source_group(perm_v(t), b) = (x \div 16) \div 8
    BY <2>2 DEF source_group, AR_BLOCK, GROUP_SIZE
  <2>4. x \in Nat /\ x < I
    BY <1>1 DEF Indices
  <2> DEFINE g == (x \div 16) \div 8
  <2>5. g \in Nat /\ g < G
    <3> HIDE DEF G
    <3> QED BY <1>1, <2>4
  <2> HIDE DEF g, G
  <2>6. PICK e \in Nat : G = g + 1 + e
    <3>1. G - g - 1 \in Nat /\ G = g + 1 + (G - g - 1)
      BY <1>1, <2>5
    <3> QED BY <3>1
  <2>7. G * O = (g + 1) * O + e * O /\ e * O \in Nat /\ (g + 1) * O \in Nat
    BY <1>1, <2>5, <2>6
  <2>8. Size(s.elems) = G * O
    BY <1>1 DEF O
  <2>9. (g + 1) * O <= G * O
    <3> DEFINE u == (g + 1) * O
               v == e * O
               w == G * O
    <3>1. w = u + v /\ u \in Nat /\ v \in Nat
      BY <2>7
    <3> HIDE DEF u, v, w
    <3>2. u <= w
      BY <3>1
    <3> QED BY <3>2 DEF u, w
  <2> QED BY <2>3, <2>8, <2>9 DEF g
<1>5. kind = "QuantVCol" => I % 16 = 0 /\ t.num_v * t.head_v = I
  <2>1. I % 16 = 0
    BY <1>1
  <2> QED BY <2>1 DEF Elements, I
<1>6. Asserted(kind, t, q, s)
  BY <1>2, <1>3, <1>4, <1>5 DEF Asserted, AR_BLOCK, I, O
<1> QED BY <1>6, ConvertsIs
=============================================================================
