-------------------------- MODULE EmitQuantProofs --------------------------
(***************************************************************************)
(* Proofs about one call of emit_quant, for every tensor and every         *)
(* topology of heads.  What comes out is read off the blocks element by    *)
(* element: a flat array is taken apart into rows and columns with the     *)
(* lemmas on division, through each of the copies that the code makes.     *)
(***************************************************************************)
EXTENDS EmitQuant, CommonLemmas

-----------------------------------------------------------------------------
(* The call: its only step gives the verdict.                              *)

Verdict ==
  LET q == job.q
      s == job.s
  IN  \/ out = <<>>
      \/ ScalesMismatch(q, s) /\ out = [tag |-> "err", blob |-> <<>>]
      \/ /\ ~ScalesMismatch(q, s) /\ ~Converts(job.kind, job.topo, q, s)
         /\ out = [tag |-> "panic", blob |-> <<>>]
      \/ /\ ~ScalesMismatch(q, s) /\ Converts(job.kind, job.topo, q, s)
         /\ out = [tag |-> "ok", blob |-> Blob(job.kind, job.topo, q, s)]

QInv == job \in Jobs /\ Verdict

\* A call returns what its arguments determine.
LEMMA VerdictHolds == Spec => []QInv
<1>1. Init => QInv
  BY DEF Init, QInv, Verdict
<1>2. QInv /\ [Next]_vars => QInv'
  <2> SUFFICES ASSUME QInv, [Next]_vars PROVE QInv'
    OBVIOUS
  <2>1. job' = job
    BY DEF Next, vars, Refuse, Abort, Emit
  <2>2. CASE Refuse
    BY <2>1, <2>2 DEF QInv, Verdict, Refuse
  <2>3. CASE Abort
    BY <2>1, <2>3 DEF QInv, Verdict, Abort
  <2>4. CASE Emit
    BY <2>1, <2>4 DEF QInv, Verdict, Emit
  <2>5. CASE UNCHANGED vars
    BY <2>5 DEF QInv, Verdict, vars
  <2> QED BY <2>2, <2>3, <2>4, <2>5 DEF Next
<1> QED BY <1>1, <1>2, PTL DEF Spec

\* What Ok means, and the types of a job.
LEMMA Converted ==
  ASSUME QInv, Ok
  PROVE  /\ ~ScalesMismatch(job.q, job.s) /\ Converts(job.kind, job.topo, job.q, job.s)
         /\ out.blob = Blob(job.kind, job.topo, job.q, job.s)
<1>1. out # <<>> /\ out.tag = "ok"
  BY DEF Ok
<1>2. \A t : [tag |-> t, blob |-> <<>>].tag = t
  OBVIOUS
<1>3. \A b : [tag |-> "ok", blob |-> b].blob = b
  OBVIOUS
<1>4. "err" # "ok" /\ "panic" # "ok"
  OBVIOUS
<1> QED BY <1>1, <1>2, <1>3, <1>4, Zenon DEF QInv, Verdict

\* The types of a call's arguments.
LEMMA JobType ==
  ASSUME QInv
  PROVE  /\ job.kind \in QuantKinds
         /\ job.topo.num_k \in Nat \ {0} /\ job.topo.num_v \in Nat /\ job.topo.head_k \in Nat
         /\ job.topo.head_v \in Nat \ {0} /\ job.topo.num_v % job.topo.num_k = 0
         /\ job.q.shape[1] \in Nat /\ In \in Nat /\ Out \in Nat
         /\ In = job.q.shape[1] * 8
         /\ Size(job.q.words) \in Nat /\ DOMAIN job.q.words = Indices(Size(job.q.words))
         /\ Size(job.s.elems) \in Nat /\ DOMAIN job.s.elems = Indices(Size(job.s.elems))
<1>1. /\ job.kind \in QuantKinds
      /\ job.topo \in Heads /\ job.topo.num_v % job.topo.num_k = 0
      /\ job.q.shape \in Seq(Nat) /\ Len(job.q.shape) >= 2
      /\ IsArray(job.q.words) /\ IsArray(job.s.elems)
  BY JobAssumption DEF QInv
<1>2. job.q.shape[1] \in Nat /\ job.q.shape[2] \in Nat
  <2> DEFINE shape == job.q.shape
  <2>1. shape \in Seq(Nat) /\ Len(shape) >= 2
    BY <1>1
  <2> HIDE DEF shape
  <2>2. 1 \in 1..Len(shape) /\ 2 \in 1..Len(shape)
    BY <2>1, LenProperties
  <2>3. shape[1] \in Nat /\ shape[2] \in Nat
    BY <2>1, <2>2, ElementOfSeq
  <2> QED BY <2>3 DEF shape
<1>3. In = job.q.shape[1] * 8 /\ Out = job.q.shape[2]
  BY DEF In, Out, InF, OutF, WORD
<1>4. /\ job.topo.num_k \in Nat \ {0} /\ job.topo.num_v \in Nat /\ job.topo.head_k \in Nat
      /\ job.topo.head_v \in Nat \ {0}
  BY <1>1 DEF Heads
<1>5. /\ Size(job.q.words) \in Nat /\ DOMAIN job.q.words = Indices(Size(job.q.words))
      /\ Size(job.s.elems) \in Nat /\ DOMAIN job.s.elems = Indices(Size(job.s.elems))
  BY <1>1 DEF IsArray
<1>6. In \in Nat /\ Out \in Nat
  BY <1>2, <1>3
<1> QED BY <1>1, <1>2, <1>3, <1>4, <1>5, <1>6

-----------------------------------------------------------------------------
(* The order of the heads.                                                 *)

\* The order that the reference states on heads is the tiled one.
LEMMA GroupedIs ==
  ASSUME NEW topo \in Heads, topo.num_v % topo.num_k = 0
  PROVE  /\ Divided(topo)
         /\ \A i : Grouped(topo, i) = Origins(topo, i)
<1>1. Divided(topo)
  BY DEF Heads, Divided
<1>2. \A i : Grouped(topo, i) = Origins(topo, i)
  BY DEF Grouped, GroupedHead, Origins, ElementAt, HeadAt
<1> QED BY <1>1, <1>2

\* The code's arithmetic on elements is the reference's on heads.
LEMMA PermIs ==
  ASSUME NEW topo \in Heads, topo.num_v % topo.num_k = 0
  PROVE  /\ Elements(topo) \in Nat
         /\ DOMAIN perm_v(topo) = Indices(Elements(topo))
         /\ \A t \in Indices(Elements(topo)) :
              /\ perm_v(topo)[t] = Grouped(topo, t)
              /\ Grouped(topo, t) \in Indices(Elements(topo))
BY GroupedIs, VPermIs

\* Each element is moved somewhere.
LEMMA PermReaches ==
  ASSUME NEW topo \in Heads, topo.num_v % topo.num_k = 0, NEW x \in Indices(Elements(topo))
  PROVE  \E t \in Indices(Elements(topo)) : perm_v(topo)[t] = x
BY GroupedIs, VPermReaches

\* Where output n of the fused projection comes from.
FullOrigin(topo, n) ==
  IF n < qk_rows(topo) THEN n ELSE qk_rows(topo) + Grouped(topo, n - qk_rows(topo))

\* The fused projection keeps its queries and keys and has its values reordered.
LEMMA FullPermIs ==
  ASSUME NEW topo \in Heads, topo.num_v % topo.num_k = 0
  PROVE  /\ qk_rows(topo) \in Nat /\ qk_rows(topo) = 2 * topo.num_k * topo.head_k
         /\ DOMAIN full_perm_qkv(topo) = Indices(qk_rows(topo) + Elements(topo))
         /\ \A n \in Indices(qk_rows(topo) + Elements(topo)) :
              /\ full_perm_qkv(topo)[n] = FullOrigin(topo, n)
              /\ FullOrigin(topo, n) \in Indices(qk_rows(topo) + Elements(topo))
<1>1. \A n : FullOrigin(topo, n) = FusedOrigin(topo, n)
  BY GroupedIs DEF FullOrigin, FusedOrigin
<1> QED BY <1>1, GroupedIs, FusedPermIs

\* Neither a query, a key nor a value is lost.
LEMMA FullPermReaches ==
  ASSUME NEW topo \in Heads, topo.num_v % topo.num_k = 0,
         NEW x \in Indices(qk_rows(topo) + Elements(topo))
  PROVE  \E n \in Indices(qk_rows(topo) + Elements(topo)) : full_perm_qkv(topo)[n] = x
<1>1. qk_rows(topo) \in Nat /\ Elements(topo) \in Nat /\ x \in Nat
  BY FullPermIs, PermIs DEF Indices
<1>2. CASE x < qk_rows(topo)
  <2>1. full_perm_qkv(topo)[x] = FullOrigin(topo, x)
    BY FullPermIs
  <2> QED BY <1>2, <2>1 DEF FullOrigin
<1>3. CASE ~(x < qk_rows(topo))
  <2>1. x - qk_rows(topo) \in Indices(Elements(topo))
    BY <1>1, <1>3 DEF Indices
  <2>2. PICK t \in Indices(Elements(topo)) : perm_v(topo)[t] = x - qk_rows(topo)
    BY <2>1, PermReaches
  <2>3. /\ qk_rows(topo) + t \in Indices(qk_rows(topo) + Elements(topo))
        /\ t \in Nat /\ (qk_rows(topo) + t) - qk_rows(topo) = t
        /\ ~(qk_rows(topo) + t < qk_rows(topo))
    BY <1>1 DEF Indices
  <2>4. full_perm_qkv(topo)[qk_rows(topo) + t] = FullOrigin(topo, qk_rows(topo) + t)
    BY <2>3, FullPermIs
  <2>5. perm_v(topo)[t] = Grouped(topo, t)
    BY PermIs
  <2>6. FullOrigin(topo, qk_rows(topo) + t) = qk_rows(topo) + Grouped(topo, t)
    BY <2>3 DEF FullOrigin
  <2>7. qk_rows(topo) + (x - qk_rows(topo)) = x
    BY <1>1
  <2>8. full_perm_qkv(topo)[qk_rows(topo) + t] = x
    BY <2>2, <2>4, <2>5, <2>6, <2>7
  <2> QED BY <2>3, <2>8
<1> QED BY <1>2, <1>3

\* ReordersAll, for every topology of heads: v_reorder_perm and full_perm_qkv are
\* permutations, so no row and no column of a tensor is dropped or doubled.
THEOREM ReordersAllCorrect == Spec => []ReordersAll
<1>1. ASSUME QInv PROVE ReordersAll
  <2> DEFINE topo == job.topo
             full == full_perm_qkv(job.topo)
             D == Indices(qk_rows(job.topo) + Elements(job.topo))
  <2>1. topo \in Heads /\ topo.num_v % topo.num_k = 0
    BY <1>1, JobAssumption DEF QInv
  <2>2. DOMAIN full = D /\ \A n \in D : full[n] \in D
    BY <2>1, FullPermIs
  <2>3. \A x \in D : \E n \in D : full[n] = x
    BY <2>1, FullPermReaches
  <2> HIDE DEF full, D
  <2>4. {full[n] : n \in DOMAIN full} = DOMAIN full
    BY <2>2, <2>3
  <2> QED BY <2>4 DEF ReordersAll, full
<1> QED BY <1>1, VerdictHolds, PTL

-----------------------------------------------------------------------------
(* The length of what comes out.                                           *)

\* The two formats' blocks.
LEMMA BlockSizes ==
  /\ type_sizes[T_Q4_0].block = 32 /\ type_sizes[T_Q4_0].bytes = 18
  /\ type_sizes[T_Q4_0_AR16].block = 16 /\ type_sizes[T_Q4_0_AR16].bytes = 10
<1>1. /\ T_F32 # T_Q4_0 /\ T_F16 # T_Q4_0 /\ T_F32 # T_Q4_0_AR16 /\ T_F16 # T_Q4_0_AR16
      /\ T_Q8_0 # T_Q4_0_AR16 /\ T_BF16 # T_Q4_0_AR16 /\ T_Q4_0 # T_Q4_0_AR16
      /\ T_Q8_0 # T_Q4_0 /\ T_BF16 # T_Q4_0
  BY DEF T_F32, T_F16, T_Q4_0, T_Q8_0, T_BF16, T_Q4_0_AR16
<1>2. type_sizes[T_Q4_0] = [block |-> 32, bytes |-> 18]
  BY <1>1 DEF type_sizes
<1>3. type_sizes[T_Q4_0_AR16] = [block |-> 16, bytes |-> 10]
  BY <1>1 DEF type_sizes
<1> QED BY <1>2, <1>3

-----------------------------------------------------------------------------
(* The copies, each read at output o and input i.                          *)

\* The unpacked codes, [in, out].
LEMMA UnpackAt ==
  ASSUME NEW words, NEW p \in Nat, NEW out_f \in Nat,
         NEW o \in Indices(out_f), NEW i \in Indices(p * 8)
  PROVE  /\ DOMAIN unpack_autogptq_int4(words, p, out_f) = Indices((p * 8) * out_f)
         /\ i * out_f + o \in Indices((p * 8) * out_f)
         /\ unpack_autogptq_int4(words, p, out_f)[i * out_f + o]
              = words[(i \div 8) * out_f + o][i % 8]
<1> DEFINE n == i * out_f + o
<1>1. n \in Indices((p * 8) * out_f) /\ n \div out_f = i /\ n % out_f = o
  BY InRow
<1>2. /\ DOMAIN unpack_autogptq_int4(words, p, out_f) = Indices((p * 8) * out_f)
      /\ \A x \in Indices((p * 8) * out_f) :
           unpack_autogptq_int4(words, p, out_f)[x]
             = words[((x \div out_f) \div 8) * out_f + (x % out_f)][(x \div out_f) % 8]
  BY DEF unpack_autogptq_int4, WORD
<1> HIDE DEF n
<1>3. unpack_autogptq_int4(words, p, out_f)[n] = words[(i \div 8) * out_f + o][i % 8]
  BY <1>1, <1>2
<1> QED BY <1>1, <1>2, <1>3 DEF n

\* Element r of row c of m is element c of row r of src.
Turned(m, src, rows, cols, c, r) ==
  /\ DOMAIN m = Indices(cols * rows)
  /\ m[c * rows + r] = src[r * cols + c]

\* Column c of row r of src, in row c of what transposing it gives.
LEMMA TransposeAt ==
  ASSUME NEW src, NEW rows \in Nat, NEW cols \in Nat,
         NEW c \in Indices(cols), NEW r \in Indices(rows)
  PROVE  Turned(transpose_u8(src, rows, cols), src, rows, cols, c, r)
<1> DEFINE n == c * rows + r
<1>1. n \in Indices(cols * rows) /\ n \div rows = c /\ n % rows = r
  BY InRow
<1>2. rows * cols = cols * rows
  OBVIOUS
<1>3. /\ DOMAIN transpose_u8(src, rows, cols) = Indices(cols * rows)
      /\ \A x \in Indices(cols * rows) :
           transpose_u8(src, rows, cols)[x] = src[(x % rows) * cols + (x \div rows)]
  BY <1>2 DEF transpose_u8
<1> HIDE DEF n
<1>4. transpose_u8(src, rows, cols)[n] = src[r * cols + c]
  BY <1>1, <1>3
<1> QED BY <1>1, <1>3, <1>4 DEF n, Turned

\* Input i is element i % k of block i \div k.
LEMMA BlockOf ==
  ASSUME NEW k \in Nat \ {0}, NEW in_f \in Nat, in_f % k = 0, NEW i \in Indices(in_f)
  PROVE  /\ in_f \div k \in Nat /\ in_f = (in_f \div k) * k
         /\ i \in Nat /\ i \div k \in Indices(in_f \div k) /\ i % k \in 0..(k - 1)
         /\ i = (i \div k) * k + (i % k)
<1> DEFINE m == in_f \div k
<1>1. m \in Nat /\ in_f = k * m + 0
  OBVIOUS
<1>2. in_f = m * k
  <2> HIDE DEF m
  <2> QED BY <1>1
<1>3. i \in Nat /\ i < in_f
  BY DEF Indices
<1> HIDE DEF m
<1>4. i < m * k
  BY <1>2, <1>3
<1>5. i \div k \in Nat /\ i \div k < m /\ i % k \in Nat /\ i % k < k
      /\ i = (i \div k) * k + (i % k)
  BY <1>1, <1>3, <1>4, RowOf
<1>6. i \div k \in Indices(m) /\ i % k \in 0..(k - 1)
  BY <1>1, <1>5 DEF Indices
<1> QED BY <1>1, <1>2, <1>3, <1>5, <1>6 DEF m

\* The block holds, for input i of output o, this code and this scale.
HoldsPlain(block, codes, scales, out_f, in_f, o, i) ==
  /\ block.d = scales[(i \div 128) * out_f + o]
  /\ (i % 32) < 16 => block.qs[i % 32][1] = codes[o * in_f + i]
  /\ ~((i % 32) < 16) => block.qs[(i % 32) - 16][2] = codes[o * in_f + i]

HoldsAr(block, codes, scales, in_f, o, i) ==
  /\ block.d = scales[o * (in_f \div 16) + (i \div 16)]
  /\ LET byte == block.qs[(i % 16) \div 2]
     IN  byte[1 + ((i % 16) % 2)] = codes[o * in_f + i]

\* Split halves: input i in its block of 32, and the scale of its group.
LEMMA PackAt ==
  ASSUME NEW codes, NEW scales, NEW out_f \in Nat, NEW in_f \in Nat, in_f % 32 = 0,
         NEW o \in Indices(out_f), NEW i \in Indices(in_f), NEW block,
         block = pack_q4_0(codes, scales, out_f, in_f)[o * (in_f \div 32) + (i \div 32)]
  PROVE  HoldsPlain(block, codes, scales, out_f, in_f, o, i)
<1> DEFINE nb == in_f \div 32
           b == i \div 32
           n == o * nb + b
           e == i % 32
           c == o * in_f + b * 32
<1>1. nb \in Nat /\ i \in Nat /\ b \in Indices(nb) /\ e \in 0..31 /\ i = b * 32 + e
  <2>1. i \in Nat /\ i < in_f
    BY DEF Indices
  <2>2. nb \in Nat /\ in_f = 32 * nb
    OBVIOUS
  <2> HIDE DEF nb
  <2>3. i \div 32 < nb /\ i \div 32 \in Nat /\ i % 32 \in 0..31
        /\ i = (i \div 32) * 32 + (i % 32)
    BY <2>1, <2>2
  <2>4. i \div 32 \in Indices(nb)
    BY <2>2, <2>3 DEF Indices
  <2> QED BY <2>1, <2>2, <2>3, <2>4
<1>2. n \in Indices(out_f * nb) /\ n \div nb = o /\ n % nb = b
  <2> HIDE DEF nb, b
  <2> QED BY <1>1, InRow
<1>3. GROUP_SIZE \div BLOCK = 4 /\ BLOCK = 32
  BY DEF GROUP_SIZE, BLOCK
<1>4. \A x \in Indices(out_f * nb) :
        pack_q4_0(codes, scales, out_f, in_f)[x]
          = [d  |-> scales[((x % nb) \div 4) * out_f + (x \div nb)],
             qs |-> [j \in 0..15 |->
                       <<codes[((x \div nb) * in_f + (x % nb) * 32) + j],
                         codes[((x \div nb) * in_f + (x % nb) * 32) + j + 16]>>]]
  <2> HIDE DEF nb
  <2>1. nb = in_f \div BLOCK
    BY <1>3 DEF nb
  <2> QED BY <1>3, <2>1 DEF pack_q4_0
<1>5. block = [d  |-> scales[(b \div 4) * out_f + o],
               qs |-> [j \in 0..15 |-> <<codes[c + j], codes[c + j + 16]>>]]
  <2>1. block = pack_q4_0(codes, scales, out_f, in_f)[n]
    OBVIOUS
  <2> HIDE DEF nb, b, n
  <2> QED BY <1>2, <1>4, <2>1
<1>6. b \div 4 = i \div 128
  <2>1. (i \div 32) \div 4 = i \div (4 * 32)
    BY <1>1, DividedTwice
  <2> QED BY <2>1
<1>7. c \in Nat /\ c + e = o * in_f + i
  <2>1. o * in_f \in Nat /\ b \in Nat
    <3>1. \A x, y \in Nat : x * y \in Nat
      OBVIOUS
    <3> QED BY <1>1, <3>1 DEF Indices
  <2> DEFINE x == o * in_f
  <2> HIDE DEF x, b, e
  <2> QED BY <1>1, <2>1
<1> HIDE DEF c, b, nb, n, e
<1>8. block.d = scales[(i \div 128) * out_f + o]
  BY <1>5, <1>6
<1>9. CASE e < 16
  <2>1. e \in 0..15
    BY <1>1, <1>9
  <2>2. block.qs[e] = <<codes[c + e], codes[c + e + 16]>>
    BY <1>5, <2>1
  <2> QED BY <1>7, <1>8, <1>9, <2>2 DEF e, HoldsPlain
<1>10. CASE ~(e < 16)
  <2>1. e - 16 \in 0..15 /\ c + (e - 16) + 16 = c + e
    BY <1>1, <1>7, <1>10
  <2>2. block.qs[e - 16] = <<codes[c + (e - 16)], codes[c + (e - 16) + 16]>>
    BY <1>5, <2>1
  <2> QED BY <1>7, <1>8, <1>10, <2>1, <2>2 DEF e, HoldsPlain
<1> QED BY <1>9, <1>10

\* Interleaved: input i in its block of 16, and the block's own scale.
LEMMA PackArAt ==
  ASSUME NEW codes, NEW scales, NEW out_f \in Nat, NEW in_f \in Nat, in_f % 16 = 0,
         NEW o \in Indices(out_f), NEW i \in Indices(in_f), NEW block,
         block = pack_q4_0_ar16(codes, scales, out_f, in_f)[o * (in_f \div 16) + (i \div 16)]
  PROVE  HoldsAr(block, codes, scales, in_f, o, i)
<1> DEFINE nb == in_f \div 16
           b == i \div 16
           n == o * nb + b
           e == i % 16
           c == o * in_f + b * 16
<1>1. nb \in Nat /\ i \in Nat /\ b \in Indices(nb) /\ e \in 0..15 /\ i = b * 16 + e
  <2>1. 16 \in Nat \ {0} /\ 16 - 1 = 15
    OBVIOUS
  <2>2. /\ in_f \div 16 \in Nat /\ i \in Nat /\ i \div 16 \in Indices(in_f \div 16)
        /\ i % 16 \in 0..(16 - 1) /\ i = (i \div 16) * 16 + (i % 16)
    BY <2>1, BlockOf, Zenon
  <2> QED BY <2>1, <2>2
<1>2. n \in Indices(out_f * nb) /\ n \div nb = o /\ n % nb = b
  <2> HIDE DEF nb, b
  <2> QED BY <1>1, InRow
<1>3. AR_BLOCK = 16
  BY DEF AR_BLOCK
<1>4. \A x \in Indices(out_f * nb) :
        pack_q4_0_ar16(codes, scales, out_f, in_f)[x]
          = [d  |-> scales[x],
             qs |-> [j \in 0..7 |->
                       <<codes[((x \div nb) * in_f + (x % nb) * 16) + 2 * j],
                         codes[((x \div nb) * in_f + (x % nb) * 16) + 2 * j + 1]>>]]
  <2> HIDE DEF nb
  <2>1. nb = in_f \div AR_BLOCK
    BY <1>3 DEF nb
  <2> QED BY <1>3, <2>1 DEF pack_q4_0_ar16
<1>5. block = [d  |-> scales[n],
               qs |-> [j \in 0..7 |-> <<codes[c + 2 * j], codes[c + 2 * j + 1]>>]]
  <2>1. block = pack_q4_0_ar16(codes, scales, out_f, in_f)[n]
    OBVIOUS
  <2> HIDE DEF nb, b, n
  <2> QED BY <1>2, <1>4, <2>1
<1>6. c \in Nat /\ c + e = o * in_f + i
  <2>1. o * in_f \in Nat /\ b \in Nat
    <3>1. \A x, y \in Nat : x * y \in Nat
      OBVIOUS
    <3> QED BY <1>1, <3>1 DEF Indices
  <2> DEFINE x == o * in_f
  <2> HIDE DEF x, b, e
  <2> QED BY <1>1, <2>1
<1> HIDE DEF c, b, nb, n, e
<1> DEFINE j == e \div 2
           h == e % 2
<1>7. j \in 0..7 /\ e = 2 * j + h /\ h \in {0, 1}
  BY <1>1
<1> HIDE DEF j, h
<1>8. block.qs[j] = <<codes[c + 2 * j], codes[c + 2 * j + 1]>>
  BY <1>5, <1>7
<1>9. block.qs[j][1 + h] = codes[c + e]
  <2>1. CASE h = 0
    <3>1. c + e = c + 2 * j /\ 1 + h = 1
      BY <1>6, <1>7, <2>1
    <3> QED BY <1>8, <3>1
  <2>2. CASE h = 1
    <3>1. c + e = c + 2 * j + 1 /\ 1 + h = 2
      BY <1>6, <1>7, <2>2
    <3> QED BY <1>8, <3>1
  <2> QED BY <1>7, <2>1, <2>2
<1>10. block.d = scales[n]
  BY <1>5
<1> QED BY <1>6, <1>9, <1>10 DEF j, h, e, n, b, nb, HoldsAr

-----------------------------------------------------------------------------
(* The length of what comes out.                                           *)

\* The codes of the tensor, [in, out].
Codes == unpack_autogptq_int4(job.q.words, job.q.shape[1], Out)

\* Which copies make the blob, kind by kind.
LEMMA BlobIs ==
  ASSUME QInv, Ok
  PROVE  /\ job.kind = "QuantTrunk" => out.blob = Trunk(job.q, job.s, Codes)
         /\ job.kind \in VRows
              => out.blob = VRow(job.q, job.s, Codes, row_perm(job.kind, job.topo))
         /\ job.kind = "QuantVCol"
              => out.blob = VCol(job.q, job.s, Codes, perm_v(job.topo))
<1>1. out.blob = Blob(job.kind, job.topo, job.q, job.s) /\ Codes =
        unpack_autogptq_int4(job.q.words, job.q.shape[1], OutF(job.q))
  BY Converted DEF Codes, Out
<1>2. \A k : /\ k = "QuantTrunk" => k \notin VRows /\ k # "QuantVCol"
             /\ k \in VRows => k # "QuantTrunk" /\ k # "QuantVCol"
             /\ k = "QuantVCol" => k # "QuantTrunk" /\ k \notin VRows
  BY DEF VRows
<1>3. CASE job.kind = "QuantTrunk"
  BY <1>1, <1>2, <1>3 DEF Blob, VRows
<1>4. CASE job.kind \in VRows
  BY <1>1, <1>2, <1>4 DEF Blob, VRows
<1>5. CASE job.kind = "QuantVCol"
  BY <1>1, <1>2, <1>5 DEF Blob, VRows
<1> QED BY <1>2, <1>3, <1>4, <1>5

\* The blocks of a blob.
LEMMA BlobSize ==
  ASSUME QInv, Ok
  PROVE  Size(out.blob) = Out * (In \div PerBlock)
<1>1. In \in Nat /\ Out \in Nat /\ job.kind \in QuantKinds
  BY JobType
<1>2. \A k \in {16, 32} : In \div k \in Nat /\ Out * (In \div k) \in Nat
  <2>1. \A x, y \in Nat : x * y \in Nat
    OBVIOUS
  <2>2. \A k \in {16, 32} : In \div k \in Nat
    BY <1>1
  <2> QED BY <1>1, <2>1, <2>2
<1>3. \A codes, scales :
        /\ DOMAIN pack_q4_0(codes, scales, Out, In) = Indices(Out * (In \div 32))
        /\ DOMAIN pack_q4_0_ar16(codes, scales, Out, In) = Indices(Out * (In \div 16))
  BY DEF pack_q4_0, pack_q4_0_ar16, BLOCK, AR_BLOCK
<1>4. CASE job.kind = "QuantVCol"
  <2>1. PerBlock = 16
    BY <1>4, BlockSizes DEF PerBlock, BlobType
  <2>2. DOMAIN out.blob = Indices(Out * (In \div 16))
    <3>1. out.blob = VCol(job.q, job.s, Codes, perm_v(job.topo))
      BY <1>4, BlobIs
    <3> QED BY <1>3, <3>1, Zenon DEF VCol, In, Out
  <2> QED BY <1>2, <2>1, <2>2, SizeIs
<1>5. CASE job.kind # "QuantVCol"
  <2>1. PerBlock = 32
    BY <1>5, BlockSizes DEF PerBlock, BlobType
  <2>2. DOMAIN out.blob = Indices(Out * (In \div 32))
    <3>1. job.kind = "QuantTrunk" \/ job.kind \in VRows
      BY <1>1, <1>5 DEF QuantKinds, VRows
    <3>2. CASE job.kind = "QuantTrunk"
      BY <1>3, <3>2, BlobIs DEF Trunk, In, Out
    <3>3. CASE job.kind \in VRows
      BY <1>3, <3>3, BlobIs DEF VRow, In, Out
    <3> QED BY <3>1, <3>2, <3>3
  <2> QED BY <1>2, <2>1, <2>2, SizeIs
<1> QED BY <1>4, <1>5

\* PlannedLength, for every tensor: whatever emit_quant returns has the length that
\* the plan declared, so write_tensor_data never meets a blob of another length.
THEOREM PlannedLengthCorrect == Spec => []PlannedLength
<1>1. ASSUME QInv PROVE PlannedLength
  <2> SUFFICES ASSUME Ok
               PROVE  Size(out.blob) * type_sizes[BlobType(job.kind)].bytes
                        = QuantBytes(job.kind, In, Out)
    BY DEF PlannedLength
  <2> DEFINE bytes == type_sizes[BlobType(job.kind)].bytes
             nb == In \div PerBlock
  <2>1. Size(out.blob) = Out * nb
    BY <1>1, BlobSize
  <2>2. QuantBytes(job.kind, In, Out) = (nb * bytes) * Out
    BY DEF QuantBytes, NBytes, PerBlock
  <2>3. bytes \in Nat /\ nb \in Nat /\ Out \in Nat
    <3>1. bytes \in {10, 18} /\ PerBlock \in {16, 32}
      BY BlockSizes DEF BlobType, PerBlock
    <3>2. In \in Nat /\ Out \in Nat
      BY <1>1, JobType
    <3> QED BY <3>1, <3>2
  <2> HIDE DEF bytes, nb
  <2>4. (Out * nb) * bytes = (nb * bytes) * Out
    BY <2>3
  <2> QED BY <2>1, <2>2, <2>4 DEF bytes
<1> QED BY <1>1, VerdictHolds, PTL

-----------------------------------------------------------------------------
(* What a consumer decodes.                                                *)

\* From blocks of Q4_0.
LEMMA PlainRead ==
  ASSUME QInv, Ok, job.kind # "QuantVCol", NEW T, NEW S,
         out.blob = pack_q4_0(T, S, Out, In),
         NEW o \in Indices(Out), NEW i \in Indices(In)
  PROVE  Decoded(o, i) = [code |-> T[o * In + i], scale |-> S[(i \div 128) * Out + o]]
<1>1. In \in Nat /\ Out \in Nat /\ job.kind \in QuantKinds
  BY JobType
<1>2. PerBlock = 32
  BY BlockSizes DEF PerBlock, BlobType
<1>3. In % 32 = 0
  <2>1. Q4Packs(job.q, job.s)
    BY <1>1, Converted, ConvertsIs DEF Asserted
  <2> QED BY <2>1 DEF Q4Packs, In, BLOCK
<1> PICK block : block = out.blob[o * (In \div 32) + (i \div 32)]
  OBVIOUS
<1>4. HoldsPlain(block, T, S, Out, In, o, i)
  <2>1. block = pack_q4_0(T, S, Out, In)[o * (In \div 32) + (i \div 32)]
    OBVIOUS
  <2> QED BY <1>1, <1>3, <2>1, PackAt
<1>5. Decoded(o, i) = [code |-> Nibble(block, i % 32), scale |-> block.d]
  BY <1>2 DEF Decoded
<1>6. Nibble(block, i % 32)
        = IF (i % 32) < 16 THEN block.qs[i % 32][1] ELSE block.qs[(i % 32) - 16][2]
  BY DEF Nibble
<1>7. Nibble(block, i % 32) = T[o * In + i]
  BY <1>4, <1>6 DEF HoldsPlain
<1> QED BY <1>4, <1>5, <1>7 DEF HoldsPlain

\* From blocks of Q4_0_AR16.
LEMMA ColRead ==
  ASSUME QInv, Ok, job.kind = "QuantVCol", NEW T, NEW S,
         out.blob = pack_q4_0_ar16(T, S, Out, In),
         NEW o \in Indices(Out), NEW i \in Indices(In)
  PROVE  Decoded(o, i) = [code |-> T[o * In + i], scale |-> S[o * (In \div 16) + (i \div 16)]]
<1>1. In \in Nat /\ Out \in Nat /\ job.kind \in QuantKinds
  BY JobType
<1>2. PerBlock = 16
  BY BlockSizes DEF PerBlock, BlobType
<1>3. In % 16 = 0
  <2>1. Asserted(job.kind, job.topo, job.q, job.s)
    BY <1>1, Converted, ConvertsIs
  <2> QED BY <2>1 DEF Asserted, In, AR_BLOCK
<1> PICK block : block = out.blob[o * (In \div 16) + (i \div 16)]
  OBVIOUS
<1>4. HoldsAr(block, T, S, In, o, i)
  <2>1. block = pack_q4_0_ar16(T, S, Out, In)[o * (In \div 16) + (i \div 16)]
    OBVIOUS
  <2> QED BY <1>1, <1>3, <2>1, PackArAt
<1>5. Decoded(o, i) = [code |-> Nibble(block, i % 16), scale |-> block.d]
  BY <1>2 DEF Decoded
<1>6. Nibble(block, i % 16)
        = LET byte == block.qs[(i % 16) \div 2] IN byte[1 + ((i % 16) % 2)]
  BY DEF Nibble
<1>7. Nibble(block, i % 16) = T[o * In + i]
  BY <1>4, <1>6 DEF HoldsAr
<1> QED BY <1>4, <1>5, <1>7 DEF HoldsAr

\* The unpacked codes are those of the checkpoint.
LEMMA CodeAt ==
  ASSUME QInv, NEW o \in Indices(Out), NEW i \in Indices(In)
  PROVE  /\ DOMAIN Codes = Indices(In * Out) /\ i * Out + o \in Indices(In * Out)
         /\ Codes[i * Out + o] = job.q.words[(i \div 8) * Out + o][i % 8]
<1>1. job.q.shape[1] \in Nat /\ Out \in Nat /\ In = job.q.shape[1] * 8
  BY JobType
<1>2. i \in Indices(job.q.shape[1] * 8)
  BY <1>1
<1> DEFINE p == job.q.shape[1]
<1>3. p \in Nat /\ Out \in Nat /\ In = p * 8 /\ i \in Indices(p * 8)
  BY <1>1, <1>2
<1>4. Codes = unpack_autogptq_int4(job.q.words, p, Out)
  BY DEF Codes
<1> HIDE DEF p
<1> QED BY <1>3, <1>4, UnpackAt

\* A stored weight, with the numbers of the format.
LEMMA StoredIs ==
  ASSUME NEW o, NEW i
  PROVE  Stored(o, i) = [code  |-> job.q.words[(i \div 8) * Out + o][i % 8],
                         scale |-> job.s.elems[(i \div 128) * Out + o]]
BY DEF Stored, WORD, GROUP_SIZE

\* A tensor of the trunk is copied as it is.
LEMMA TrunkLossless ==
  ASSUME QInv, Ok, job.kind = "QuantTrunk",
         NEW o \in Indices(Out), NEW i \in Indices(In)
  PROVE  Decoded(o, i) = Stored(o, i)
<1> DEFINE T == transpose_u8(Codes, In, Out)
<1>1. In \in Nat /\ Out \in Nat
  BY JobType
<1>2. out.blob = pack_q4_0(T, job.s.elems, Out, In)
  BY BlobIs DEF Trunk, In, Out
<1>3. T[o * In + i] = Codes[i * Out + o]
  BY <1>1, TransposeAt DEF Turned
<1> HIDE DEF T
<1>4. Decoded(o, i) = [code  |-> T[o * In + i],
                       scale |-> job.s.elems[(i \div 128) * Out + o]]
  BY <1>2, PlainRead
<1> QED BY <1>3, <1>4, CodeAt, StoredIs

\* A tensor whose rows are gathered: those of row_perm.
LEMMA RowsLossless ==
  ASSUME QInv, Ok, job.kind \in VRows,
         NEW o \in Indices(Out), NEW i \in Indices(In), NEW perm,
         perm = row_perm(job.kind, job.topo), perm[o] \in Indices(Out)
  PROVE  Decoded(o, i) = Stored(perm[o], i)
<1> PICK r \in Indices(Out) : r = perm[o]
  OBVIOUS
<1> DEFINE M == transpose_u8(Codes, In, Out)
           T == GatherRows(M, perm, In)
           S == GatherScales(job.s.elems, perm, Out)
<1>1. In \in Nat /\ Out \in Nat /\ job.kind \in QuantKinds
  BY JobType
<1>2. out.blob = pack_q4_0(T, S, Out, In)
  BY BlobIs DEF VRow, In, Out
<1>3. DOMAIN M = Indices(Out * In) /\ M[r * In + i] = Codes[i * Out + r]
  <2>1. Turned(M, Codes, In, Out, r, i)
    BY <1>1, TransposeAt
  <2> QED BY <2>1 DEF Turned
<1>4. T[o * In + i] = M[r * In + i]
  <2>1. /\ o * In + i \in Indices(Out * In)
        /\ (o * In + i) \div In = o /\ (o * In + i) % In = i
    BY <1>1, InRow
  <2>3. o * In + i \in DOMAIN M
    BY <1>3, <2>1
  <2> HIDE DEF M
  <2>2. \A n \in DOMAIN M : T[n] = M[perm[n \div In] * In + (n % In)]
    BY DEF GatherRows
  <2> HIDE DEF T
  <2> QED BY <2>1, <2>2, <2>3
<1>5. S[(i \div 128) * Out + o] = job.s.elems[(i \div 128) * Out + r]
  <2>1. Q4Packs(job.q, job.s)
    BY <1>1, Converted, ConvertsIs DEF Asserted, VRows
  <2>2. /\ In % 32 = 0 /\ Size(job.s.elems) = (In \div 128) * Out
        /\ \A b \in Indices(In \div 32) : Out > 0 => b \div 4 < In \div 128
    <3>1. GROUP_SIZE \div BLOCK = 4 /\ BLOCK = 32 /\ GROUP_SIZE = 128
      BY DEF GROUP_SIZE, BLOCK
    <3> QED BY <2>1, <3>1 DEF Q4Packs, NGroups, In, Out
  <2>3. i \in Nat /\ i \div 32 \in Indices(In \div 32)
    <3>1. 32 \in Nat \ {0}
      OBVIOUS
    <3> QED BY <1>1, <2>2, <3>1, BlockOf, Zenon
  <2>4. (i \div 32) \div 4 = i \div 128
    <3>1. (i \div 32) \div 4 = i \div (4 * 32)
      BY <2>3, DividedTwice
    <3> QED BY <3>1
  <2>5. i \div 128 \in Indices(In \div 128)
    <3>1. Out > 0
      BY <1>1 DEF Indices
    <3> QED BY <1>1, <2>2, <2>3, <2>4, <3>1 DEF Indices
  <2>6. /\ (i \div 128) * Out + o \in Indices((In \div 128) * Out)
        /\ ((i \div 128) * Out + o) \div Out = i \div 128
        /\ ((i \div 128) * Out + o) % Out = o
    <3>1. In \div 128 \in Nat
      BY <1>1
    <3> QED BY <1>1, <2>5, <3>1, InRow
  <2>7. (i \div 128) * Out + o \in DOMAIN job.s.elems
    BY <2>2, <2>6, JobType
  <2>8. \A n \in DOMAIN job.s.elems :
          S[n] = job.s.elems[(n \div Out) * Out + perm[n % Out]]
    BY DEF GatherScales
  <2> HIDE DEF S
  <2> QED BY <2>6, <2>7, <2>8
<1> HIDE DEF M, T, S
<1>6. job.kind # "QuantVCol"
  BY DEF VRows
<1>7. Decoded(o, i) = [code |-> T[o * In + i], scale |-> S[(i \div 128) * Out + o]]
  BY <1>2, <1>6, PlainRead
<1>8. Codes[i * Out + r] = job.q.words[(i \div 8) * Out + r][i % 8]
  BY CodeAt
<1> QED BY <1>3, <1>4, <1>5, <1>7, <1>8, StoredIs

\* The columns of a converted tensor are those of the V heads.
LEMMA ColumnPerm ==
  ASSUME QInv, job.kind = "QuantVCol", job.topo.num_v * job.topo.head_v = In
  PROVE  /\ In \in Nat /\ Out \in Nat /\ aligned_chunks(perm_v(job.topo))
         /\ job.topo \in Heads /\ job.topo.num_v % job.topo.num_k = 0
         /\ Elements(job.topo) = In /\ DOMAIN perm_v(job.topo) = Indices(In)
         /\ \A i \in Indices(In) : /\ perm_v(job.topo)[i] \in Indices(In)
                                   /\ perm_v(job.topo)[i] = Grouped(job.topo, i)
<1>1. In \in Nat /\ Out \in Nat
  BY JobType
<1>2. /\ aligned_chunks(perm_v(job.topo)) /\ job.topo \in Heads
      /\ job.topo.num_v % job.topo.num_k = 0
  BY JobAssumption DEF QInv
<1>3. Elements(job.topo) = In
  BY DEF Elements
<1> QED BY <1>1, <1>2, <1>3, PermIs

\* Sixteen neighbours come from sixteen neighbours of one group.
LEMMA ChunkGroup ==
  ASSUME NEW perm, NEW in_f \in Nat, DOMAIN perm = Indices(in_f), aligned_chunks(perm),
         \A i \in Indices(in_f) : perm[i] \in Indices(in_f),
         NEW i \in Indices(in_f)
  PROVE  source_group(perm, i \div 16) = perm[i] \div 128
<1>1. i \in Nat /\ i < in_f
  BY DEF Indices
<1> DEFINE f == perm[(i \div 16) * 16]
           e == i % 16
<1>2. e \in 0..15 /\ i - e = (i \div 16) * 16 /\ (i \div 16) * 16 \in Indices(in_f)
  BY <1>1 DEF Indices
<1>3. f \in Nat /\ perm[i] \in Nat
  BY <1>2 DEF Indices
<1>4. f % 16 = 0 /\ perm[i] = f + e
  <2>1. \A t \in DOMAIN perm : /\ perm[t - (t % 16)] % 16 = 0
                               /\ perm[t] = perm[t - (t % 16)] + (t % 16)
    BY DEF aligned_chunks, AR_BLOCK
  <2>2. perm[i - e] % 16 = 0 /\ perm[i] = perm[i - e] + e
    BY <2>1
  <2> HIDE DEF e
  <2> QED BY <1>2, <2>2
<1>5. source_group(perm, i \div 16) = (f \div 16) \div 8
  <2>1. GROUP_SIZE \div AR_BLOCK = 8 /\ AR_BLOCK = 16
    BY DEF GROUP_SIZE, AR_BLOCK
  <2> QED BY <2>1 DEF source_group
<1> HIDE DEF f, e
<1>6. perm[i] \div 16 = f \div 16
  BY <1>2, <1>3, <1>4
<1>7. (perm[i] \div 16) \div 8 = perm[i] \div 128
  <2>1. (perm[i] \div 16) \div 8 = perm[i] \div (8 * 16)
    BY <1>3, DividedTwice
  <2> QED BY <2>1
<1> QED BY <1>5, <1>6, <1>7

\* The gathered rows of a matrix.
LEMMA GatherAt ==
  ASSUME NEW m, NEW perm, NEW rows \in Nat, NEW width \in Nat,
         DOMAIN m = Indices(rows * width),
         NEW r \in Indices(rows), NEW x \in Indices(width)
  PROVE  GatherRows(m, perm, width)[r * width + x] = m[perm[r] * width + x]
<1> DEFINE n == r * width + x
<1>1. n \in Indices(rows * width) /\ n \div width = r /\ n % width = x
  BY InRow
<1>2. \A k \in DOMAIN m :
        GatherRows(m, perm, width)[k] = m[perm[k \div width] * width + (k % width)]
  BY DEF GatherRows
<1> HIDE DEF n
<1>3. GatherRows(m, perm, width)[n] = m[perm[r] * width + x]
  BY <1>1, <1>2
<1> QED BY <1>3 DEF n

\* A tensor whose columns are moved, and each block's scale with its columns.
LEMMA ColumnsLossless ==
  ASSUME QInv, Ok, job.kind = "QuantVCol",
         NEW o \in Indices(Out), NEW i \in Indices(In)
  PROVE  Decoded(o, i) = Stored(o, Grouped(job.topo, i))
<1> DEFINE perm == perm_v(job.topo)
           nb == In \div 16
           b == i \div 16
           G == GatherRows(Codes, perm, Out)
           T == transpose_u8(G, In, Out)
           S == [n \in Indices(Out * nb) |->
                   job.s.elems[source_group(perm, n % nb) * Out + (n \div nb)]]
<1>1. job.topo.num_v * job.topo.head_v = In /\ In % 16 = 0
  <2>1. Asserted(job.kind, job.topo, job.q, job.s)
    BY Converted, ConvertsIs, JobType
  <2> QED BY <2>1 DEF Asserted, In, AR_BLOCK
<1>2. /\ In \in Nat /\ Out \in Nat /\ aligned_chunks(perm) /\ DOMAIN perm = Indices(In)
      /\ \A x \in Indices(In) : perm[x] \in Indices(In) /\ perm[x] = Grouped(job.topo, x)
  BY <1>1, ColumnPerm
<1>3. out.blob = pack_q4_0_ar16(T, S, Out, In)
  BY BlobIs DEF VCol, In, Out, AR_BLOCK
<1>4. T[o * In + i] = G[i * Out + o]
  <2>1. Turned(T, G, In, Out, o, i)
    BY <1>2, TransposeAt
  <2> QED BY <2>1 DEF Turned
<1> PICK r \in Indices(In) : r = perm[i] /\ r = Grouped(job.topo, i)
  BY <1>2
<1>5. G[i * Out + o] = Codes[r * Out + o]
  <2> HIDE DEF perm
  <2>1. DOMAIN Codes = Indices(In * Out)
    BY CodeAt
  <2>2. GatherRows(Codes, perm, Out)[i * Out + o] = Codes[perm[i] * Out + o]
    BY <1>2, <2>1, GatherAt
  <2> QED BY <2>2
<1>6. S[o * nb + b] = job.s.elems[source_group(perm, b) * Out + o]
  <2>1. nb \in Nat /\ b \in Indices(nb)
    <3>1. 16 \in Nat \ {0}
      OBVIOUS
    <3> QED BY <1>1, <1>2, <3>1, BlockOf, Zenon
  <2> HIDE DEF nb, b, perm
  <2>2. /\ o * nb + b \in Indices(Out * nb)
        /\ (o * nb + b) \div nb = o /\ (o * nb + b) % nb = b
    BY <1>2, <2>1, InRow
  <2>3. \A n \in Indices(Out * nb) :
          S[n] = job.s.elems[source_group(perm, n % nb) * Out + (n \div nb)]
    OBVIOUS
  <2> HIDE DEF S
  <2> QED BY <2>2, <2>3
<1>7. source_group(perm, b) = r \div 128
  <2> HIDE DEF perm
  <2>1. source_group(perm, i \div 16) = perm[i] \div 128
    BY <1>2, ChunkGroup
  <2> QED BY <2>1
<1>8. Codes[r * Out + o] = job.q.words[(r \div 8) * Out + o][r % 8]
  BY CodeAt
<1> HIDE DEF T, G, S, perm
<1>9. Decoded(o, i) = [code |-> T[o * In + i], scale |-> S[o * (In \div 16) + (i \div 16)]]
  BY <1>3, ColRead
<1> QED BY <1>4, <1>5, <1>6, <1>7, <1>8, <1>9, StoredIs

\* Lossless, for every tensor, every topology of heads and every kind: each weight
\* that the decoder of the block format finds at an output and an input is the
\* checkpoint's weight which belongs there, with the scale of its group.
THEOREM LosslessCorrect == Spec => []Lossless
<1>1. ASSUME QInv PROVE Lossless
  <2> SUFFICES ASSUME Ok, NEW o \in Indices(Out), NEW i \in Indices(In)
               PROVE  LET from == Origin(o, i) IN Decoded(o, i) = Stored(from[1], from[2])
    BY DEF Lossless
  <2> DEFINE topo == job.topo
  <2>1. job.kind \in QuantKinds /\ In \in Nat /\ Out \in Nat
    BY <1>1, JobType
  <2>2. topo \in Heads /\ topo.num_v % topo.num_k = 0
    BY <1>1, JobAssumption DEF QInv
  <2>3. Asserted(job.kind, topo, job.q, job.s)
    BY <1>1, <2>1, Converted, ConvertsIs
  <2>4. CASE job.kind = "QuantTrunk"
    BY <1>1, <2>4, TrunkLossless DEF Origin
  <2>5. CASE job.kind = "QuantVRowZ"
    <3>1. job.kind \in VRows /\ row_perm(job.kind, topo) = perm_v(topo)
      BY <2>5 DEF VRows, row_perm
    <3>2. Size(perm_v(topo)) = Out
      BY <2>3, <3>1 DEF Asserted, Out
    <3>3. Elements(topo) = Out
      BY <2>2, <3>2, PermIs, SizeIs
    <3>4. perm_v(topo)[o] = Grouped(topo, o) /\ Grouped(topo, o) \in Indices(Out)
      BY <2>2, <3>3, PermIs
    <3>5. Decoded(o, i) = Stored(Grouped(topo, o), i)
      BY <1>1, <3>1, <3>4, RowsLossless
    <3>6. Origin(o, i) = <<Grouped(topo, o), i>>
      BY <2>5 DEF Origin
    <3> QED BY <3>5, <3>6
  <2>6. CASE job.kind = "QuantVRowQkv"
    <3>1. job.kind \in VRows /\ row_perm(job.kind, topo) = full_perm_qkv(topo)
      BY <2>6 DEF VRows, row_perm
    <3>2. Size(full_perm_qkv(topo)) = Out
      BY <2>3, <3>1 DEF Asserted, Out
    <3>3. qk_rows(topo) + Elements(topo) = Out /\ qk_rows(topo) = Qk
      <4>1. qk_rows(topo) + Elements(topo) \in Nat
        BY <2>2, PermIs, FullPermIs
      <4>2. DOMAIN full_perm_qkv(topo) = Indices(qk_rows(topo) + Elements(topo))
        BY <2>2, FullPermIs
      <4>3. qk_rows(topo) = Qk
        BY <2>2, FullPermIs DEF Qk
      <4> QED BY <3>2, <4>1, <4>2, <4>3, SizeIs
    <3>4. full_perm_qkv(topo)[o] = FullOrigin(topo, o) /\ FullOrigin(topo, o) \in Indices(Out)
      BY <2>2, <3>3, FullPermIs
    <3>5. Decoded(o, i) = Stored(FullOrigin(topo, o), i)
      BY <1>1, <3>1, <3>4, RowsLossless
    <3>6. Origin(o, i) = <<FullOrigin(topo, o), i>>
      BY <2>6, <3>3 DEF Origin, FullOrigin
    <3> QED BY <3>5, <3>6
  <2>7. CASE job.kind = "QuantVCol"
    BY <1>1, <2>7, ColumnsLossless DEF Origin
  <2> QED BY <2>1, <2>4, <2>5, <2>6, <2>7 DEF QuantKinds
<1> QED BY <1>1, VerdictHolds, PTL

-----------------------------------------------------------------------------
(* What is converted and what is refused.                                  *)

\* A call that has returned has converted exactly what passes the assertions.
LEMMA OkIff ==
  ASSUME QInv, out # <<>>
  PROVE  Ok <=> /\ job.s.shape = <<In \div GROUP_SIZE, Out>>
                /\ Asserted(job.kind, job.topo, job.q, job.s)
<1>1. ScalesMismatch(job.q, job.s) <=> job.s.shape # <<In \div GROUP_SIZE, Out>>
  BY DEF ScalesMismatch, NGroups, In, Out
<1>2. Converts(job.kind, job.topo, job.q, job.s)
        <=> Asserted(job.kind, job.topo, job.q, job.s)
  BY JobType, ConvertsIs
<1>3. ASSUME Ok
      PROVE  /\ ~ScalesMismatch(job.q, job.s)
             /\ Converts(job.kind, job.topo, job.q, job.s)
  BY <1>3, Converted
<1>4. ASSUME ~ScalesMismatch(job.q, job.s), Converts(job.kind, job.topo, job.q, job.s)
      PROVE  Ok
  <2>1. out = [tag |-> "ok", blob |-> Blob(job.kind, job.topo, job.q, job.s)]
    BY <1>4 DEF QInv, Verdict
  <2> QED BY <2>1 DEF Ok
<1> QED BY <1>1, <1>2, <1>3, <1>4

\* What pack_q4_0 asserts, when there is an output.
LEMMA Q4PacksIff ==
  ASSUME QInv, Out > 0
  PROVE  Q4Packs(job.q, job.s)
           <=> In % GROUP_SIZE = 0 /\ Size(job.s.elems) = (In \div GROUP_SIZE) * Out
<1>1. In \in Nat
  BY JobType
<1>2. GROUP_SIZE \div BLOCK = 4 /\ BLOCK = 32 /\ GROUP_SIZE = 128
  BY DEF GROUP_SIZE, BLOCK
<1>3. Q4Packs(job.q, job.s)
        <=> /\ In % 32 = 0
            /\ Size(job.s.elems) = (In \div 128) * Out
            /\ \A b \in Indices(In \div 32) : Out > 0 => b \div 4 < In \div 128
  BY <1>2 DEF Q4Packs, NGroups, In, Out
<1>4. In % 128 = 0
        <=> /\ In % 32 = 0
            /\ \A b \in Indices(In \div 32) : b \div 4 < In \div 128
  BY <1>1, WholeGroups
<1> QED BY <1>2, <1>3, <1>4

\* What reading a column tensor's scales needs, when there is an output.
LEMMA ColumnScalesIff ==
  ASSUME QInv, Out > 0, job.kind = "QuantVCol", job.topo.num_v * job.topo.head_v = In
  PROVE  /\ In % 16 = 0
         /\ (\A b \in Indices(In \div 16) :
               (source_group(perm_v(job.topo), b) + 1) * Out <= Size(job.s.elems))
              <=> Size(job.s.elems) >= Groups * Out
<1> DEFINE perm == perm_v(job.topo)
           last == (In - 1) \div 128
<1>1. /\ In \in Nat /\ Out \in Nat /\ aligned_chunks(perm) /\ DOMAIN perm = Indices(In)
      /\ job.topo \in Heads /\ job.topo.num_v % job.topo.num_k = 0
      /\ Elements(job.topo) = In
      /\ \A x \in Indices(In) : perm[x] \in Indices(In)
  BY ColumnPerm
<1>2. In % 16 = 0
  <2> HIDE DEF perm
  <2>1. Size(perm) = In
    BY <1>1, SizeIs
  <2> QED BY <1>1, <2>1 DEF aligned_chunks, AR_BLOCK
<1>3. \A i \in Indices(In) : source_group(perm, i \div 16) = perm[i] \div 128
  <2> HIDE DEF perm
  <2> QED BY <1>1, ChunkGroup
<1>4. Size(job.s.elems) \in Nat
  BY JobType
<1>5. \A a, b \in Nat : a <= b => a * Out <= b * Out
  <2> TAKE a, b \in Nat
  <2> HAVE a <= b
  <2>1. PICK e \in Nat : b = a + e
    <3>1. b - a \in Nat /\ b = a + (b - a)
      OBVIOUS
    <3> QED BY <3>1
  <2>2. b * Out = a * Out + e * Out /\ a * Out \in Nat /\ e * Out \in Nat
    BY <1>1, <2>1
  <2> QED BY <2>2
<1>6. \A a \in Nat : a * Out \in Nat
  BY <1>1
<1>7. Groups = (In + 127) \div 128
  BY DEF Groups, GROUP_SIZE
<1>8. ASSUME \A b \in Indices(In \div 16) :
               (source_group(perm, b) + 1) * Out <= Size(job.s.elems)
      PROVE  Size(job.s.elems) >= Groups * Out
  <2>1. CASE In = 0
    <3>1. Groups = 0
      BY <1>7, <2>1
    <3> QED BY <1>1, <1>4, <3>1
  <2>2. CASE In # 0
    <3>1. In - 1 \in Indices(Elements(job.topo))
      BY <1>1, <2>2 DEF Indices
    <3>2. PICK t \in Indices(In) : perm[t] = In - 1
      BY <1>1, <3>1, PermReaches
    <3>3. t \div 16 \in Indices(In \div 16)
      BY <1>1, <1>2 DEF Indices
    <3>4. source_group(perm, t \div 16) + 1 = Groups
      <4>1. source_group(perm, t \div 16) = (In - 1) \div 128
        BY <1>3, <3>2
      <4>2. (In - 1) \div 128 + 1 = Groups
        BY <1>1, <1>7, <2>2
      <4> QED BY <4>1, <4>2
    <3>5. (source_group(perm, t \div 16) + 1) * Out <= Size(job.s.elems)
      BY <1>8, <3>3
    <3>6. Groups * Out \in Nat
      <4>1. Groups \in Nat
        BY <1>1, <1>7
      <4> QED BY <1>6, <4>1
    <3> QED BY <1>4, <3>4, <3>5, <3>6
  <2> QED BY <2>1, <2>2
<1>9. ASSUME Size(job.s.elems) >= Groups * Out, NEW b \in Indices(In \div 16)
      PROVE  (source_group(perm, b) + 1) * Out <= Size(job.s.elems)
  <2>1. b * 16 \in Indices(In) /\ (b * 16) \div 16 = b
    BY <1>1, <1>2 DEF Indices
  <2>2. source_group(perm, b) = perm[b * 16] \div 128
    BY <1>3, <2>1
  <2>3. perm[b * 16] \in Indices(In)
    BY <1>1, <2>1
  <2> PICK x \in Indices(In) : x = perm[b * 16]
    BY <2>3
  <2> HIDE DEF perm
  <2>4. x \div 128 + 1 \in Nat /\ Groups \in Nat /\ x \div 128 + 1 <= Groups
    BY <1>1, <1>7 DEF Indices
  <2>5. (x \div 128 + 1) * Out <= Groups * Out
    BY <1>5, <2>4
  <2>6. (x \div 128 + 1) * Out \in Nat /\ Groups * Out \in Nat
    BY <1>6, <2>4
  <2>7. source_group(perm, b) + 1 = x \div 128 + 1
    BY <2>2
  <2> DEFINE u == (x \div 128 + 1) * Out
             v == Groups * Out
  <2>8. u \in Nat /\ v \in Nat /\ u <= v /\ Size(job.s.elems) >= v
    BY <1>9, <2>5, <2>6
  <2> HIDE DEF u, v
  <2>9. u <= Size(job.s.elems)
    BY <1>4, <2>8
  <2> QED BY <2>7, <2>9 DEF u
<1> QED BY <1>2, <1>8, <1>9

\* The rows that a gather of rows needs.
LEMMA RowsIff ==
  ASSUME QInv
  PROVE  /\ job.kind = "QuantVRowZ" =>
              (Size(row_perm(job.kind, job.topo)) = Out
                 <=> Out = job.topo.num_v * job.topo.head_v)
         /\ job.kind = "QuantVRowQkv" =>
              (Size(row_perm(job.kind, job.topo)) = Out
                 <=> Out = Qk + job.topo.num_v * job.topo.head_v)
<1>1. job.topo \in Heads /\ job.topo.num_v % job.topo.num_k = 0
  BY JobAssumption DEF QInv
<1>2. Size(perm_v(job.topo)) = Elements(job.topo)
  BY <1>1, PermIs, SizeIs
<1>3. Size(full_perm_qkv(job.topo)) = Qk + Elements(job.topo)
  <2>1. /\ qk_rows(job.topo) + Elements(job.topo) \in Nat
        /\ DOMAIN full_perm_qkv(job.topo) = Indices(qk_rows(job.topo) + Elements(job.topo))
        /\ qk_rows(job.topo) = Qk
    BY <1>1, PermIs, FullPermIs DEF Qk
  <2> QED BY <2>1, SizeIs
<1>4. job.kind = "QuantVRowZ" => row_perm(job.kind, job.topo) = perm_v(job.topo)
  BY DEF row_perm
<1>5. job.kind = "QuantVRowQkv" => row_perm(job.kind, job.topo) = full_perm_qkv(job.topo)
  BY DEF row_perm
<1> QED BY <1>2, <1>3, <1>4, <1>5 DEF Elements

\* ConvertsExactlyRegular, for every tensor: with at least one output, what emit_quant
\* converts is what fits the heads and the shapes; all else it refuses or aborts on.
THEOREM ConvertsExactlyRegularCorrect == Spec => []ConvertsExactlyRegular
<1>1. ASSUME QInv PROVE ConvertsExactlyRegular
  <2> SUFFICES ASSUME out # <<>>, Out > 0
               PROVE  Ok <=> Regular
    BY DEF ConvertsExactlyRegular
  <2> DEFINE Shape == job.s.shape = <<In \div GROUP_SIZE, Out>>
             Words == Size(job.q.words) = job.q.shape[1] * Out
             Plain == /\ In % GROUP_SIZE = 0
                      /\ Size(job.s.elems) = (In \div GROUP_SIZE) * Out
             Rows  == Size(row_perm(job.kind, job.topo)) = Out
             Fits  == In = job.topo.num_v * job.topo.head_v
             Many  == Size(job.s.elems) >= Groups * Out
             A     == Asserted(job.kind, job.topo, job.q, job.s)
  <2>1. Ok <=> Shape /\ A
    BY <1>1, OkIff
  <2>2. job.kind \in QuantKinds
    BY <1>1, JobType
  <2>3. CASE job.kind = "QuantVCol"
    <3> DEFINE Chunks == In % 16 = 0
               Enough == \A b \in Indices(In \div 16) :
                           (source_group(perm_v(job.topo), b) + 1) * Out
                             <= Size(job.s.elems)
    <3>1. A <=> Words /\ Fits /\ Chunks /\ Enough
      <4>1. AR_BLOCK = 16 /\ job.kind \notin VRows
        BY <2>3 DEF AR_BLOCK, VRows
      <4>2. A <=> Words /\ (job.topo.num_v * job.topo.head_v = In) /\ Chunks
                    /\ (Out > 0 => Enough)
        BY <2>3, <4>1, Zenon DEF Asserted, In, Out
      <4> QED BY <4>2
    <3>2. Fits => Chunks /\ (Enough <=> Many)
      <4>1. ASSUME Fits
            PROVE  job.topo.num_v * job.topo.head_v = In
        BY <4>1
      <4> QED BY <1>1, <2>3, <4>1, ColumnScalesIff, Zenon
    <3>3. Regular <=> Shape /\ Words /\ Many /\ Fits
      BY <2>3 DEF Regular
    <3> HIDE DEF Shape, Words, Fits, Many, A, Chunks, Enough
    <3> QED BY <2>1, <3>1, <3>2, <3>3
  <2>4. CASE job.kind \in VRows
    <3>1. A <=> Words /\ Plain /\ Rows
      <4>1. job.kind # "QuantVCol" /\ (Q4Packs(job.q, job.s) <=> Plain)
        BY <1>1, <2>4, Q4PacksIff DEF VRows
      <4> QED BY <2>4, <4>1, Zenon DEF Asserted, Out
    <3>2. Regular <=> Shape /\ Words /\ Plain /\ Rows
      <4>1. CASE job.kind = "QuantVRowZ"
        BY <1>1, <4>1, RowsIff DEF Regular
      <4>2. CASE job.kind = "QuantVRowQkv"
        BY <1>1, <4>2, RowsIff DEF Regular
      <4> QED BY <2>4, <4>1, <4>2 DEF VRows
    <3> HIDE DEF Shape, Words, Plain, Rows, A
    <3> QED BY <2>1, <3>1, <3>2
  <2>5. CASE job.kind = "QuantTrunk"
    <3>1. A <=> Words /\ Plain
      <4>1. /\ job.kind # "QuantVCol" /\ job.kind \notin VRows
            /\ (Q4Packs(job.q, job.s) <=> Plain)
        BY <1>1, <2>5, Q4PacksIff DEF VRows
      <4> QED BY <4>1, Zenon DEF Asserted, Out
    <3>2. Regular <=> Shape /\ Words /\ Plain
      BY <2>5 DEF Regular
    <3> HIDE DEF Shape, Words, Plain, A
    <3> QED BY <2>1, <3>1, <3>2
  <2> QED BY <2>2, <2>3, <2>4, <2>5 DEF QuantKinds, VRows
<1> QED BY <1>1, VerdictHolds, PTL
=============================================================================
