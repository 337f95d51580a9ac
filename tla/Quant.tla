------------------------------- MODULE Quant -------------------------------
(***************************************************************************)
(* src/quant.rs and emit_quant of remix/mod.rs: 4-bit codes and their      *)
(* scales, copied from the AutoGPTQ layout of a checkpoint to blocks of    *)
(* Q4_0 and Q4_0_AR16, with the V heads of a linear-attention layer moved  *)
(* from their grouped order to the tiled one.                              *)
(*                                                                         *)
(* An array is a function on 0..n-1, flat and row-major as in the code.    *)
(* A code and the 16 bits of a scale are opaque; an I32 word is the        *)
(* function of its eight codes and a byte of a block the pair <<low, high>> *)
(* of its nibbles, so that shifting, masking and or-ing only move codes.   *)
(***************************************************************************)
EXTENDS GGUFFormat, FiniteSets

GROUP_SIZE == 128   \* inputs that share a scale in the checkpoint
BLOCK      == 32    \* inputs in a Q4_0 block
AR_BLOCK   == 16    \* inputs in a Q4_0_AR16 block
WORD       == 8     \* codes in an I32 word

Indices(n) == 0..(n - 1)
Size(array) == Cardinality(DOMAIN array)

unpack_autogptq_int4(qweight, in_packed_rows, out_f) ==
  [n \in Indices(in_packed_rows * WORD * out_f) |->
     LET i == n \div out_f
     IN  qweight[(i \div WORD) * out_f + (n % out_f)][i % WORD]]

\* [rows, cols] to [cols, rows]
transpose_u8(src, rows, cols) ==
  [n \in Indices(rows * cols) |-> src[(n % rows) * cols + (n \div rows)]]

\* Split halves: the low nibbles are the block's first 16 codes.
pack_q4_0(codes, scales, out_f, in_f) ==
  LET n_blocks == in_f \div BLOCK
  IN  [n \in Indices(out_f * n_blocks) |->
         LET o == n \div n_blocks
             b == n % n_blocks
             c == o * in_f + b * BLOCK
         IN  [d  |-> scales[(b \div (GROUP_SIZE \div BLOCK)) * out_f + o],
              qs |-> [j \in 0..15 |-> <<codes[c + j], codes[c + j + 16]>>]]]

\* Interleaved: neighbours share a byte; one scale per block.
pack_q4_0_ar16(codes, scales, out_f, in_f) ==
  LET n_blocks == in_f \div AR_BLOCK
  IN  [n \in Indices(out_f * n_blocks) |->
         LET c == (n \div n_blocks) * in_f + (n % n_blocks) * AR_BLOCK
         IN  [d  |-> scales[n],
              qs |-> [j \in 0..7 |-> <<codes[c + 2 * j], codes[c + 2 * j + 1]>>]]]

-----------------------------------------------------------------------------
(* The V heads.  A topology has num_k key heads and num_v value heads, of   *)
(* head_k and head_v elements each.                                        *)

\* Variant: the stride of a key head is the number of key heads.
v_reorder_permStride(num_k, num_v, head_dim) ==
  [t \in Indices(num_v * head_dim) |->
     LET vpk == t \div (num_k * head_dim)
         kh  == (t \div head_dim) % num_k
     IN  (kh * num_k + vpk) * head_dim + (t % head_dim)]

\* perm[t] is the original index that feeds position t.
v_reorder_perm(num_k, num_v, head_dim) ==
  [t \in Indices(num_v * head_dim) |->
     LET vpk == t \div (num_k * head_dim)
         kh  == (t \div head_dim) % num_k
     IN  (kh * (num_v \div num_k) + vpk) * head_dim + (t % head_dim)]

\* What assert_16_aligned_chunks lets pass: whole aligned runs of 16 move.
aligned_chunks(perm) ==
  /\ Size(perm) % AR_BLOCK = 0
  /\ \A t \in DOMAIN perm :
        LET first == perm[t - (t % AR_BLOCK)]
        IN  first % AR_BLOCK = 0 /\ perm[t] = first + (t % AR_BLOCK)

perm_v(topo) == v_reorder_perm(topo.num_k, topo.num_v, topo.head_v)

qk_rows(topo) == topo.head_k * topo.num_k * 2

\* Queries and keys stay, the values that follow them are reordered.
full_perm_qkv(topo) ==
  [n \in Indices(qk_rows(topo) + topo.num_v * topo.head_v) |->
     IF n < qk_rows(topo) THEN n
     ELSE qk_rows(topo) + perm_v(topo)[n - qk_rows(topo)]]

-----------------------------------------------------------------------------
(* emit_quant.  q is the .qweight tensor [shape, words], s the .scales      *)
(* tensor [shape, elems], elems being its u16 stream.                      *)

QuantKinds == {"QuantTrunk", "QuantVRowQkv", "QuantVRowZ", "QuantVCol"}

InF(q) == q.shape[1] * WORD
OutF(q) == q.shape[2]
NGroups(q) == InF(q) \div GROUP_SIZE

\* The gather of out rows that a V-row tensor gets.
row_perm(kind, topo) ==
  IF kind = "QuantVRowQkv" THEN full_perm_qkv(topo) ELSE perm_v(topo)

\* Variant: the group of the block's new place.
source_groupUnmoved(perm, b) == (b * AR_BLOCK) \div GROUP_SIZE

\* The checkpoint's group of the block that starts at column b * 16.
source_group(perm, b) == (perm[b * AR_BLOCK] \div AR_BLOCK) \div (GROUP_SIZE \div AR_BLOCK)

\* The one error emit_quant returns.
ScalesMismatch(q, s) == s.shape # <<NGroups(q), OutF(q)>>

\* Variant: inputs beyond the last whole block are not noticed.
Q4PacksRagged(q, s) ==
  /\ Size(s.elems) = NGroups(q) * OutF(q)
  /\ \A b \in Indices(InF(q) \div BLOCK) :
        OutF(q) > 0 => b \div (GROUP_SIZE \div BLOCK) < NGroups(q)

\* What pack_q4_0 asserts and indexes.
Q4Packs(q, s) ==
  /\ InF(q) % BLOCK = 0
  /\ Size(s.elems) = NGroups(q) * OutF(q)
  /\ \A b \in Indices(InF(q) \div BLOCK) :
        OutF(q) > 0 => b \div (GROUP_SIZE \div BLOCK) < NGroups(q)

\* Every assert_eq! and index of emit_quant and its callees, by kind.
Converts(kind, topo, q, s) ==
  /\ Size(q.words) = q.shape[1] * OutF(q)
  /\ CASE kind = "QuantTrunk" -> Q4Packs(q, s)
       [] kind \in {"QuantVRowQkv", "QuantVRowZ"} ->
            Size(row_perm(kind, topo)) = OutF(q) /\ Q4Packs(q, s)
       [] kind = "QuantVCol" ->
            /\ topo.num_v * topo.head_v = InF(q)
            /\ InF(q) % AR_BLOCK = 0
            /\ OutF(q) > 0 =>
                 \A b \in Indices(InF(q) \div AR_BLOCK) :
                    (source_group(perm_v(topo), b) + 1) * OutF(q) <= Size(s.elems)

GatherRows(m, perm, width) ==
  [n \in DOMAIN m |-> m[perm[n \div width] * width + (n % width)]]

\* The scales of a V-row tensor: each group's row gathered.
GatherScales(elems, perm, out_f) ==
  [n \in DOMAIN elems |-> elems[(n \div out_f) * out_f + perm[n % out_f]]]

Trunk(q, s, codes) ==
  pack_q4_0(transpose_u8(codes, InF(q), OutF(q)), s.elems, OutF(q), InF(q))

VRow(q, s, codes, perm) ==
  pack_q4_0(GatherRows(transpose_u8(codes, InF(q), OutF(q)), perm, InF(q)),
            GatherScales(s.elems, perm, OutF(q)), OutF(q), InF(q))

VCol(q, s, codes, perm) ==
  LET n_blocks == InF(q) \div AR_BLOCK
      sc == [n \in Indices(OutF(q) * n_blocks) |->
               s.elems[source_group(perm, n % n_blocks) * OutF(q) + (n \div n_blocks)]]
  IN  pack_q4_0_ar16(transpose_u8(GatherRows(codes, perm, OutF(q)), InF(q), OutF(q)),
                     sc, OutF(q), InF(q))

Blob(kind, topo, q, s) ==
  LET codes == unpack_autogptq_int4(q.words, q.shape[1], OutF(q))
  IN  CASE kind = "QuantTrunk" -> Trunk(q, s, codes)
        [] kind \in {"QuantVRowQkv", "QuantVRowZ"} ->
             VRow(q, s, codes, row_perm(kind, topo))
        [] kind = "QuantVCol" -> VCol(q, s, codes, perm_v(topo))

\* Type code of the blocks a kind is packed into.
BlobType(kind) == IF kind = "QuantVCol" THEN T_Q4_0_AR16 ELSE T_Q4_0

\* Variant: every quantized tensor is planned as Q4_0.
QuantBytesQ4(kind, in_f, out_f) == NBytes(T_Q4_0, in_f) * out_f

\* The plan's byte length: in_f / block * bytes * out_f.
QuantBytes(kind, in_f, out_f) ==
  NBytes(BlobType(kind), in_f) * out_f
=============================================================================
