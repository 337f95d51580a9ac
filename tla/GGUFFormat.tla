----------------------------- MODULE GGUFFormat -----------------------------
(***************************************************************************)
(* The pure part of src/gguf.rs: alignment arithmetic, the type codes the  *)
(* tool knows, the sizes they imply, and the migration tables that map a   *)
(* code of an earlier enum to the current one.                             *)
(***************************************************************************)
EXTENDS Integers, Sequences

ALIGNMENT == 32

\* x.div_ceil(align) * align
ggml_pad(x, align) == ((x + align - 1) \div align) * align

T_F32       == 0
T_F16       == 1
T_Q4_0      == 2
T_Q8_0      == 8
T_BF16      == 30
T_Q4_0_AR16 == 43

\* (block size, bytes per block) of the types the tool reads or writes; a
\* code outside the domain is the None of the match.
type_sizes ==
  [t \in {T_F32, T_F16, T_Q4_0, T_Q8_0, T_BF16, T_Q4_0_AR16} |->
     CASE t = T_F32       -> [block |-> 1,  bytes |-> 4]
       [] t = T_F16       -> [block |-> 1,  bytes |-> 2]
       [] t = T_Q4_0      -> [block |-> 32, bytes |-> 18]
       [] t = T_Q8_0      -> [block |-> 32, bytes |-> 34]
       [] t = T_BF16      -> [block |-> 1,  bytes |-> 2]
       [] t = T_Q4_0_AR16 -> [block |-> 16, bytes |-> 10]]

KnownTypes == DOMAIN type_sizes

\* A reader derives a tensor's byte length from its dims, never from the file.
NBytes(t, n_elems) == (n_elems \div type_sizes[t].block) * type_sizes[t].bytes

\* Rows are <<legacy, current>>, in table order.
TYPE_CODE_MIGRATIONS == << <<42, T_Q4_0_AR16>>, <<159, T_Q4_0_AR16>> >>
FTYPE_MIGRATIONS     == << <<28, 29>> >>

\* The code a table moves c to: the first row for c, c itself if there is none.
resolve_type_code(table, c) ==
  LET rows == {i \in DOMAIN table : table[i][1] = c}
  IN  IF rows = {} THEN c
      ELSE table[CHOOSE i \in rows : \A j \in rows : i <= j][2]

\* Variant: every value from the moved one on shifts.
remap_ftypeShift(table, f) == IF f >= table[1][1] THEN f + 1 ELSE f

\* migrate's ftype loop has no break: the last row for f wins.
remap_ftype(table, f) ==
  LET rows == {i \in DOMAIN table : table[i][1] = f}
  IN  IF rows = {} THEN f
      ELSE table[CHOOSE i \in rows : \A j \in rows : j <= i][2]
=============================================================================
