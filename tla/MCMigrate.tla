----------------------------- MODULE MCMigrate -----------------------------
(***************************************************************************)
(* TLC instance of migrate: current, legacy and unknown type codes, ftypes *)
(* in either integer form and as a string, KV sections with an empty       *)
(* string, an empty array, a non-string architecture, duplicated keys and  *)
(* the report of an earlier migration.  A behaviour chains up to three     *)
(* runs, so that an output is migrated, and a failed run repeated.         *)
(***************************************************************************)
EXTENDS Migrate

T(name, code, elems, bytes) ==
  [name |-> name, code |-> code, elems |-> elems, data |-> bytes]

TensorLists ==
  {<<>>, <<T("a", 42, 16, "p")>>, <<T("a", 41, 16, "p")>>,
   <<T("a", 42, 16, "p"), T("a", T_F32, 1, "q")>>}
  \cup {<<T("a", c, 32, "p"), T("b", d, e, "q")>> :
          c \in {159, T_Q4_0_AR16, T_Q8_0}, d \in {42, T_F32}, e \in {0, 16}}

Kv(key, form, payload) == [key |-> key, val |-> <<form, payload>>]

KvLists ==
  {<<Kv(ARCH, "str", 1), Kv("x", "str", 0), Kv("y", "arr", 0), Kv(FTYPE, "u32", 28)>>,
   <<Kv(FTYPE, "i32", 29), Kv(ARCH, "u32", 7), Kv("x", "str", 1)>>,
   <<Kv(ARCH, "str", 1), Kv(FTYPE, "str", 1)>>,
   <<Kv(ARCH, "str", 0), Kv(MIGRATED, "arr", 1)>>,
   <<Kv("x", "u32", 1), Kv("x", "u32", 2)>>}

MCFiles == [kvs : KvLists, tensors : TensorLists]

MCKeys == {ARCH, FTYPE, MIGRATED, "x", "y"}
MCNames == {"a", "b"}
MCSizes == {0, 2, 4, 10, 18, 20, 32, 34, 64, 128}
MCHeaderLens == {31}
MCTornAt == {0, 33}

\* Migration tables with the next move of the ftype appended.
NextFtypeTable == FTYPE_MIGRATIONS \o << <<29, 30>> >>
=============================================================================
