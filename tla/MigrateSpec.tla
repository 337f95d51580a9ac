---------------------------- MODULE MigrateSpec ----------------------------
(***************************************************************************)
(* What `gguf-recast migrate` (src/migrate.rs) promises, as one atomic     *)
(* step from an input file to an output file: every type code and the      *)
(* ftype move to the current enum, everything else stays.  Migrate shows   *)
(* that the program, which works through gguf::Writer tensor by tensor,    *)
(* implements it.                                                          *)
(*                                                                         *)
(* A file is [kvs, tensors]; a KV is [key, val], val a pair of a form and  *)
(* a payload, <<"str", 0>> being the empty string.  A tensor is            *)
(* [name, code, elems, data]: data stands for its bytes.                   *)
(***************************************************************************)
EXTENDS GGUFFormat, Selection, Functions

CONSTANTS
  Files,       \* input files
  TypeTable,   \* TYPE_CODE_MIGRATIONS: rows <<legacy, current>>
  FtypeTable   \* FTYPE_MIGRATIONS

VARIABLES
  input,    \* the file being migrated
  disk,     \* what the output path holds: "old", "partial" or "whole"
  output,   \* the file there once it is whole, NoFile before
  verdict,  \* "running" or how the run ended
  again     \* the input is the output of an earlier migration

ARCH     == "general.architecture"
FTYPE    == "general.ftype"
MIGRATED == "recast.migrated"

EMPTY == <<"str", 0>>

Integral == {"u32", "i32"}

Resolved(t) == resolve_type_code(TypeTable, t.code)

Legacy(f) == Only(f.tensors, {t \in Range(f.tensors) : Resolved(t) # t.code})

\* The architecture is copied if it is a string; an empty string never is.
Kept(kv) == kv.val # EMPTY /\ (kv.key = ARCH => kv.val[1] = "str")

NewVal(kv) == IF kv.key = FTYPE THEN <<"u32", remap_ftype(FtypeTable, kv.val[2])>>
              ELSE kv.val

Report(f) == IF Legacy(f) = <<>> THEN <<>>
             ELSE <<[key |-> MIGRATED,
                     val |-> <<"arr", [i \in DOMAIN Legacy(f) |->
                                <<Legacy(f)[i].name, Legacy(f)[i].code>>]>>]>>

Migrated(f) ==
  LET kept == Only(f.kvs, {kv \in Range(f.kvs) : Kept(kv)})
  IN  [kvs |-> [i \in DOMAIN kept |-> [key |-> kept[i].key, val |-> NewVal(kept[i])]]
               \o Report(f),
       tensors |-> [i \in DOMAIN f.tensors |->
                      [f.tensors[i] EXCEPT !.code = Resolved(f.tensors[i])]]]

\* Inputs the program refuses: when it opens them, for a type it has no size
\* for, or later for an ftype that is no integer.
Unreadable(f) == \E i \in DOMAIN f.tensors : Resolved(f.tensors[i]) \notin KnownTypes
Refused(f) == \E i \in DOMAIN f.kvs : f.kvs[i].key = FTYPE /\ f.kvs[i].val[1] \notin Integral

\* Inputs it panics on: names or keys of the output would not be unique.  The
\* report of an earlier migration is such a key only if there is one to add.
Ambiguous(f) ==
  LET m == Migrated(f)
  IN  \/ ~IsInjective([i \in DOMAIN m.kvs |-> m.kvs[i].key])
      \/ ~IsInjective([i \in DOMAIN m.tensors |-> m.tensors[i].name])

NoFile == [kvs |-> <<>>, tensors |-> <<>>]

AInit == /\ input \in Files /\ disk = "old" /\ output = NoFile
         /\ verdict = "running" /\ again = FALSE

\* What was at the output path is lost once the input has been opened, even if
\* its KV section is refused.
Touch == /\ verdict = "running" /\ disk = "old" /\ ~Unreadable(input)
         /\ disk' = "partial"
         /\ UNCHANGED <<input, output, verdict, again>>

Succeed == /\ verdict = "running" /\ disk = "partial"
           /\ ~Refused(input) /\ ~Ambiguous(input)
           /\ output' = Migrated(input) /\ disk' = "whole" /\ verdict' = "ok"
           /\ UNCHANGED <<input, again>>

\* A refusal, a failing read or write, a crash; a panic only over the partial file.
Stop == /\ verdict = "running"
        /\ \/ verdict' \in {"err", "crashed"}
           \/ verdict' = "panicked" /\ Ambiguous(input) /\ disk = "partial"
        /\ UNCHANGED <<input, disk, output, again>>

\* Migrate what a migration wrote, to another path.
Again == /\ verdict = "ok"
         /\ input' = output /\ disk' = "old" /\ output' = NoFile
         /\ verdict' = "running" /\ again' = TRUE

\* Run a failed migration once more, over what it left.
Retry == /\ verdict \in {"err", "crashed"}
         /\ disk' = "old" /\ verdict' = "running"
         /\ UNCHANGED <<input, output, again>>

ANext == Touch \/ Succeed \/ Stop \/ Again \/ Retry

ASpec == AInit /\ [][ANext]_<<input, disk, output, verdict, again>>
=============================================================================
