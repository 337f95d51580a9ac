------------------------------ MODULE Migrate ------------------------------
(***************************************************************************)
(* gguf-recast migrate (src/migrate.rs): open the input, create the        *)
(* output, copy the KV section key by key and the tensor infos with their  *)
(* codes resolved, write the header, then stream the data.  Each step      *)
(* takes at most one step of the gguf::Writer this module extends.         *)
(*                                                                         *)
(* Unlike recast, migrate creates its output before it has looked at the   *)
(* KV section, and reads the data through the input's path: if both paths  *)
(* are one file, creating the output empties the input.                    *)
(***************************************************************************)
EXTENDS GGUFWriter, Selection, Functions

CONSTANTS
  Files,       \* input files, see MigrateSpec
  TypeTable,   \* TYPE_CODE_MIGRATIONS
  FtypeTable,  \* FTYPE_MIGRATIONS
  MaxRounds    \* bound on the runs one behaviour chains

VARIABLES
  pc,       \* where run stands
  round,    \* runs started, 1..MaxRounds
  again,    \* the input is the output of an earlier run
  input,    \* the input file
  inplace,  \* input and output are the same path
  at,       \* KVs of the input the copy loop is past
  vals,     \* values of the KVs declared, as kvs holds their keys
  codes,    \* type codes of the tensors declared
  written,  \* data handed to the writer
  disk,     \* what the output path holds: "old", "partial" or "whole"
  output,   \* the file there once it is whole, NoFile before
  cause     \* why run failed

result == <<disk, output>>
run == <<at, vals, codes, written, cause>>
mvars == <<pc, round, again, input, inplace, run, result>>
vars == <<mvars, wvars>>

Spec0 == INSTANCE MigrateSpec
           WITH verdict <- IF pc \in {"ok", "err", "panicked", "crashed"}
                           THEN pc ELSE "running"

ARCH     == "general.architecture"
FTYPE    == "general.ftype"
MIGRATED == "recast.migrated"
EMPTY    == <<"str", 0>>
NoFile   == [kvs |-> <<>>, tensors |-> <<>>]

Ends == {"ok", "err", "panicked", "crashed"}

\* The variants of a Value, the four kinds of array as one.
Forms == {"u8", "i8", "u16", "i16", "u32", "i32", "u64", "i64", "f32", "f64", "bool",
          "str", "arr"}

InTensor == [name : Names, code : Nat, elems : Nat, data : STRING]
File     == [kvs : Seq([key : Keys, val : Forms \X Nat]), tensors : Seq(InTensor)]

\* Files are well formed, and the writer's instance has room for what they
\* declare: each run may add a key, and any known code may be a tensor's.
ASSUME MigrateAssumption ==
  /\ Files \subseteq File
  /\ {ARCH, FTYPE, MIGRATED} \subseteq Keys
  /\ TypeTable \in Seq(Nat \X Nat) /\ FtypeTable \in Seq(Nat \X Nat)
  /\ MaxRounds \in Nat \ {0} /\ MaxKvs \in Nat /\ MaxTensors \in Nat
  /\ \A f \in Files :
        /\ Len(f.kvs) + MaxRounds <= MaxKvs /\ Len(f.tensors) <= MaxTensors
        /\ \A i \in DOMAIN f.tensors, t \in KnownTypes :
              NBytes(t, f.tensors[i].elems) \in Sizes

Code(i) == resolve_type_code(TypeTable, input.tensors[i].code)
Bytes(i) == NBytes(Code(i), input.tensors[i].elems)

-----------------------------------------------------------------------------
Init == /\ WInit
        /\ pc = "open" /\ disk = "old" /\ output = NoFile /\ cause = "none" /\ at = 0
        /\ vals = <<>> /\ codes = <<>> /\ written = <<>>
        /\ input \in Files /\ inplace \in BOOLEAN
        /\ round = 1 /\ again = FALSE

\* run returns Err and drops the writer.
Fail(why) ==
  /\ pc' = "err" /\ cause' = why
  /\ UNCHANGED <<round, again, input, inplace, at, vals, codes, written, result, wvars>>

\* Where run goes after a writer call that normally leads to next.
AfterWriter(next) ==
  /\ pc' = CASE wstate' = "panicked" -> "panicked"
             [] wstate' = "failed"   -> "err"
             [] OTHER                -> next
  /\ cause' = IF wstate' = "failed" THEN "io" ELSE cause
  /\ UNCHANGED <<round, again, input, inplace>>

IoErr == /\ pc \in {"open", "create", "stream", "sync"}
         /\ pc = "stream" => next_tensor < Len(tensors)
         /\ Fail("io")

\* Reader::open resolves every type code and knows its size, or gives up.
Open ==
  /\ pc = "open"
  /\ \/ /\ \E i \in DOMAIN input.tensors : Code(i) \notin KnownTypes
        /\ Fail("unsupported type")
     \/ /\ \A i \in DOMAIN input.tensors : Code(i) \in KnownTypes
        /\ pc' = "create"
        /\ UNCHANGED <<round, again, input, inplace, run, result, wvars>>

Create ==
  /\ pc = "create"
  /\ New
  /\ pc' = "kvs" /\ disk' = "partial"
  /\ UNCHANGED <<round, again, input, inplace, run, output>>

\* Variant: the value is taken before it is known to be empty.
SkipKvPushed == /\ at' = at + 1
                /\ vals' = Append(vals, input.kvs[at + 1].val)
                /\ UNCHANGED <<pc, round, again, input, inplace, codes, written,
                               result, cause, wvars>>

\* One pass of the KV loop that declares nothing.
SkipKv == /\ at' = at + 1
          /\ UNCHANGED <<pc, round, again, input, inplace, vals, codes, written,
                         result, cause, wvars>>

\* One pass that declares key k with value v.
PutKv(k, v) == /\ at' = at + 1
               /\ AddKv(k)
               /\ vals' = Append(vals, v)
               /\ AfterWriter("kvs")
               /\ UNCHANGED <<codes, written, result>>

\* Variant: the architecture is not told from the other keys.
CopyKvAnyArch ==
  /\ pc = "kvs" /\ at < Len(input.kvs)
  /\ LET kv == input.kvs[at + 1]
     IN  CASE kv.key # FTYPE /\ kv.val = EMPTY -> SkipKv
           [] kv.key = FTYPE /\ kv.val[1] \notin {"u32", "i32"} ->
                Fail("ftype is not an integer")
           [] kv.key = FTYPE /\ kv.val[1] \in {"u32", "i32"} ->
                PutKv(FTYPE, <<"u32", remap_ftype(FtypeTable, kv.val[2])>>)
           [] OTHER -> PutKv(kv.key, kv.val)

CopyKv ==
  /\ pc = "kvs" /\ at < Len(input.kvs)
  /\ LET kv == input.kvs[at + 1]
     IN  CASE kv.key = ARCH -> IF kv.val[1] = "str" /\ kv.val # EMPTY
                               THEN PutKv(ARCH, kv.val) ELSE SkipKv
           [] kv.key = FTYPE -> IF kv.val[1] \in {"u32", "i32"}
                                THEN PutKv(FTYPE,
                                       <<"u32", remap_ftype(FtypeTable, kv.val[2])>>)
                                ELSE Fail("ftype is not an integer")
           [] OTHER -> IF kv.val = EMPTY THEN SkipKv ELSE PutKv(kv.key, kv.val)

\* Variant: the stored code is written back.
DeclareTensorStored ==
  /\ pc = "kvs" /\ at = Len(input.kvs) /\ Len(codes) < Len(input.tensors)
  /\ LET i == Len(codes) + 1
     IN  /\ AddTensorInfo(input.tensors[i].name, Bytes(i))
         /\ codes' = Append(codes, input.tensors[i].code)
  /\ AfterWriter("kvs")
  /\ UNCHANGED <<at, vals, written, result>>

DeclareTensor ==
  /\ pc = "kvs" /\ at = Len(input.kvs) /\ Len(codes) < Len(input.tensors)
  /\ LET i == Len(codes) + 1
     IN  /\ AddTensorInfo(input.tensors[i].name, Bytes(i))
         /\ codes' = Append(codes, Code(i))
  /\ AfterWriter("kvs")
  /\ UNCHANGED <<at, vals, written, result>>

Moved == Only(input.tensors,
              {t \in Range(input.tensors) : resolve_type_code(TypeTable, t.code) # t.code})

MovedNames == <<"arr", [i \in DOMAIN Moved |-> <<Moved[i].name, Moved[i].code>>]>>

\* Variant: the report is added even if it is empty.
DeclareReportAlways ==
  /\ pc = "kvs" /\ at = Len(input.kvs) /\ Len(codes) = Len(input.tensors)
  /\ AddKv(MIGRATED)
  /\ vals' = Append(vals, MovedNames)
  /\ AfterWriter("begin")
  /\ UNCHANGED <<at, codes, written, result>>

\* The report of the moved codes, if there are any.
DeclareReport ==
  /\ pc = "kvs" /\ at = Len(input.kvs) /\ Len(codes) = Len(input.tensors)
  /\ \/ /\ Moved = <<>>
        /\ pc' = "begin"
        /\ UNCHANGED <<round, again, input, inplace, run, result, wvars>>
     \/ /\ Moved # <<>>
        /\ AddKv(MIGRATED)
        /\ vals' = Append(vals, MovedNames)
        /\ AfterWriter("begin")
        /\ UNCHANGED <<at, codes, written, result>>

Header ==
  /\ \/ pc = "begin" /\ BeginHeader /\ AfterWriter("header")
     \/ pc = "header" /\ EncodeInfo /\ AfterWriter("header")
     \/ /\ pc = "header"
        /\ \/ \E h \in HeaderLens : EmitHeader(h)
           \/ \E h \in HeaderLens, k \in TornAt : EmitHeaderErr(h, k)
        /\ AfterWriter("stream")
  /\ UNCHANGED <<at, vals, codes, written, result>>

\* Reading an emptied input ends in an early EOF.
Readable(i) == inplace => Bytes(i) = 0

\* Variant: the input is read without noticing its end.
CopyDataBlind ==
  /\ pc = "stream" /\ next_tensor < Len(input.tensors)
  /\ WriteTensorData(Bytes(next_tensor + 1))
  /\ written' = Append(written, IF Readable(next_tensor + 1)
                                THEN input.tensors[next_tensor + 1].data ELSE "zeros")
  /\ AfterWriter("stream")
  /\ UNCHANGED <<at, vals, codes, result>>

CopyData ==
  /\ pc = "stream" /\ next_tensor < Len(input.tensors)
  /\ LET i == next_tensor + 1
     IN  \/ ~Readable(i) /\ Fail("early EOF")
         \/ /\ Readable(i)
            /\ \/ WriteTensorData(Bytes(i))
               \/ \E k \in TornAt : WriteTensorDataErr(Bytes(i), k)
            /\ written' = Append(written, input.tensors[i].data)
            /\ AfterWriter("stream")
            /\ UNCHANGED <<at, vals, codes, result>>

FinishFile ==
  /\ pc = "stream" /\ next_tensor = Len(input.tensors)
  /\ Finish
  /\ AfterWriter("sync")
  /\ UNCHANGED <<at, vals, codes, written, result>>

\* What a reader of the finished file finds in it.
OutFile ==
  [kvs |-> [i \in DOMAIN kvs |-> [key |-> kvs[i], val |-> vals[i]]],
   tensors |-> [i \in DOMAIN tensors |->
     [name |-> tensors[i].name, code |-> codes[i],
      elems |-> input.tensors[i].elems, data |-> written[i]]]]

Sync ==
  /\ pc = "sync"
  /\ pc' = "ok" /\ disk' = "whole" /\ output' = OutFile
  /\ UNCHANGED <<round, again, input, inplace, run, wvars>>

-----------------------------------------------------------------------------
Crash ==
  /\ pc \notin Ends
  /\ pc' = "crashed"
  /\ UNCHANGED <<round, again, input, inplace, run, result, wvars>>

\* A new process: on the output of a successful run, or, after a failure or a
\* crash, on the same input if there still is one.
Restart ==
  /\ round < MaxRounds
  /\ round' = round + 1
  /\ pc' = "open" /\ disk' = "old" /\ output' = NoFile /\ cause' = "none" /\ at' = 0
  /\ vals' = <<>> /\ codes' = <<>> /\ written' = <<>>
  /\ wstate' = "none" /\ kvs' = <<>> /\ tensors' = <<>>
  /\ infos' = <<>> /\ offset' = 0 /\ hdr_len' = 0 /\ header_written' = FALSE
  /\ data_pos' = 0 /\ next_tensor' = 0 /\ src_left' = 0 /\ file_len' = 0
  /\ placed' = <<>>
  /\ \/ /\ pc = "ok"
        /\ input' = output /\ again' = TRUE /\ inplace' \in BOOLEAN
     \/ /\ pc \in {"err", "crashed"} /\ ~(inplace /\ disk = "partial")
        /\ UNCHANGED <<input, again, inplace>>

Run == \/ Open \/ Create \/ CopyKv \/ DeclareTensor \/ DeclareReport
       \/ Header \/ CopyData \/ FinishFile \/ Sync

Next == Run \/ IoErr \/ Crash \/ Restart

Spec == Init /\ [][Next]_vars

-----------------------------------------------------------------------------
(* Properties.                                                             *)

MTypeOK ==
  /\ TypeOK
  /\ pc \in {"open", "create", "kvs", "begin", "header", "stream", "sync"} \cup Ends
  /\ round \in 1..MaxRounds /\ again \in BOOLEAN /\ inplace \in BOOLEAN
  /\ at \in 0..Len(input.kvs)
  /\ pc # "panicked" => /\ Len(vals) = Len(kvs)
                        /\ Len(codes) = Len(tensors)
                        /\ Len(written) = next_tensor

\* run does what MigrateSpec says: the output path goes from its old content
\* over a partial file to the migrated file, whole and at once for anyone who
\* waits for Ok; no failure, crash, restart or panic leaves another result.
Implements == Spec0!ASpec

\* Nothing in a migrated file is legacy: each code and ftype is one that the
\* tables leave alone, so that the next reader sees what is stored.
MigratedIsCurrent ==
  pc = "ok" =>
     /\ \A i \in DOMAIN output.tensors :
           resolve_type_code(TypeTable, output.tensors[i].code) = output.tensors[i].code
     /\ \A i \in DOMAIN output.kvs :
           LET kv == output.kvs[i]
           IN  kv.key = FTYPE => remap_ftype(FtypeTable, kv.val[2]) = kv.val[2]

\* The data is neither changed, lost nor moved to another tensor, whatever was
\* retried on the way and even if the input was its own output path.
DataUntouched ==
  pc = "ok" =>
     /\ Len(output.tensors) = Len(input.tensors)
     /\ \A i \in DOMAIN input.tensors :
           /\ Intact(i)
           /\ LET t == input.tensors[i]
                  u == output.tensors[i]
              IN  /\ <<u.name, u.elems>> = <<t.name, t.elems>>
                  /\ u.data = t.data \/ Bytes(i) = 0

\* Migrating what migrate wrote reproduces it KV by KV and tensor by tensor.
SecondRunChangesNothing == again /\ pc = "ok" => output = input

\* What migrate wrote can always be migrated again: no panic (such as a second
\* recast.migrated key) and no refusal, only I/O can go wrong.
SecondRunGoesThrough ==
  again => pc # "panicked" /\ cause \in {"none", "io", "early EOF"}

\* "KV section: architecture, every other KV verbatim, ftype remapped."
OtherKvsVerbatim ==
  pc = "ok" =>
     \A i \in DOMAIN input.kvs :
        input.kvs[i].key \notin {ARCH, FTYPE} =>
           \E j \in DOMAIN output.kvs : output.kvs[j] = input.kvs[i]
=============================================================================
