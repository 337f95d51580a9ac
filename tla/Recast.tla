------------------------------- MODULE Recast -------------------------------
(***************************************************************************)
(* recast-bf16-fp16 (src/recast.rs): pass 1 reads every tensor and plans   *)
(* what to do with it, then the output is created, its metadata and header *)
(* written from the plan alone, and pass 2 reads the input a second time   *)
(* to cast the data.  The output goes through gguf::Writer: this module    *)
(* extends GGUFWriter and each of its steps takes at most one writer step. *)
(*                                                                         *)
(* Data.  An element is a BF16 value in units of 16, so that FP16_MAX =    *)
(* 65504 is 4094 and the least magnitude that rounds to the FP16 infinity, *)
(* 65520, is 4095.  MaxFinite stands for the greatest finite F32 value,    *)
(* beyond which a sum is an infinity.  INF and NAN order above the finite  *)
(* magnitudes as their sign-cleared bit patterns do.  Signs matter to the  *)
(* rotation alone: scales and what is emitted are magnitudes.  A scale s   *)
(* is the numerator num of num/1875 (absmax / 30000 is absmax/1875 in      *)
(* units); num = One is 1.0 and num = 0 stands for the floor 1e-30.        *)
(***************************************************************************)
EXTENDS GGUFWriter, Selection, FiniteSetsExt, SequencesExt

CONSTANTS
  Jobs,        \* command lines with their input files, see Job below
  Preserved,   \* tensor names the policy's preserve_bf16 patterns match
  ReplaceWith  \* values another process may overwrite the input with

VARIABLES
  pc,        \* where run stands
  job,       \* [tier, force, inplace, kvs, tensors]: arguments, whether input and
             \* output are one path, and the input file
  cur,       \* rows of each input tensor as they are on disk now
  plan,      \* PlanEntry per classified tensor
  chans,     \* T4: <<tensor index, row scales>> recorded for the KV section
  out,       \* output path: "old", "writing" or "durable"
  emitted,   \* magnitudes written per tensor, <<>> for a passthrough
  replaced,  \* the input's data changed while run was reading it
  cause      \* why run failed

rvars == <<pc, job, cur, plan, chans, out, emitted, replaced, cause>>
vars == <<rvars, wvars>>

INF == 1000000
NAN == 1000001

FP16_MAX        == 4094
FP16_HALF_RANGE == 2048
FP16_OVERFLOW   == 4095
One             == 1875

Ends == {"ok", "err", "panicked", "crashed"}

\* No sum of two finite values comes near INF.
MaxFinite  == 100000
Finites    == (-MaxFinite)..MaxFinite
Values     == Finites \cup {INF, -INF, NAN}
Magnitudes == 0..MaxFinite \cup {INF, NAN}

InTensor == [name : Names, dtype : KnownTypes, shape : Seq(Nat),
             rows : Seq(Seq(Values))]

Job == [tier : {"dry-run", "T1", "T2", "T3", "T4", "T5"}, force : BOOLEAN,
        inplace : BOOLEAN, kvs : Seq([key : STRING, form : STRING]),
        tensors : Seq(InTensor)]

-----------------------------------------------------------------------------
(* Tensors.  shape lists the stored dims, so shape[1] is the row length.   *)

NElems(t) == FoldFunction(LAMBDA a, b : a * b, 1, t.shape)
TensorBytes(t) == NBytes(t.dtype, NElems(t))

Mag(x) == IF x < 0 THEN -x ELSE x

\* The magnitudes of the elements.
Elems(rows) == UNION {{Mag(x) : x \in Range(rows[r])} : r \in DOMAIN rows}

\* Greatest sign-cleared bit pattern: NaN beats Inf beats every finite value.
bf16_absmax(rows) == Max(Elems(rows) \cup {0})

\* An f32 max fold from 0.0, which ignores NaN.
max_fold(elems) == Max((elems \ {NAN}) \cup {0})

\* The F32 value of a sum or quotient of finite values.
F32(x) == IF x \in Finites THEN x ELSE IF x > 0 THEN INF ELSE -INF

plus(a, b) ==
  IF NAN \in {a, b} \/ {a, b} = {INF, -INF} THEN NAN ELSE F32(a + b)

\* A value over root / 10000, rounded towards zero to a unit.
divided(x, root) ==
  IF x \in Finites
    THEN LET q == (Mag(x) * 10000) \div root IN F32(IF x < 0 THEN -q ELSE q)
  ELSE IF x \in {INF, -INF} THEN x ELSE NAN

PowersOf2(n) == {2^k : k \in 0..n} \cap 1..n

largest_pow2_le(n) == Max(PowersOf2(n) \cup {1})

\* The square root of a power of two, in units of 1/10000.
Root(d) == LET s == CHOOSE s \in 1..d : s * s \in {d, d \div 2}
           IN  s * (IF s * s = d THEN 10000 ELSE 14142)

\* One level of butterflies: in each block of 2h, the first d elements' position
\* j meets position j + h.
Level(row, d, h) ==
  [j \in DOMAIN row |->
     IF j > d THEN row[j]
     ELSE IF ((j - 1) \div h) % 2 = 0 THEN plus(row[j], row[j + h])
     ELSE plus(row[j - h], IF row[j] = NAN THEN NAN ELSE -row[j])]

\* Variant: the last level is left out.
SpansShort(d) == SetToSortSeq({h \in PowersOf2(d) : 2 * h < d}, <)

\* h = 1, 2, 4, ... below d.
Spans(d) == SetToSortSeq(PowersOf2(d) \ {d}, <)

\* The normalized transform of the first d elements of a row.
walsh_hadamard_row(row, d) ==
  LET levels == FoldLeft(LAMBDA w, h : Level(w, d, h), row, Spans(d))
  IN  [j \in DOMAIN row |-> IF j > d THEN row[j] ELSE divided(levels[j], Root(d))]

\* Each row up to its largest power of two.
Transformed(rows) ==
  [r \in DOMAIN rows |-> walsh_hadamard_row(rows[r], largest_pow2_le(Len(rows[r])))]

\* One magnitude divided by the scale and rounded to FP16.
cast(x, num) ==
  IF NAN \in {x, num} THEN NAN
  ELSE IF num = INF THEN IF x = INF THEN NAN ELSE 0
  ELSE IF x = INF \/ (num = 0 /\ x # 0) THEN INF
  ELSE IF x = 0 THEN 0
  ELSE IF x * One >= FP16_OVERFLOW * num THEN INF ELSE (x * One) \div num

-----------------------------------------------------------------------------
(* recast_tensor: the plan of one tensor.                                  *)

\* Variant: the limit taken to be 2^16.
classify_bandWide(a) == IF a <= FP16_HALF_RANGE THEN "A"
                        ELSE IF a <= 4096 THEN "B" ELSE "C"

classify_band(a) == IF a <= FP16_HALF_RANGE THEN "A"
                    ELSE IF a <= FP16_MAX THEN "B" ELSE "C"

Cast(num, hadamard) == [kind |-> "CastF16", num |-> num, hadamard |-> hadamard]
Pass(kind) == [kind |-> kind, num |-> One, hadamard |-> FALSE]

\* The per-tensor rescale of T2 and T3, and of T4 and T5 away from 2-D.
Rescale(absmax) ==
  Cast(IF classify_band(absmax) = "C" \/ job.force THEN absmax ELSE One, FALSE)

\* Variant: the scale comes from the rows before the transform.
T5PlanUnrotated(rows) ==
  LET pre == max_fold(Elems(rows))
  IN  Cast(IF pre > FP16_HALF_RANGE \/ job.force THEN pre ELSE One, TRUE)

\* T5 on a 2-D tensor: the scale comes from the transformed rows.
T5Plan(rows) ==
  LET post == max_fold(Elems(Transformed(rows)))
  IN  Cast(IF post > FP16_HALF_RANGE \/ job.force THEN post ELSE One, TRUE)

TierPlan(t, rows, absmax) ==
  CASE job.tier = "dry-run" -> Pass("Bf16Passthrough")
    [] job.tier = "T1" -> IF classify_band(absmax) = "C"
                          THEN Pass("Bf16Passthrough") ELSE Cast(One, FALSE)
    [] job.tier \in {"T2", "T3"} -> Rescale(absmax)
    [] job.tier = "T4" -> IF Len(t.shape) = 2 THEN Cast(One, FALSE) ELSE Rescale(absmax)
    [] job.tier = "T5" -> IF Len(t.shape) = 2 THEN T5Plan(rows) ELSE Rescale(absmax)

recast_tensor(t, rows) ==
  IF t.dtype # T_BF16
    THEN Pass(IF t.dtype = T_F32 THEN "F32Passthrough" ELSE "RawPassthrough")
  ELSE IF t.name \in Preserved THEN Pass("Bf16Passthrough")
  ELSE IF bf16_absmax(rows) = 0 THEN Cast(One, FALSE)
  ELSE TierPlan(t, rows, bf16_absmax(rows))

\* T4's per-row scales; the row count is the element count over the row length.
t4_row_scales(rows) ==
  [r \in DOMAIN rows |->
     LET a == max_fold(Elems(<<rows[r]>>))
     IN  IF job.force \/ a > FP16_MAX THEN a ELSE One]

-----------------------------------------------------------------------------
(* What the output declares, from the plan alone.                          *)

ARCH == "general.architecture"

\* Reader::get returns the first match.
Arch == LET at == {i \in DOMAIN job.kvs : job.kvs[i].key = ARCH}
        IN  IF at = {} THEN "none" ELSE job.kvs[Min(at)].form

Dropped == {"empty string", "empty array"}

\* Variant: the architecture is copied like any other key.
copy_kvsAll(section) ==
  LET kept == Only(section, {kv \in Range(section) : kv.form \notin Dropped})
  IN  [i \in DOMAIN kept |-> kept[i].key]

\* copy_kvs: all but the architecture, empty strings and empty arrays.
copy_kvs(section) ==
  LET kept == Only(section, {kv \in Range(section) : kv.key # ARCH /\ kv.form \notin Dropped})
  IN  [i \in DOMAIN kept |-> kept[i].key]

If(cond, keys) == IF cond THEN keys ELSE <<>>

RecastKeys ==
  {ARCH, "recast.tier", "recast.force_rescale",
   "recast.scales.names", "recast.scales.values",
   "recast.hadamard.names", "recast.hadamard.values",
   "recast.per_channel.names", "recast.per_channel.lengths", "recast.per_channel.values"}

\* Jobs are well formed, and the writer's instance has room for what they declare.
ASSUME RecastAssumption ==
  /\ Jobs \subseteq Job /\ ReplaceWith \subseteq Values
  /\ RecastKeys \subseteq Keys /\ MaxKvs \in Nat /\ MaxTensors \in Nat
  /\ \A j \in Jobs :
        /\ copy_kvs(j.kvs) \in Seq(Keys)
        /\ Len(copy_kvs(j.kvs)) + 10 <= MaxKvs
        /\ Len(j.tensors) <= MaxTensors
        /\ \A i \in DOMAIN j.tensors :
              NElems(j.tensors[i]) \in Nat /\ TensorBytes(j.tensors[i]) \in Sizes

\* Variant: only downscaled tensors are recorded.
ScaledDown == {i \in DOMAIN plan : plan[i].num > One}

\* The tensors whose names and scales, and whose names, the KV lists hold.
Scaled  == {i \in DOMAIN plan : plan[i].num # One}
Rotated == {i \in DOMAIN plan : plan[i].hadamard}

\* The KVs that run adds after those it copies.
OwnKeys ==
  <<"recast.tier">> \o If(job.force, <<"recast.force_rescale">>)
  \o If(Scaled # {}, <<"recast.scales.names", "recast.scales.values">>)
  \o If(Rotated # {}, <<"recast.hadamard.names", "recast.hadamard.values">>)
  \o If(chans # <<>>, <<"recast.per_channel.names", "recast.per_channel.lengths",
                        "recast.per_channel.values">>)

KvPlan == If(Arch = "string", <<ARCH>>) \o copy_kvs(job.kvs) \o OwnKeys

OutBytes(i) ==
  LET t == job.tensors[i]
  IN  CASE plan[i].kind = "CastF16"        -> NElems(t) * 2
        [] plan[i].kind = "F32Passthrough" -> NElems(t) * 4
        [] OTHER                           -> TensorBytes(t)

-----------------------------------------------------------------------------
(* The run.                                                                *)

Init ==
  /\ WInit
  /\ job \in Jobs
  /\ cur = [i \in DOMAIN job.tensors |-> job.tensors[i].rows]
  /\ pc = "open" /\ out = "old" /\ cause = "none" /\ replaced = FALSE
  /\ plan = <<>> /\ chans = <<>> /\ emitted = <<>>

\* run returns Err: the writer, if any, is dropped with the bytes it has.
Fail(why) ==
  /\ pc' = "err" /\ cause' = why
  /\ UNCHANGED <<job, cur, plan, chans, out, emitted, replaced, wvars>>

\* Where run goes after a writer call that normally leads to next.
AfterWriter(next) ==
  /\ pc' = CASE wstate' = "panicked" -> "panicked"
             [] wstate' = "failed"   -> "err"
             [] OTHER                -> next
  /\ cause' = IF wstate' = "failed" THEN "io" ELSE cause

\* Any file operation may fail.
IoErr == /\ pc \in {"open", "classify", "channels", "report", "create", "stream",
                    "sync"}
         /\ pc = "stream" => next_tensor < Len(tensors)
         /\ Fail("io")

\* Tier, policy and header are checked before anything is read or written.
Open ==
  /\ pc = "open"
  /\ \/ /\ Arch \notin {"string", "empty string"}
        /\ Fail("no architecture")
     \/ /\ Arch \in {"string", "empty string"}
        /\ pc' = "classify"
        /\ UNCHANGED <<job, cur, plan, chans, out, emitted, replaced, cause, wvars>>

Next1 == Len(plan) + 1

Classify ==
  /\ pc = "classify" /\ Len(plan) < Len(job.tensors)
  /\ LET t == job.tensors[Next1]
         e == recast_tensor(t, cur[Next1])
     IN  /\ plan' = Append(plan, e)
         /\ pc' = IF job.tier = "T4" /\ e.kind = "CastF16" /\ Len(t.shape) = 2
                  THEN "channels" ELSE "classify"
  /\ UNCHANGED <<job, cur, chans, out, emitted, replaced, cause, wvars>>

\* Variant: the plan entry is pushed by the recording, too.
RecordChannelsTwice ==
  /\ pc = "channels"
  /\ pc' = "classify"
  /\ plan' = Append(plan, plan[Len(plan)])
  /\ chans' = Append(chans, <<Len(plan), t4_row_scales(cur[Len(plan)])>>)
  /\ UNCHANGED <<job, cur, out, emitted, replaced, cause, wvars>>

\* T4 reads the tensor again to record row scales; a row length of 0 divides
\* by zero.
RecordChannels ==
  /\ pc = "channels"
  /\ LET i == Len(plan)
     IN  /\ pc' = IF job.tensors[i].shape[1] = 0 THEN "panicked" ELSE "classify"
         /\ chans' = IF cur[i] = <<>> THEN chans
                     ELSE Append(chans, <<i, t4_row_scales(cur[i])>>)
  /\ UNCHANGED <<job, cur, plan, out, emitted, replaced, cause, wvars>>

EndPass1 ==
  /\ pc = "classify" /\ Len(plan) = Len(job.tensors)
  /\ pc' = "report"
  /\ UNCHANGED <<job, cur, plan, chans, out, emitted, replaced, cause, wvars>>

\* Variant: the dry run goes on.
ReportOnly ==
  /\ pc = "report"
  /\ pc' = "create"
  /\ UNCHANGED <<job, cur, plan, chans, out, emitted, replaced, cause, wvars>>

\* The TSV report; a dry run stops here.
Report ==
  /\ pc = "report"
  /\ pc' = IF job.tier = "dry-run" THEN "ok" ELSE "create"
  /\ UNCHANGED <<job, cur, plan, chans, out, emitted, replaced, cause, wvars>>

\* File::create truncates whatever the output path held.
Create ==
  /\ pc = "create"
  /\ New
  /\ pc' = "declare" /\ out' = "writing"
  /\ UNCHANGED <<job, cur, plan, chans, emitted, replaced, cause>>

DeclareKv ==
  /\ pc = "declare" /\ Len(kvs) < Len(KvPlan)
  /\ AddKv(KvPlan[Len(kvs) + 1])
  /\ AfterWriter("declare")
  /\ UNCHANGED <<job, cur, plan, chans, out, emitted, replaced>>

DeclareTensor ==
  /\ pc = "declare" /\ Len(kvs) = Len(KvPlan) /\ Len(tensors) < Len(plan)
  /\ LET i == Len(tensors) + 1
     IN  AddTensorInfo(job.tensors[i].name, OutBytes(i))
  /\ AfterWriter("declare")
  /\ UNCHANGED <<job, cur, plan, chans, out, emitted, replaced>>

Header ==
  /\ \/ /\ pc = "declare" /\ Len(kvs) = Len(KvPlan) /\ Len(tensors) = Len(plan)
        /\ BeginHeader
        /\ AfterWriter("header")
     \/ /\ pc = "header"
        /\ \/ EncodeInfo /\ AfterWriter("header")
           \/ (\E h \in HeaderLens : EmitHeader(h)) /\ AfterWriter("stream")
           \/ (\E h \in HeaderLens, k \in TornAt : EmitHeaderErr(h, k))
              /\ AfterWriter("stream")
  /\ UNCHANGED <<job, cur, plan, chans, out, emitted, replaced>>

Next2 == next_tensor + 1

\* The input is read by its path: if that is the output's, Create emptied it, and
\* what is there by now ends before the old place of the tensor.
Readable(i) == job.inplace => TensorBytes(job.tensors[i]) = 0

\* Rows as pass 2 casts them: rotated if the plan says so, then scaled.
Pass2Rows(i) ==
  LET rows == IF plan[i].hadamard THEN Transformed(cur[i]) ELSE cur[i]
  IN  [r \in DOMAIN rows |->
         [c \in DOMAIN rows[r] |-> cast(Mag(rows[r][c]), plan[i].num)]]

Overflows(i) == plan[i].kind = "CastF16" /\ INF \in Elems(Pass2Rows(i))

\* Variant: tensors passed through go straight to the sink.
EmitRaw ==
  /\ pc = "stream" /\ next_tensor < Len(plan)
  /\ next_tensor' = next_tensor + 1
  /\ file_len' = file_len + TensorBytes(job.tensors[Next2])
  /\ emitted' = Append(emitted, <<>>)
  /\ UNCHANGED <<pc, job, cur, plan, chans, out, replaced, cause, wstate, decl, head,
                 data_pos, src_left, placed>>

\* Pass 2 on the next tensor: read it again, cast it, hand it to the writer.
\* An infinity among the results is an error, found before anything is written.
\* As many bytes go out as came in, whatever the plan declared.
Emit ==
  /\ pc = "stream" /\ next_tensor < Len(plan)
  /\ \/ /\ ~Readable(Next2)
        /\ Fail("early EOF")
     \/ /\ Readable(Next2) /\ Overflows(Next2)
        /\ Fail("inf")
     \/ /\ Readable(Next2) /\ ~Overflows(Next2)
        /\ LET len == TensorBytes(job.tensors[Next2])
           IN  \/ WriteTensorData(len)
               \/ \E k \in TornAt : WriteTensorDataErr(len, k)
        /\ AfterWriter("stream")
        /\ emitted' = Append(emitted, IF plan[Next2].kind = "CastF16"
                                      THEN Pass2Rows(Next2) ELSE <<>>)
        /\ UNCHANGED <<job, cur, plan, chans, out, replaced>>

\* Variant: success is reported before the file is synced.
FinishFileUnsynced ==
  /\ pc = "stream" /\ next_tensor = Len(plan)
  /\ Finish
  /\ AfterWriter("ok")
  /\ UNCHANGED <<job, cur, plan, chans, out, emitted, replaced>>

FinishFile ==
  /\ pc = "stream" /\ next_tensor = Len(plan)
  /\ Finish
  /\ AfterWriter("sync")
  /\ UNCHANGED <<job, cur, plan, chans, out, emitted, replaced>>

\* into_inner and sync_all, then Ok.
Sync ==
  /\ pc = "sync"
  /\ pc' = "ok" /\ out' = "durable"
  /\ UNCHANGED <<job, cur, plan, chans, emitted, replaced, cause, wvars>>

-----------------------------------------------------------------------------
(* The environment.                                                        *)

\* Another process overwrites the tensor data in place; run notices no more
\* than that its next read returns other bytes.
Replace ==
  /\ pc \in {"classify", "channels", "stream"} /\ ~replaced
  /\ \E v \in ReplaceWith :
        cur' = [i \in DOMAIN cur |-> [r \in DOMAIN cur[i] |->
                 [c \in DOMAIN cur[i][r] |-> v]]]
  /\ replaced' = TRUE
  /\ UNCHANGED <<pc, job, plan, chans, out, emitted, cause, wvars>>

Crash ==
  /\ pc \notin Ends
  /\ pc' = "crashed"
  /\ UNCHANGED <<job, cur, plan, chans, out, emitted, replaced, cause, wvars>>

Run == \/ Open \/ Classify \/ RecordChannels \/ EndPass1 \/ Report
       \/ Create \/ DeclareKv \/ DeclareTensor \/ Header \/ Emit
       \/ FinishFile \/ Sync

Next == Run \/ IoErr \/ Replace \/ Crash

Spec == Init /\ [][Next]_vars

-----------------------------------------------------------------------------
(* Properties.                                                             *)

RTypeOK ==
  /\ TypeOK
  /\ pc \in {"open", "classify", "channels", "report", "create", "declare",
             "header", "stream", "sync"} \cup Ends
  /\ job \in Jobs
  /\ Len(plan) <= Len(job.tensors)
  /\ Len(emitted) <= Len(plan)
  /\ \A i \in DOMAIN plan :
        /\ plan[i].kind \in {"CastF16", "Bf16Passthrough", "F32Passthrough",
                             "RawPassthrough"}
        /\ plan[i].num \in Nat /\ plan[i].hadamard \in BOOLEAN
  /\ out \in {"old", "writing", "durable"}
  /\ cause \in {"none", "no architecture", "io", "inf", "early EOF"}

CastIn2D(i) == plan[i].kind = "CastF16" /\ Len(job.tensors[i].shape) = 2

\* The plan of pass 1 suffices for pass 2: on an input that does not change,
\* only T4, which records row scales and casts without them, can run into an
\* infinity, and then for a 2-D tensor that holds a value beyond FP16.
InfErrorOnlyT4 ==
  cause = "inf" /\ ~replaced =>
     /\ job.tier = "T4"
     /\ \E i \in DOMAIN plan :
           CastIn2D(i) /\ \E x \in Elems(cur[i]) : x >= FP16_OVERFLOW /\ x # NAN

\* What a consumer of the output knows about tensor i: the KV lists.
RecordedNum(i) == IF i \in Scaled THEN plan[i].num ELSE One
Turned(i, rows) == IF i \in Rotated THEN Transformed(rows) ELSE rows
SourceRows(i) == Turned(i, job.tensors[i].rows)

Finite(i) == Elems(SourceRows(i)) \cap {INF, NAN} = {}

\* y, times a finite scale, is x to within the rounding of one unit of it.  What
\* was not a number shows as a NaN, and an infinite scale leaves zeros.
Decodes(y, x, num) ==
  IF x \in {INF, NAN} \/ num = NAN THEN y = NAN
  ELSE IF num = INF THEN y = 0
  ELSE /\ y <= FP16_MAX /\ y * num <= x * One
       /\ x = 0 \/ x * One - y * num < num

\* At any time, and whatever becomes of the input between the passes, the
\* recast.scales and recast.hadamard lists are what it takes to undo the cast of
\* each tensor written so far: its elements, all of them, decode by the recorded
\* scale to those of the tensor as pass 1 found it or as it is now, rotated if it
\* is listed as such.  (T4's recast.per_channel lists are not part of it: the
\* elements are not divided by the row scales that they hold.)
MetadataDecodes ==
  \A i \in DOMAIN emitted : plan[i].kind = "CastF16" =>
     \E rows \in {Turned(i, job.tensors[i].rows), Turned(i, cur[i])} :
        /\ DOMAIN emitted[i] = DOMAIN rows
        /\ \A r \in DOMAIN rows :
              /\ DOMAIN emitted[i][r] = DOMAIN rows[r]
              /\ \A c \in DOMAIN rows[r] :
                    Decodes(emitted[i][r][c], Mag(rows[r][c]), RecordedNum(i))

\* The rotation of a tensor listed as rotated is undone by rotating once more:
\* over rows of any length, unless sums overflow F32, the source values come back
\* to within the rounding, one unit per element and one for the result.
RotationUndone ==
  \A i \in Rotated :
     LET rows == job.tensors[i].rows
         back == Transformed(Transformed(rows))
     IN  \A r \in DOMAIN rows : \A c \in DOMAIN rows[r] :
            (\A x \in Elems(<<rows[r]>>) : x * Len(rows[r]) <= MaxFinite) =>
               Mag(back[r][c] - rows[r][c]) <= Len(rows[r]) + 1

\* A tensor that is finite as it is cast, rotated if it is to be, is not wiped
\* out: its cast holds no NaN, and its greatest magnitude survives, at 30000 when
\* it was rescaled.  (A rotation whose sums overflow F32 is another matter: its
\* scale is infinite, and what MetadataDecodes says of such a scale applies.)
FiniteSurvives ==
  pc = "ok" /\ job.tier # "dry-run" /\ ~replaced =>
     \A i \in DOMAIN plan : plan[i].kind = "CastF16" /\ Finite(i) =>
        LET was == max_fold(Elems(SourceRows(i)))
            is == Max(Elems(emitted[i]) \cup {0})
        IN  /\ is # NAN
            /\ is = IF i \in Scaled /\ was > 0 THEN One ELSE was

\* The old output survives every failure and crash up to the end of pass 1,
\* and every dry run.
TouchedOnlyAfterPass1 ==
  out # "old" => /\ job.tier # "dry-run"
                 /\ Arch \in {"string", "empty string"}
                 /\ Len(plan) = Len(job.tensors)

\* Exit status 0 means that the output is on disk, complete, with one intact
\* tensor for each of the input's, none of which was read from the output's own
\* path; and a torn output, whatever ended the run, has no window that holds
\* wrong bytes.
ExitTellsTruth ==
  /\ NoTornRead
  /\ pc = "ok" /\ job.tier # "dry-run" =>
        /\ out = "durable" /\ wstate = "finished" /\ header_written
        /\ Len(tensors) = Len(job.tensors)
        /\ \A i \in DOMAIN tensors :
              Intact(i) /\ (job.inplace => tensors[i].nbytes = 0)

Keep(kv) == kv.key # ARCH /\ kv.form \notin Dropped

TwoAlike(keep) == \E i, j \in keep : i # j /\ job.kvs[i].key = job.kvs[j].key

\* Inputs run cannot get through: two equal keys among the copied KVs, a copied
\* KV of a name that run adds itself, as a former recast leaves them behind, two
\* equal names, or a T4 tensor with rows of length 0.
Doomed ==
  \/ TwoAlike({i \in DOMAIN job.kvs : Keep(job.kvs[i])})
  \/ \E i \in DOMAIN job.kvs : Keep(job.kvs[i]) /\ job.kvs[i].key \in Range(OwnKeys)
  \/ ~IsInjective([i \in DOMAIN job.tensors |-> job.tensors[i].name])
  \/ job.tier = "T4" /\ \E i \in DOMAIN job.tensors :
        LET t == job.tensors[i]
        IN  /\ t.dtype = T_BF16 /\ t.name \notin Preserved
            /\ Len(t.shape) = 2 /\ t.shape[1] = 0

\* run panics on doomed inputs only, and never reports success on one; in
\* particular the output of a recast is not recast again.
PanicsExactlyWhenDoomed ==
  /\ pc = "panicked" => Doomed
  /\ Doomed /\ job.tier # "dry-run" => pc # "ok"

\* Each step of run is a step of the writer or leaves the writer alone.
UsesWriter == WSpec
=============================================================================
