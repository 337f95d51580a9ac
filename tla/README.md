# Verification of gguf-recast

`gguf-recast` is a command-line tool (Rust, `src/src/`) with three
subcommands that each write one GGUF model file:

| subcommand | input | what it does |
|---|---|---|
| `remix` | a Hugging Face checkpoint directory (safetensors shards, JSON) | plans a GGUF file, permutes and repacks 4-bit weights, casts the rest |
| `recast-bf16-fp16` | a GGUF file, a policy | casts BF16 tensors to FP16, tensor by tensor, in one of six tiers |
| `migrate` | a GGUF file | rewrites the type codes of earlier enums to the current one |

All three are sequential programs around one component, `gguf::Writer`, and
all three write their output in place: there is no temporary file and no
rename.  What makes them hard is not concurrency of their own but order and
partial failure.  A GGUF header announces the place of every tensor before any
tensor exists, the plan of one pass is applied to what a later pass reads, and
a failure, a panic or a crash can come between any two steps.

## Inventory

| component | source | state | operations | what makes it correct |
|---|---|---|---|---|
| writer | `gguf.rs` 171-319 | declared KVs and tensors, `header_written`, `data_pos`, `next_tensor`, the sink | `add_kv`, `add_string`, `add_tensor_info`, `write_header`, `write_tensor_data`, `begin_tensor`/`write_chunk`/`end_tensor`, `finish` | data lands where the header said; a torn file shows no wrong data; a finished file is complete; nothing is declared after the header |
| format | `gguf.rs` 9-63 | none | `ggml_pad`, `type_sizes`, `resolve_type_code` | padding, block sizes and table lookup |
| reader | `gguf.rs` 321-541 | parsed header | `open`, `get`, `tensor_data` | yields what a writer wrote; refuses types it cannot size |
| recast | `recast.rs` | plan, recorded scales, rotations and row scales | pass 1, report, KV section, header, pass 2 | the metadata suffices to undo the cast, whatever becomes of the input; the rotation can be undone; the output is touched only when the plan is complete |
| migrate | `migrate.rs` | the KV loop, the list of moved codes | one pass | the result is current, complete, and a fixed point |
| remix | `remix/mod.rs` | plan, consumed set | planning in two phases, KV section, emission | each checkpoint tensor is written exactly once, under one name, in the layout its type promises |
| remix metadata | `remix/meta.rs`, `build_kvs` in `remix/mod.rs` | annotated parts of a model id, the keys added so far | title, components, size label, one block of keys per source | each part of an id gets one meaning; no key is added twice |
| remix vocabulary | `remix/vocab.rs` | token lists | load, special ids, chat template | the special ids name the tokens they are meant for |
| layouts | `quant.rs` | none | unpack, transpose, two packers, permutation | decoding the packed blocks gives the permuted weights |
| floating point | `fp.rs` | none | BF16 to F32, F32 to F16, exp | nearest-even rounding, NaN stays NaN |
| safetensors | `safetensors.rs` | mapped shards | open, slices | names in order, slices in range |
| command line | `main.rs` | none | option lookup, dispatch | exit code |

The components interact by calls only.  `recast` and `migrate` read the input
through the path again for each tensor (`Reader::tensor_data` opens the file
each time), so the file on disk is shared with every other process and, if the
paths are equal, with the output.  A panic (an `assert!` of the writer, a
division by zero) ends the process as an error does, without cleaning up.

The complete list of hazards, each at its line, is in `PROJECT.json`.

## Modules

| module | models | role |
|---|---|---|
| `GGUFFormat` | `gguf.rs` constants, sizes, padding, tables | operators |
| `GGUFWriter` | `gguf::Writer` with a free client and a failing sink | component |
| `GGUFWriterProofs` | theorems about `GGUFWriter` | TLAPS |
| `Selection` | the loops that pass on some elements of a list | operators |
| `CommonLemmas` | lemmas about lists, `Selection`, division and `Quant`, shared by the proofs | TLAPS |
| `Recast` | `recast.rs` on top of `GGUFWriter` | component, composed |
| `RecastProofs` | theorems about `Recast` and its writer | TLAPS |
| `MigrateSpec` | what `migrate` promises, in one step | abstract specification |
| `Migrate` | `migrate.rs` on top of `GGUFWriter` | component, refines `MigrateSpec` |
| `MigrateProofs` | theorems about `Migrate`, and that it implements `MigrateSpec` | TLAPS |
| `Quant` | `quant.rs` and `emit_quant`: layouts, packers, permutations, asserts | operators |
| `EmitQuant` | one call of `emit_quant`, with decoders as the reference | component |
| `EmitQuantProofs` | theorems about `EmitQuant` | TLAPS |
| `Remix` | `remix/mod.rs` on top of `GGUFWriter` and `Quant` | component, composed |
| `RemixProofs` | theorems about `Remix` and its writer | TLAPS |
| `ModelId` | `meta.rs`: the passes that annotate the parts of a model id | operators |
| `Vocab` | `vocab.rs`: token list, special ids, chat template | operators |
| `Metadata` | `build_kvs` on top of `ModelId` and `Vocab` | component |
| `MetadataProofs` | theorems about `Metadata` | TLAPS |
| `Fp16` | `fp.rs`: bfloat16 to binary32 to binary16, on bit patterns | component |
| `Fp16Proofs` | theorems about `Fp16` | TLAPS |
| `MC...` | TLC instances | constants and inputs |

**GGUFWriter.** The variables are the fields of `Writer` under their names
(`kvs`, `tensors`, `header_written`, `data_pos`, `next_tensor`), the locals of
`write_header` (`infos`, `offset`), the length of the file as the sink has
accepted it (`file_len`), and a history of where each started tensor's bytes
begin and how many landed (`placed`).  `wstate` says where the writer's life
stands.  One action per operation; `write_header` is cut at its loop; each
write has a failing twin (`...Err`) in which the sink takes `k` bytes and no
more, after which the caller drops the writer.  Every `assert!` is a branch to
"panicked".  The client is free, so all call orders occur, with one
restriction: between `begin_tensor` and `end_tensor` it streams one source in
chunks until it is exhausted, as the only streaming caller does
(`remix/mod.rs` 409-421).  `SourceExact` says whether a source has the length
its tensor declares.

The file on disk is the sink behind a `BufWriter`: after a failure or a crash
it is some prefix of what the sink accepted.  `NoTornRead` speaks of windows
that lie inside the file, and a window inside a prefix lies inside the whole,
so the longest prefix is the worst case and is the one modelled.

**Recast.** `pc` walks through `run`; the writer's variables are shared with
`GGUFWriter`, and `UsesWriter` checks that each step is a writer step or
leaves the writer alone, so everything shown about the writer holds here.  An
element is a BF16 value in units of 16, which puts FP16's greatest finite
value, 65504, at 4094 and the least magnitude that rounds to infinity, 65520,
at 4095; INF and NAN are symbols above every number, in the order of their bit
patterns.  Signs matter to the rotation only: maxima, scales and what is
emitted are magnitudes.  A scale is the numerator of `num`/1875 (30000 is 1875
units).  `cast` divides and truncates to units, so properties are stated to
within one unit.  The normalized Walsh-Hadamard transform is the code's, level
by level over the leading power of two of each row, for rows of any length; its
root is kept to four decimals.  `MaxFinite` stands for the greatest finite F32
value: what a sum comes to beyond it is an infinity, and the difference of two
of those a NaN, as on the processor.
`Replace` overwrites the input in place while `run` is reading it,
once per run.  With `inplace` the output path is the input path, which the
code does not rule out: `Create` empties the file pass 2 is about to read, so
that every tensor that is not empty ends in an early EOF (`Readable`).  (A
header longer than the 4 MiB buffer is flushed early; a tensor smaller than
the excess could then be read from the new header.  That case is left out,
here and in `Migrate`.)

**Migrate.** A KV value is a form and a payload, a tensor its name, stored
code, element count and an opaque `data` standing for its bytes.  `Restart`
starts a new process on the output of a successful run, or on the same input
after a failure or a crash.  With `inplace` the two paths are one file: once
the output is created, reading a non-empty tensor is an early EOF.  The
refinement maps `pc` to a verdict: everything before an end is "running".
`MigrateSpec` tells apart two refusals: a type nobody knows is found when the
input is opened and costs nothing (`Unreadable`), an ftype of the wrong form
is found when the output has been created and costs the old file (`Refused`).

**Quant, EmitQuant.** Arrays are functions from 0, flat and row-major as in
the code.  Codes and scales are opaque, so a word is the function of its eight
codes and a byte the pair of its nibbles.  The operators are the functions of
`quant.rs` and the branches of `emit_quant`; `Converts` collects every assert
and index they can fail at.  `EmitQuant` takes one planned tensor and ends in
an error, a panic or a blob.  The reference it is judged by is not a second
copy of the packers: it decodes a block the way its format says (split halves,
or interleaved), reads the checkpoint by the AutoGPTQ formula, and states the
tiled order of the heads by position (`GroupedHead`).

**Remix.** `pc` walks through `run`: `phaseA` and `phaseB` plan one tensor per
step, then come the KV section, the header, the check of the permutation and
the emission, one tensor (or one chunk of a streamed one) per step.  A
checkpoint name is a record of where it lives, its layer, its dotted rest and
its suffix, which is what the prefix, suffix and table lookups of the code
tell apart.  What the filter at the start of `run` makes of the checkpoint is
kept in two variables, `model_tensors` and `qweight_order`, as the code keeps
it in two maps.  Of the data only the length of the slice and, in `heads`, the
original V head found at each position are kept.  The length comes from the
shard and not from the shape, so `Emitted` goes through every index the code
takes into a slice.  `build_kvs` is the sequence of keys it adds, one of which
may be refused or need an hparam that is missing.  `Regular` says what a
checkpoint of the supported family is; it is stated about the checkpoint and
the topology only: shapes and lengths, tails that have a place in the file
(`LayerTails`: a tail that only the remapping of the MTP head may produce is
not one of a layer, where the two would meet under one GGUF name), one
tensor per module, and no KV key twice.  `OkMeansWhole` speaks of the tensors up to the
first streamed slice that is not of its shape's length, the place from which
everything behind is displaced (`writer_short` shows the writer's part in it).
`VHeadsAgreeIfQuantized` assumes that the large projections of a layer are
quantized and its gates and convolution are not.  A job says how many MTP layers the configuration counts
(`mtp`); `block_count` and the remapping of MTP names follow from it.

**ModelId, Vocab, Metadata.** `Remix` takes the keys of `build_kvs` as a
sequence that may be refused; `Metadata` is where that sequence comes from.
`pc` walks through the blocks of the function, from the model card to the chat
template, each of which adds keys, fails with an error, or panics at an
`unwrap` of a missing hparam or at a key the writer has already.  A model id
is a sequence of parts with the class of pattern each matches.  A part's
annotation is a set of fields, and the four loops of
`get_model_id_components` are four operators that each map the annotation of
all parts to the next.  `Vocab` keeps of a token its text, whether its blanks
are written as word marks, and whether it looks special; where two entries of
the vocabulary share an id, the order of a hash map decides, which is a choice.

**Fp16.** A pattern is its sign and its magnitude, the pattern without the
sign bit, since patterns of one sign are ordered as their numbers are.
`f32_to_f16_bits` has the branches of the code; shifts are divisions by powers
of two.  The reference it is judged by is not a second conversion but the
inverse: `Widen` gives the exact binary32 pattern of a number of a format with
one mantissa bit more than binary16, whose odd patterns are the midpoints
between neighbouring binary16 numbers.

## Runs

| run | instance | checks | shows |
|---|---|---|---|
| `writer` | 3 tensors of 0, 1, 32, 33 bytes, header lengths 31 to 33, chunks of 20, failures after 0 to 40 bytes | `TypeOK`, `LayoutMatchesHeader`, `NoTornRead`, `FinishedIsComplete`, `HeaderIsFinal` | the writer is right for any client and any failing sink, if sources have their declared length |
| `writer_short` | 2 tensors, sources of any length | `AllTensorsWritten` (violated) | `finish` counts started tensors, not written ones |
| `recast` | tiers T1, T2, T4, T5 and dry run, with and without force, 36 tensor lists, 7 KV sections, output over input | `RTypeOK`, `InfErrorOnlyT4`, `MetadataDecodes`, `RotationUndone`, `FiniteSurvives`, `TouchedOnlyAfterPass1`, `ExitTellsTruth`, `PanicsExactlyWhenDoomed`, `UsesWriter` | pass 1's plan fits pass 2, the metadata decodes the data, also with an input that changes in between, the rotation can be undone, the exit status tells the truth |
| `migrate` | 16 tensor lists, 5 KV sections, up to 3 chained runs | six properties | `migrate` implements `MigrateSpec`; its result is current and a fixed point |
| `migrate_verbatim` | as `migrate` | `OtherKvsVerbatim` (violated) | empty strings are dropped |
| `migrate_next_move` | ftype table with (29, 30) appended | `MigratedIsCurrent` (violated) | one more row does not carry files two moves old |
| `quant` | 216 states: 5 head topologies for rows and 13 for columns, 1 to 64 outputs, 0 to 4 groups, irregular inputs, slices one element off | `Lossless`, `ReordersAll`, `PlannedLength`, `ConvertsExactlyRegular` | decoding the blocks gives the checkpoint's weights in tiled order; what is not regular is refused, except a column tensor with scales to spare |
| `quant_scales` | scales in F16, BF16, F32 | `ScalesAreFp16` (violated) | the type of the scales is never checked |
| `remix` | regular checkpoints with a full-attention layer, a linear-attention layer and an MTP head, and each with one of twelve things wrong at one tensor | nine properties | regular checkpoints convert; Ok means every tensor once, whole, in one block of those counted, in one head order; planning costs no old file; every run ends |
| `metadata` | ids of up to four parts of eight kinds, tokenizers with up to two added tokens, each file with one thing missing or refused | `OneMeaning`, `SpecialIdNamesItsToken`, `PanicsOnlyWithoutHparam` | no part of an id is lost or read twice; special ids agree with the token list; no key twice |
| `fp16` | every bfloat16, and binary32 magnitudes at and next to each tie of each exponent | `RoundsToNearestEven`, `NanStaysNan` | the conversion is IEEE's |
| `remix_plain_projection` | `in_proj_z` left in BF16 | `VHeadsAgree` (violated) | it keeps the old order of heads |

Bounds.  Three tensors suffice for a tensor with a predecessor and a successor,
which is what an offset can disturb; the sizes and header lengths straddle the
alignment on both sides.  Recast's magnitudes sit on and next to each band
limit (2048, 4080, 4096 units), above it, and at NaN, infinity, 0 and the
greatest finite F32 value; rows have 2, 3, 4, 5 and 9 elements, so that the
rotation has one, two or three levels and leaves a tail or none; shapes include
one dimension, no rows, and rows of length 0.  T3 shares T2's arm of the `match` and is left to it.  Three
chained migrations are one more than it takes to reach a fixed point.
The head topologies of `quant` have one, two, three and as many key heads as
value heads, and heads of 16 to 64 elements, so that a head is a part of a
group, a group a part of a head's run, and neither.  In `remix` a fault at one
tensor is enough to reach each error, panic and name collision; its topologies
include heads that do not divide, no key heads, and heads whose run is not a
multiple of 16.  Its streams are cut into chunks of 20 bytes and fail after 0
or 5.  Its MTP checkpoints have one MTP layer counted and up to two present.
Four parts of an id are a basename, something that ends it, and two to follow;
two added tokens are what it takes to clash in id or in content.  The
binary32 magnitudes of `fp16` take every exponent from two below the least
that rounds to a subnormal to two above the greatest finite one, and mantissas
one below, at and one above ties of every shift.
`MaxKvs`, `MaxTensors` and `MaxRounds` are the only bounds on growth; in the
recast, migrate and remix runs the first two are never in the way.

Deadlock checking is off because every run of these programs stops: a writer
is finished, panicked or failed, a process has exited.

Fairness.  `Remix` has weak fairness of the disjunction of the program's own
steps (`Run`): the operating system runs a process that can run.  I/O errors
and crashes are not fair.  Only its `Terminates` uses it.  Of `Recast` and
`Migrate`, whose loops are `for` loops over lists that do not change, no
liveness property is stated, and no fairness assumed.

Mutants.  For each property `PROJECT.json` names a definition and a variant of
it, written next to it in the module ("Variant: ..."), under which the
property fails.

## What the runs found

* `finish` accepts a file with a short tensor (`writer_short`): the chunked
  interface checks no length, and `safetensors.rs` does not compare a slice's
  length with its shape.
* `migrate` drops KVs with empty strings (`migrate_verbatim`), against its
  comment.
* The migration tables are applied once (`migrate_next_move`): a new row is not
  enough for files older than the row before it.  In the type table the second
  migration would also panic, on the `recast.migrated` key the first one left;
  `SecondRunGoesThrough` holds because the tables of today have no chained row.
* The scales of a quantized tensor are read as fp16 bits whatever their type
  is (`quant_scales`).  The length of the stream is checked on the way (the
  packer of `QuantTrunk` and the V rows asserts it), except for `QuantVCol`,
  where it only has to reach far enough.
* That length is also what ends a `QuantVCol` tensor whose inputs do not fill
  their groups: with scales to spare it converts, met when the proof of
  `ConvertsExactlyRegular` asked for the converse.  `Regular` of `EmitQuant`
  names the case.
* A linear-attention projection that is not quantized is written without the
  reordering of its V heads, while its neighbours are reordered
  (`remix_plain_projection`).  The converse was met in the proof: a gate
  (`in_proj_a`, `in_proj_b`) or a convolution that *is* quantized keeps the old
  order too, since phase A reorders only the three large projections.

Not a contradiction to any document, but worth knowing: T4 records row scales
that pass 2 never applies, so a 2-D tensor beyond FP16 always ends a T4 run in
an error after the header is on disk (`InfErrorOnlyT4` pins this down), and
recasting a recast file panics on `recast.tier` after truncating the output
(`PanicsExactlyWhenDoomed`).  T5 rotates in F32: a row of finite BF16 values near
the top of that range can sum to an infinity, which becomes the tensor's scale
and turns its elements to 0 or NaN, with exit status 0; the recorded scale is
then infinite, too, as `MetadataDecodes` says.  A quantized V projection in the MTP head, a
missing hparam, and heads that are not aligned end `remix` in a panic, the
last two after the output was created.  `remix/mod.rs` line 3 gives the type
of the V-column blocks as 42; the code writes 43.

## Proofs

`GGUFWriterProofs` proves, for every value of the constants that satisfies
`WriterAssumption` (naturals for lengths, a header of at least 24 bytes, a
positive chunk):

* `TypeCorrect`: `WSpec => []TypeOK`;
* `HeaderCorrect`: `WSpec => HeaderIsFinal`, from the small invariant
  `Promised` (bytes on disk mean a header that is written, or a failure);
* `LayoutCorrect`, `NoTornReadCorrect`, `FinishedCorrect`: under the further
  assumption `SourceExact`, `WSpec` implies `LayoutMatchesHeader`,
  `NoTornRead` and `FinishedIsComplete` at all times.

The inductive invariant `IInv` says more than the properties: which variables
are still at their initial values in which phase (`Phases`), that offsets are
a ladder whose steps are the padded lengths (`Ladder`), that `data_pos` stands
on the rung of the next tensor, or inside the one being streamed (`Cursor`),
and that each landing is whole except the last (`Landings`).  The two
interesting properties are not inductive alone: that a tensor begins at its
offset follows only from where the previous one ended, and that a window
inside the file is intact follows from the ladder, since every later landing
lies beyond it.  TLC checked `IInv` as an invariant before it was proved.  The
proof has one lemma per group of actions (`DeclareStep`, `HeaderStep`,
`StartStep`, `StreamStep`), lemmas about `ggml_pad` (`PadType`, `PadCovers`,
`PadAligned`), and lemmas on sequences of landings.

`RecastProofs` proves, for every set of jobs within `RecastAssumption` (well
formed input files; the writer's instance has room for what they declare, and
their byte lengths are among its `Sizes`; what `copy_kvs` keeps are keys):

* `UsesWriterTheorem`: `Spec => UsesWriter`, recast drives the writer as the
  writer's specification allows, so that every theorem above holds of it;
* `ExitTheorem`: under `SourceExact`, `Spec => []ExitTellsTruth`;
* `TouchedTheorem`, `RecastTypes`: `Spec` implies `TouchedOnlyAfterPass1` and
  `RTypeOK` at all times;
* `PanicsTheorem`, `InfErrorTheorem`, `MetadataDecodesTheorem`,
  `FiniteSurvivesTheorem`: `Spec` implies `PanicsExactlyWhenDoomed`,
  `InfErrorOnlyT4`, `MetadataDecodes` and `FiniteSurvives` at all times.

The first needs more than it seems to.  The length that pass 2 hands to the
writer is that of the input tensor, the length that pass 1 announced depends on
the plan, and the two are equal only because a plan casts nothing but BF16 and
calls nothing but F32 an F32 passthrough (`Fits`, `AnnouncedIsRead`).  So the
invariant begins with the types of the plan and of the rows (`Typed`): every
scale is a magnitude, the maxima are taken of sets that have a greatest element
(`MaxExists`, from a least distance to `NAN`), rotation gives
rows of values again, however long they are, and a cast gives magnitudes.  `Phase` relates `pc` to the writer's state and `out`,
`Reached` says how far pass 1 came, `Agree` that what is declared is the plan
and what is emitted was readable, `Clean` that `emitted` holds no infinity
(`NoInfEmitted`) and is as long as the writer's count.

Three more parts carry the last four theorems.  `Listed` says that the keys
declared are the beginning of `KvPlan` and without repetition; when a run
reaches the header, all of `KvPlan` is declared, so it had no key twice, and an
input with one is never a success.  `Caught` says the same of T4's rows of
length 0.  The keys of `KvPlan` are joined from parts (`Joined`,
`JoinDistinct`), which is how a panic at a key leads back to two copied keys
alike or to a copied key that is one of `OwnKeys`.  `Faithful` says that, while the
input is not replaced, the plan is what `recast_tensor` wants of it (`Wanted`),
and that, replaced or not, what pass 2 emitted of a tensor is the cast of one
version of its rows by its entry of the plan (`OfAVersion`).  Together with
`Clean` the latter is all that `MetadataDecodes` needs: each element by itself
decodes, whatever the scale is (`CastDecodes`).  For the others the argument is arithmetic: a
cast divides and truncates, so it is monotone, does not exceed 30000 when the
scale was taken from the greatest magnitude, and multiplies back to within one
unit (`CastNumber`, `CastBack`, `CastTop`, `CastBelow`); `EntryGuards` reads off the
plan which of these a tensor falls under, and only T4's arm leaves a case
without a guard.

The conjunction of all parts, `RInv`, is inductive;
`ExitTheorem` follows from it together with the writer's `IInv`.  `SourceExact`
is about streaming clients, which recast is not: it is inherited from `IInv`.

`MigrateProofs` proves, for all files, tables and numbers of runs within
`MigrateAssumption` (well formed files; the writer's instance has room for what
a chain of runs declares, and their byte lengths are among its `Sizes`):

* `ImplementsTheorem`: `Spec => Implements`, that is `MigrateSpec` under the
  mapping of `pc` to a verdict;
* `MigrateTypes`, `DataUntouchedTheorem`: `Spec` implies `MTypeOK`, and with
  `SourceExact` also `DataUntouched`, at all times;
* `MigratedIsCurrentTheorem`, `SecondRunChangesNothingTheorem`,
  `SecondRunGoesThroughTheorem`: for tables that are `Unchained` (what a row
  leads to is moved no further), `Spec` implies the three properties.
  `TablesUnchained` proves that the tables of the code are.

The refinement is shown step by step.  `Create` is the abstract `Touch`, the
last step of a good run (`Sync`) is `Succeed`, a failure, a crash or a panic is
`Stop`, `Restart` is `Again` after a success and `Retry` otherwise, and every other step
stutters.  `Succeed` says in one step what the file now holds, so the
inductive invariant `MInv` must say at every step what has been copied so far:
the keys and values declared are the abstract specification's selection from
the KVs passed (`CopiedKvs`), the tensors are the input's with their codes
resolved (`CopiedTensors`), and the data are the input's and could be read
(`CopiedData`).  Since a panic maps to a `Stop` that the abstract specification allows
only on an ambiguous input, `Phase` carries the reason of a panic, and `Causes`
that of a refusal.  `Lists` and `Typed` bound the lists through a chain of
runs, in which each run may add one key.

`CommonLemmas` holds what the proofs share.  For the loops that pass on some
elements of a list it says that the result is a sequence of elements of the
list in their order, that each step adds one or none, that every element passed
on has one place in the result, and that nothing else is there (`Only...`).
Such a loop is a recursive function of the number of iterations, never an
operator, and each induction is over a set of naturals that contains 0 and is
closed under successor (`AllNaturals`).  For flat arrays it has the quotients
and remainders of what is a multiple and something less (`QuotientIs`, `Scaled`,
`RowMajor`, `DividedTwice`, `Tiled`).  Of `Quant` it says that the permutations
are those of tiled order and leave nothing out (`VPermIs`, `VPermReaches`,
`FusedPermIs`), under which topologies they keep aligned runs of 16 together
(`ChunksStay`), what `Converts` asserts (`ConvertsIs`, `WholeGroups`), and that a
tensor which fits its heads passes it all (`FittingConverts`).  The proofs of
`EmitQuant` and `Remix` rest on these.

`EmitQuantProofs` proves, for every tensor, every topology of heads and every
content of the slices within `JobAssumption` (what `run` has checked before it
calls `emit_quant`: the heads divide, the shape has two dimensions, a column
permutation moves aligned runs of 16):

* `ReordersAllCorrect`: `Spec => []ReordersAll`; the permutation of the code is
  the one stated by position (`PermIs`, `FullPermIs`, from their counterparts
  in `CommonLemmas`), and each element has a position that it feeds
  (`PermReaches`, `FullPermReaches`);
* `PlannedLengthCorrect`, `LosslessCorrect`: the blob is as long as planned, and
  decoding it gives the checkpoint's codes and scales in tiled order;
* `ConvertsExactlyRegularCorrect`: a tensor converts exactly if it is `Regular`.

The invariant is small (`QInv`: what `out` is, from what `job` is); the work is
in reading an element off what each copy of the code makes, one lemma per copy
(`UnpackAt`, `TransposeAt`, `GatherAt`, `PackAt`, `PackArAt`), each of which takes
a flat index apart and puts it together again.  For columns, that a block's
scale is its source group's needs `ChunkGroup`: an aligned run of 16 lies in one
group of 128.  The last theorem reads the asserts in both directions.  The
scales of a column tensor are only asked to reach up to the last group some
block comes from, and since the permutation reaches every column, that is the
last group there is (`ColumnScalesIff`).

`RemixProofs` proves, for all checkpoints and topologies within
`RemixAssumption` (well formed checkpoints; the writer's instance has room for
their keys, names and lengths):

* `RemixCorrect`: `Spec => []RInv`, the inductive invariant;
* `UsesWriter`: `Spec => WSpec`, remix drives the writer as its specification
  allows;
* `RemixTypeCorrect`, `OldFileSparedCorrect`, `OkMeansWholeCorrect`,
  `BlocksWithinCountCorrect`, `LayersKeptApartCorrect`, `EachTensorOnceCorrect`,
  `VHeadsAgreeCorrect`, `RegularSucceedsCorrect`: `Spec` implies `XTypeOK`,
  `OldFileSpared`, `OkMeansWhole`, `BlocksWithinCount`, `LayersKeptApart`,
  `EachTensorOnce`, `VHeadsAgreeIfQuantized` and `RegularSucceeds` at all times.
  (`LayersKeptApart` and `RegularSucceeds` are about `Regular` checkpoints;
  `BlocksWithinCount` about those whose layers `config.json` counts,
  `CountedLayers`, which nothing in the code compares: under that premise it is
  little more than the arithmetic of the renumbering.)

`PlanInv` says what the plan is: first one entry for each `.qweight`, in the order of
the checkpoint, then one for each tensor left over, in increasing order, with
the name, length and source that the code derives from the tensor
(`Progress` says how far each phase came).  `Covered` adds that every tensor
behind the cursor is planned or consumed, and `Stages`, `Declares`
and `Orders` that the run and the writer go in step: what is declared is the
plan, and what was emitted has the head order of its source.

* `EachTensorOnce` follows from the plan alone, but not from one phase: that no
  tensor is used twice needs both that phase B skips what phase A consumed and
  that two `.qweight` tensors do not share a `.scales`.  Planning lets both
  through on checkpoints whose names clash; such a plan has one name twice, and a
  run that is "ok" has passed the writer's refusal of a second declaration.
* `OkMeansWhole` cannot use the writer's `IInv` as it stands, since the slices
  that are streamed are measured nowhere.  `ExactStart` and `ExactStep` of
  `GGUFWriterProofs` say that the writer's invariant survives each operation
  whose source has the declared length, whatever `SourceExact` is; `Lands`
  keeps the invariant up to the first misfit and says that what had landed
  then stays (`WriterKeeps`).
* `VHeadsAgree` is arithmetic on the three permutations, by element, by row and
  by column: `GroupedHead` is the old head at a new position, and each of the
  three, read at the start of a head, is that head (`HeadOfPosition`, from
  quotients and remainders of products, `QuotientIs` and `Scaled`).
* `RegularSucceeds` rules out every error of remix and every assertion, one by
  one.  Planning refuses nothing, since `Regular` gives each tensor the type,
  dimensions and name that its route asks for (`PlanQuantGoes`,
  `PlanStandardGoes`; `PartsTaken` says that phase B meets no part of a
  quantized module).  No name is declared twice: what a name in the file tells
  is its block, its row of the name tables and its suffix (`Target`), hence the
  module in the checkpoint (`TargetsApart`), hence the tensor (`NamesDiffer`).
  No key is either, which needs that the keys declared so far are the job's in
  its order; `Headed` adds that to `RInv`, together with where the header is
  written.  Each entry of the plan is regular in its own phase's sense
  (`RegularEntry`), so that emitting it comes to a buffer of the planned length
  (`QuantEmitted`, `PlainEmitted`), which the writer accepts.  The assertion
  after the header is arithmetic on the topology (`ChunksStay`).  Since the
  tables of names are finite and written out, that no two of their rows share a
  name is evaluated (`OneRow`, `NamesApart`).

`Fp16Proofs` proves, for every set of patterns within `Fp16Assumption`:

* `NearestTheorem`: `Spec => []RoundsToNearestEven`;
* `NanTheorem`: `Spec => []NanStaysNan`.

`rne` is characterised once, by the inequality between twice the dividend and
the odd multiples of half the divisor on either side of the result.  Within one
binade `Mid` is linear, so this inequality is the one `NearestEven` asks for; at the ends of
a binade, where the increment carries into the exponent, the lemmas on `Widen`
place each binade of the small format in one of binary32, in order.  The cases
are those of the code: zero and underflow, the subnormals, the normals,
infinity, NaN.  The inductive invariant `FpInv` says that the variables have
their types and that `half` is the conversion of `bits`; the properties follow
from the lemmas on the conversion.

`MetadataProofs` proves, for model ids of any length and vocabularies of any
size within `DirsAssumption` (well formed files):

* `OneMeaningTheorem`: `Spec => []OneMeaning`;
* `PanicsOnlyWithoutHparamTheorem`, `SpecialIdNamesItsTokenTheorem`: `Spec`
  implies `PanicsOnlyWithoutHparam` and `SpecialIdNamesItsToken` at all times.

For the first, the four passes are followed one after the other until only
six sets are left that a part may be annotated with, and for each of them what
put it there.  Where a pass depends on the parts before or behind, the argument
goes to the first offending part, which exists because the naturals are well
founded (a minimal counterexample, in place of an induction).

A panic at a key that the writer has already is what the second must exclude.
Each block of `build_kvs` adds keys of a set of its own, and the sets are
disjoint (`BlocksApart`); within a block the keys are distinct because they are
picked in order from a list without repetition (`OnlyDistinct`), or numbered.
The invariant `KInv` says that the keys so far are the earlier blocks' and have
no repetition.  For the third, `AssignedIs` says what the token list holds at an
id: the last of the added tokens with that id, else the vocabulary's.

Only model-checked: `Terminates` of `Remix`, since liveness is out of the
prover's reach, and `RotationUndone`, which speaks of the result of a fold over
levels of rounded sums and would need an induction over them.  Every other
property of the passing runs is proved.  The violated properties of the five
runs that expect a violation are counterexamples of TLC.

## Not modelled

Of the metadata: titles, the character patterns of a part, the rounding of a
size label and the values of the keys.  Names that are not well formed, the
rename of `e_score_correction_bias`, the byte-level encoding of keys and
values, the parsers of `Reader::open` and of the safetensors headers, slices
that reach beyond their shard, the table of exponentials in `fp.rs` (data
recorded from another program), the TSV report, argument parsing, the
differential tests, and the vendored crates.  Clients of the
writer that call `begin_tensor`, `write_chunk` and `end_tensor` out of order
are left out, since no caller does (a stream that is too short or too long is
in `writer_short`).  Of F32's rounding `Recast` has the overflow and the
truncation to units, not the 24 bits of a sum.  The policy file is represented
by the set of names its patterns match.

Two hazards have no property: `gguf.rs` 39 (42 is a legacy code of one enum
and a current one of another, and a file does not say which enum it follows)
and `gguf.rs` 521 (the reader aligns to 32 whatever `general.alignment` says).
Both are about files that no program modelled here writes.

## Plan

Done: the writer, the three programs on top of it, the layouts, the
conversion of floating point, the metadata and the vocabulary; the proofs of
every invariant and action property the runs check.  Left, in this order:

1. `Pipeline`: remix, recast and migrate one after the other on shared paths.
2. An abstract specification of `remix`: a plan computed in one step and
   written tensor by tensor, implemented by `Remix`.
