----------------------------- MODULE GGUFWriter -----------------------------
(***************************************************************************)
(* gguf::Writer: KV pairs and tensor infos are declared first, the header  *)
(* fixes every tensor's offset before any data exists, and the data is     *)
(* then appended, whole or in chunks, in declaration order.  The client is *)
(* free: it may call the operations in any order, so that each assert! of  *)
(* the code is reachable.  The one protocol it keeps is that of its only   *)
(* streaming caller (remix/mod.rs): chunks of one source follow            *)
(* begin_tensor until the source is exhausted, and end_tensor comes next.  *)
(*                                                                         *)
(* An io::Error from the sink is propagated with `?` by every caller, which *)
(* drops the writer: "failed" is terminal, as are "panicked" (an assert)   *)
(* and "finished".                                                         *)
(***************************************************************************)
EXTENDS GGUFFormat, FiniteSets

CONSTANTS
  Keys,         \* KV keys
  Names,        \* tensor names
  Sizes,        \* byte lengths a tensor may declare, and a buffer may have
  HeaderLens,   \* lengths the encoded header may have before padding
  TornAt,       \* bytes of a failing write the sink may still take
  ChunkLen,     \* bytes in a full chunk of a streamed source
  SourceExact,  \* TRUE: a streamed source has exactly the declared length
  MaxKvs,       \* bound on declared KVs
  MaxTensors    \* bound on declared tensors

ASSUME WriterAssumption ==
  /\ Sizes \subseteq Nat
  /\ HeaderLens \subseteq Nat \ (0..23)
  /\ TornAt \subseteq Nat
  /\ ChunkLen \in Nat \ {0}
  /\ SourceExact \in BOOLEAN

VARIABLES
  wstate,          \* where the writer's life stands
  kvs,             \* keys of the declared KVs, in order
  tensors,         \* declared tensors [name, nbytes], in order
  infos,           \* offsets encoded so far by write_header, one per tensor
  offset,          \* write_header's running offset
  hdr_len,         \* length of the encoded header before padding
  header_written,
  data_pos,        \* bytes of the data section the writer has accounted for
  next_tensor,     \* tensors whose data has been started
  src_left,        \* bytes the streamed source still has to give
  file_len,        \* bytes accepted by the sink
  placed           \* per started tensor: where its bytes begin, how many landed

decl == <<kvs, tensors>>
head == <<infos, offset, hdr_len, header_written>>
data == <<data_pos, next_tensor, src_left, file_len, placed>>
wvars == <<wstate, decl, head, data>>

Tensor == [name : Names, nbytes : Sizes]
Landing == [pos : Nat, len : Nat]

Ended == {"finished", "panicked", "failed"}

DataStart == ggml_pad(hdr_len, ALIGNMENT)

WInit ==
  /\ wstate = "none"
  /\ kvs = <<>> /\ tensors = <<>>
  /\ infos = <<>> /\ offset = 0 /\ hdr_len = 0 /\ header_written = FALSE
  /\ data_pos = 0 /\ next_tensor = 0 /\ src_left = 0 /\ file_len = 0
  /\ placed = <<>>

\* A failed assert!: nothing was assigned before it.
Panic == /\ wstate' = "panicked"
         /\ UNCHANGED <<decl, head, data>>

New == /\ wstate = "none"
       /\ wstate' = "open"
       /\ UNCHANGED <<decl, head, data>>

AddKv(k) ==
  /\ wstate = "open"
  /\ \/ /\ header_written \/ \E i \in DOMAIN kvs : kvs[i] = k
        /\ Panic
     \/ /\ ~header_written
        /\ \A i \in DOMAIN kvs : kvs[i] # k
        /\ kvs' = Append(kvs, k)
        /\ UNCHANGED <<wstate, tensors, head, data>>

\* Variant: without the "tensor info added after header" assertion.
AddTensorInfoLate(n, nb) ==
  /\ wstate = "open"
  /\ \A i \in DOMAIN tensors : tensors[i].name # n
  /\ tensors' = Append(tensors, [name |-> n, nbytes |-> nb])
  /\ UNCHANGED <<wstate, kvs, head, data>>

AddTensorInfo(n, nb) ==
  /\ wstate = "open"
  /\ \/ /\ header_written \/ \E i \in DOMAIN tensors : tensors[i].name = n
        /\ Panic
     \/ /\ ~header_written
        /\ \A i \in DOMAIN tensors : tensors[i].name # n
        /\ tensors' = Append(tensors, [name |-> n, nbytes |-> nb])
        /\ UNCHANGED <<wstate, kvs, head, data>>

-----------------------------------------------------------------------------
(* write_header: one call, cut at the iterations of its offset loop.       *)

BeginHeader ==
  /\ wstate = "open"
  /\ \/ /\ header_written
        /\ Panic
     \/ /\ ~header_written
        /\ wstate' = "encoding"
        /\ offset' = 0
        /\ UNCHANGED <<decl, infos, hdr_len, header_written, data>>

\* Variant: offsets advance by the bare length.
EncodeInfoUnpadded ==
  /\ wstate = "encoding"
  /\ Len(infos) < Len(tensors)
  /\ infos' = Append(infos, offset)
  /\ offset' = offset + tensors[Len(infos) + 1].nbytes
  /\ UNCHANGED <<wstate, decl, hdr_len, header_written, data>>

EncodeInfo ==
  /\ wstate = "encoding"
  /\ Len(infos) < Len(tensors)
  /\ infos' = Append(infos, offset)
  /\ offset' = offset + ggml_pad(tensors[Len(infos) + 1].nbytes, ALIGNMENT)
  /\ UNCHANGED <<wstate, decl, hdr_len, header_written, data>>

\* The encoded header, h bytes and padding, goes out in one write_all.
EmitHeader(h) ==
  /\ wstate = "encoding"
  /\ Len(infos) = Len(tensors)
  /\ wstate' = "open"
  /\ hdr_len' = h
  /\ header_written' = TRUE
  /\ file_len' = ggml_pad(h, ALIGNMENT)
  /\ UNCHANGED <<decl, infos, offset, data_pos, next_tensor, src_left, placed>>

\* The sink took k bytes of the header and no more.
EmitHeaderErr(h, k) ==
  /\ wstate = "encoding"
  /\ Len(infos) = Len(tensors)
  /\ k < ggml_pad(h, ALIGNMENT)
  /\ wstate' = "failed"
  /\ hdr_len' = h
  /\ file_len' = k
  /\ UNCHANGED <<decl, infos, offset, header_written, data_pos, next_tensor,
                 src_left, placed>>

-----------------------------------------------------------------------------
(* The data section.                                                       *)

Declared == tensors[next_tensor + 1].nbytes

\* The assert and the bounds check that guard the start of a next tensor.
CanStart == header_written /\ next_tensor < Len(tensors)

\* Variant: the length is not asserted.
AcceptsAny(len) == CanStart

Accepts(len) == CanStart /\ len = Declared

WriteTensorData(len) ==
  /\ wstate = "open"
  /\ \/ /\ ~Accepts(len)
        /\ Panic
     \/ /\ Accepts(len)
        /\ next_tensor' = next_tensor + 1
        /\ data_pos' = ggml_pad(data_pos + len, ALIGNMENT)
        /\ file_len' = file_len + data_pos' - data_pos
        /\ placed' = Append(placed, [pos |-> file_len, len |-> len])
        /\ UNCHANGED <<wstate, decl, head, src_left>>

\* The sink took k bytes of the tensor (then nothing is accounted for), or all
\* of them and k - len bytes of the padding.
WriteTensorDataErr(len, k) ==
  /\ wstate = "open"
  /\ Accepts(len)
  /\ k < ggml_pad(data_pos + len, ALIGNMENT) - data_pos
  /\ wstate' = "failed"
  /\ next_tensor' = next_tensor + 1
  /\ data_pos' = IF k < len THEN data_pos ELSE data_pos + len
  /\ file_len' = file_len + k
  /\ placed' = Append(placed, [pos |-> file_len,
                               len |-> IF k < len THEN k ELSE len])
  /\ UNCHANGED <<decl, head, src_left>>

\* The caller starts streaming a source of src bytes.
BeginTensor(src) ==
  /\ wstate = "open"
  /\ \/ /\ ~CanStart
        /\ Panic
     \/ /\ CanStart
        /\ SourceExact => src = Declared
        /\ wstate' = "streaming"
        /\ next_tensor' = next_tensor + 1
        /\ src_left' = src
        /\ placed' = Append(placed, [pos |-> file_len, len |-> 0])
        /\ UNCHANGED <<decl, head, data_pos, file_len>>

\* Variant: the last chunk is taken to be full.
FullChunk == ChunkLen

Chunk == IF src_left < ChunkLen THEN src_left ELSE ChunkLen

Landed(n) == [placed EXCEPT ![next_tensor] = [pos |-> @.pos, len |-> @.len + n]]

WriteChunk ==
  /\ wstate = "streaming" /\ src_left > 0
  /\ src_left' = src_left - Chunk
  /\ data_pos' = data_pos + Chunk
  /\ file_len' = file_len + Chunk
  /\ placed' = Landed(Chunk)
  /\ UNCHANGED <<wstate, decl, head, next_tensor>>

WriteChunkErr(k) ==
  /\ wstate = "streaming" /\ k < Chunk
  /\ wstate' = "failed"
  /\ file_len' = file_len + k
  /\ placed' = Landed(k)
  /\ UNCHANGED <<decl, head, data_pos, next_tensor, src_left>>

Padding == ggml_pad(data_pos, ALIGNMENT) - data_pos

\* Variant: a streamed tensor is not padded.
EndTensorUnpadded ==
  /\ wstate = "streaming" /\ src_left = 0
  /\ wstate' = "open"
  /\ UNCHANGED <<decl, head, data>>

EndTensor ==
  /\ wstate = "streaming" /\ src_left = 0
  /\ wstate' = "open"
  /\ data_pos' = data_pos + Padding
  /\ file_len' = file_len + Padding
  /\ UNCHANGED <<decl, head, next_tensor, src_left, placed>>

EndTensorErr(k) ==
  /\ wstate = "streaming" /\ src_left = 0
  /\ k < Padding
  /\ wstate' = "failed"
  /\ file_len' = file_len + k
  /\ UNCHANGED <<decl, head, data_pos, next_tensor, src_left, placed>>

\* Variant: finish trusts the caller.
FinishUnchecked ==
  /\ wstate = "open"
  /\ wstate' \in {"finished", "failed"}
  /\ UNCHANGED <<decl, head, data>>

\* finish checks the count of started tensors and nothing else.
Finish ==
  /\ wstate = "open"
  /\ \/ /\ next_tensor # Len(tensors)
        /\ Panic
     \/ /\ next_tensor = Len(tensors)
        /\ wstate' \in {"finished", "failed"}
        /\ UNCHANGED <<decl, head, data>>

-----------------------------------------------------------------------------
Declare ==
  \/ New
  \/ \E k \in Keys : Len(kvs) < MaxKvs /\ AddKv(k)
  \/ \E n \in Names, nb \in Sizes :
        Len(tensors) < MaxTensors /\ AddTensorInfo(n, nb)

WriteHeader ==
  \/ BeginHeader
  \/ EncodeInfo
  \/ \E h \in HeaderLens : EmitHeader(h)
  \/ \E h \in HeaderLens, k \in TornAt : EmitHeaderErr(h, k)

Stream ==
  \/ \E len \in Sizes : WriteTensorData(len)
  \/ \E len \in Sizes, k \in TornAt : WriteTensorDataErr(len, k)
  \/ \E src \in Sizes : BeginTensor(src)
  \/ WriteChunk
  \/ \E k \in TornAt : WriteChunkErr(k)
  \/ EndTensor
  \/ \E k \in TornAt : EndTensorErr(k)

WNext == Declare \/ WriteHeader \/ Stream \/ Finish

WSpec == WInit /\ [][WNext]_wvars

-----------------------------------------------------------------------------
(* Properties.                                                             *)

\* Every variable keeps its type: lengths and positions are naturals, the data
\* cursor never passes the declared tensors.
TypeOK ==
  /\ wstate \in {"none", "open", "encoding", "streaming"} \cup Ended
  /\ kvs \in Seq(Keys)
  /\ tensors \in Seq(Tensor)
  /\ infos \in Seq(Nat)
  /\ offset \in Nat /\ hdr_len \in Nat
  /\ header_written \in BOOLEAN
  /\ data_pos \in Nat /\ src_left \in Nat /\ file_len \in Nat
  /\ next_tensor \in 0..Len(tensors)
  /\ placed \in Seq(Landing)

\* Tensor i's bytes begin where the header says they do: the offset loop of
\* write_header, run before any data exists, and the padding the data section
\* really gets, tensor by tensor or chunk by chunk, agree.
LayoutMatchesHeader ==
  \A i \in DOMAIN placed : placed[i].pos = DataStart + infos[i]

WindowEnd(i) == DataStart + infos[i] + tensors[i].nbytes

Intact(i) == /\ i \in DOMAIN placed
             /\ placed[i].pos = DataStart + infos[i]
             /\ placed[i].len = tensors[i].nbytes

\* Whatever point the writer stopped at (a panic, a failing write, a crash that
\* kept a prefix of the file), a reader that finds a tensor's whole window
\* inside the file reads that tensor's own bytes and all of them: a torn file
\* ends in an early EOF, never in wrong data.  (A window inside a prefix is
\* inside the file, so the longest prefix decides.)
NoTornRead ==
  \A i \in DOMAIN infos :
     tensors[i].nbytes > 0 /\ WindowEnd(i) <= file_len => Intact(i)

\* What the "not all tensors written" assertion of finish stands for: a file
\* that finish accepted holds every declared tensor in full, at the place
\* where the header announces it, and ends on an alignment boundary.
FinishedIsComplete ==
  wstate = "finished" /\ tensors # <<>> =>
     /\ header_written
     /\ \A i \in DOMAIN tensors : Intact(i)
     /\ file_len % ALIGNMENT = 0

\* The words of that assertion alone, "not all tensors written": what finish
\* accepted has every declared tensor written.
AllTensorsWritten ==
  wstate = "finished" =>
     \A i \in DOMAIN tensors : i \in DOMAIN placed /\ placed[i].len = tensors[i].nbytes

\* The header is a promise made before the data: once bytes of the file exist,
\* no step changes what was declared or any offset, and the file only grows.
HeaderIsFinal ==
  [][file_len > 0 => /\ UNCHANGED <<decl, infos, hdr_len>>
                     /\ file_len' >= file_len]_wvars
=============================================================================
