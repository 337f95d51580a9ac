-------------------------- MODULE GGUFWriterProofs --------------------------
(***************************************************************************)
(* Proofs about gguf::Writer: alignment arithmetic, type correctness, the  *)
(* finality of the header, the inductive invariant IInv and the three      *)
(* safety properties it implies.                                           *)
(***************************************************************************)
EXTENDS GGUFWriter, SequenceTheorems, TLAPS

(* What ggml_pad returns.                                                  *)

\* A padded length is a length.
LEMMA PadType ==
  ASSUME NEW x \in Nat
  PROVE  ggml_pad(x, ALIGNMENT) \in Nat
BY DEF ggml_pad, ALIGNMENT

\* Padding reaches the next multiple of the alignment and no further.
LEMMA PadCovers ==
  ASSUME NEW x \in Nat
  PROVE  /\ x <= ggml_pad(x, ALIGNMENT)
         /\ ggml_pad(x, ALIGNMENT) < x + ALIGNMENT
         /\ ggml_pad(x, ALIGNMENT) % ALIGNMENT = 0
BY DEF ggml_pad, ALIGNMENT

\* From an aligned position, padding the sum is padding the summand.
LEMMA PadAligned ==
  ASSUME NEW o \in Nat, NEW n \in Nat, o % ALIGNMENT = 0
  PROVE  /\ ggml_pad(o + n, ALIGNMENT) = o + ggml_pad(n, ALIGNMENT)
         /\ (o + ggml_pad(n, ALIGNMENT)) % ALIGNMENT = 0
         /\ ggml_pad(o, ALIGNMENT) = o
BY DEF ggml_pad, ALIGNMENT

-----------------------------------------------------------------------------
(* Type correctness.                                                       *)

\* placed has one entry per started tensor, which streaming presupposes.
Started == /\ Len(placed) = next_tensor
           /\ wstate = "streaming" => next_tensor \in DOMAIN placed

TInv == TypeOK /\ Started

\* Bytes that land lengthen the entry of the tensor being streamed only.
LEMMA LandedShape ==
  ASSUME TInv, next_tensor \in DOMAIN placed, NEW n \in Nat
  PROVE  /\ Landed(n) \in Seq(Landing)
         /\ Len(Landed(n)) = Len(placed)
         /\ \A i \in DOMAIN placed :
              Landed(n)[i] = IF i = next_tensor
                             THEN [pos |-> placed[i].pos, len |-> placed[i].len + n]
                             ELSE placed[i]
<1> DEFINE e == [pos |-> placed[next_tensor].pos,
                 len |-> placed[next_tensor].len + n]
<1>1. placed \in Seq(Landing) /\ next_tensor \in 1..Len(placed)
  BY DEF TInv, TypeOK
<1>2. placed[next_tensor] \in Landing
  BY <1>1
<1>3. e \in Landing
  BY <1>2 DEF Landing
<1>4. Landed(n) = [placed EXCEPT ![next_tensor] = e]
  BY DEF Landed
<1>5. QED
  BY <1>1, <1>3, <1>4, ExceptSeq

\* The type invariant holds of a writer not yet made.
LEMMA TypeInit == WInit => TInv
<1> SUFFICES ASSUME WInit
             PROVE  TInv
  OBVIOUS
<1>1. <<>> \in Seq(Keys) /\ <<>> \in Seq(Tensor) /\ <<>> \in Seq(Nat)
  BY EmptySeq
<1>2. <<>> \in Seq(Landing) /\ Len(<<>>) = 0
  BY EmptySeq
<1>3. /\ kvs \in Seq(Keys) /\ tensors \in Seq(Tensor) /\ infos \in Seq(Nat)
      /\ placed \in Seq(Landing) /\ Len(placed) = 0 /\ Len(tensors) = 0
  BY <1>1, <1>2 DEF WInit
<1>4. next_tensor = 0 /\ next_tensor \in 0..Len(tensors)
  BY <1>3 DEF WInit
<1>5. QED
  BY <1>3, <1>4 DEF WInit, TInv, TypeOK, Started

\* Every operation, panic and failing write preserves the types.
LEMMA TypeStep == TInv /\ [WNext]_wvars => TInv'
<1> SUFFICES ASSUME TInv, [WNext]_wvars
             PROVE  TInv'
  OBVIOUS
<1> USE WriterAssumption DEF TInv
<1>0. CASE Panic
  BY <1>0 DEF Panic, TypeOK, Started, Ended, decl, head, data
<1>1. CASE New
  BY <1>1 DEF New, TypeOK, Started, decl, head, data
<1>2. ASSUME NEW k \in Keys, AddKv(k), ~Panic
      PROVE  TInv'
  <2>1. kvs \in Seq(Keys) /\ kvs' = Append(kvs, k)
    BY <1>2 DEF AddKv, TypeOK
  <2>2. kvs' \in Seq(Keys)
    BY <2>1, AppendProperties
  <2>3. QED
    BY <1>2, <2>2 DEF AddKv, TypeOK, Started, head, data
<1>3. ASSUME NEW n \in Names, NEW nb \in Sizes, AddTensorInfo(n, nb), ~Panic
      PROVE  TInv'
  <2> DEFINE t == [name |-> n, nbytes |-> nb]
  <2>1. tensors \in Seq(Tensor) /\ tensors' = Append(tensors, t)
    BY <1>3 DEF AddTensorInfo, TypeOK
  <2>2. t \in Tensor
    BY DEF Tensor
  <2>3. tensors' \in Seq(Tensor) /\ Len(tensors') = Len(tensors) + 1
    BY <2>1, <2>2, AppendProperties
  <2>4. QED
    BY <1>3, <2>3, SMTT(20) DEF AddTensorInfo, TypeOK, Started, head, data
<1>4. ASSUME BeginHeader, ~Panic
      PROVE  TInv'
  BY <1>4 DEF BeginHeader, TypeOK, Started, decl, data
<1>5. CASE EncodeInfo
  <2>1. tensors[Len(infos) + 1] \in Tensor /\ offset \in Nat
    BY <1>5, ElementOfSeq DEF EncodeInfo, TypeOK
  <2>2. offset' \in Nat
    <3>1. tensors[Len(infos) + 1].nbytes \in Nat
      BY <2>1 DEF Tensor
    <3>2. ggml_pad(tensors[Len(infos) + 1].nbytes, ALIGNMENT) \in Nat
      BY <3>1, PadType
    <3>3. QED
      BY <1>5, <2>1, <3>2 DEF EncodeInfo
  <2>3. infos' \in Seq(Nat)
    BY <1>5, <2>1, AppendProperties DEF EncodeInfo, TypeOK
  <2>4. QED
    BY <1>5, <2>2, <2>3 DEF EncodeInfo, TypeOK, Started, decl, data
<1>6. ASSUME NEW h \in HeaderLens, EmitHeader(h)
      PROVE  TInv'
  <2>1. h \in Nat /\ file_len' \in Nat
    BY <1>6, PadType DEF EmitHeader
  <2>2. QED
    BY <1>6, <2>1 DEF EmitHeader, TypeOK, Started, Ended, decl
<1>7. ASSUME NEW h \in HeaderLens, NEW k \in TornAt, EmitHeaderErr(h, k)
      PROVE  TInv'
  BY <1>7 DEF EmitHeaderErr, TypeOK, Started, Ended, decl
<1>8. ASSUME NEW len \in Sizes, WriteTensorData(len), ~Panic
      PROVE  TInv'
  <2> DEFINE l == [pos |-> file_len, len |-> len]
  <2>1. /\ data_pos \in Nat /\ len \in Nat /\ file_len \in Nat
        /\ data_pos' = ggml_pad(data_pos + len, ALIGNMENT)
        /\ file_len' = file_len + data_pos' - data_pos
    BY <1>8 DEF WriteTensorData, TypeOK
  <2>2. data_pos' \in Nat /\ file_len' \in Nat
    <3>1. data_pos + len \in Nat
      BY <2>1
    <3>2. data_pos' \in Nat /\ data_pos + len <= data_pos'
      BY <2>1, <3>1, PadType, PadCovers
    <3>3. QED
      BY <2>1, <3>2
  <2>3. placed' \in Seq(Landing) /\ Len(placed') = Len(placed) + 1
    <3>1. l \in Landing /\ placed \in Seq(Landing) /\ placed' = Append(placed, l)
      BY <1>8, <2>1 DEF WriteTensorData, Landing, TypeOK
    <3>2. QED
      BY <3>1, AppendProperties
  <2>4. QED
    <3>1. next_tensor' \in 0..Len(tensors) /\ next_tensor' = next_tensor + 1
      BY <1>8 DEF WriteTensorData, Accepts, CanStart, TypeOK
    <3>2. UNCHANGED <<wstate, decl, head, src_left>> /\ wstate = "open"
      BY <1>8 DEF WriteTensorData
    <3>3. QED
      BY <2>2, <2>3, <3>1, <3>2 DEF TypeOK, Started, decl, head
<1>9. ASSUME NEW len \in Sizes, NEW k \in TornAt, WriteTensorDataErr(len, k)
      PROVE  TInv'
  <2> DEFINE l == [pos |-> file_len, len |-> IF k < len THEN k ELSE len]
  <2>1. l \in Landing /\ placed \in Seq(Landing) /\ placed' = Append(placed, l)
    BY <1>9 DEF WriteTensorDataErr, Landing, TypeOK
  <2>2. placed' \in Seq(Landing) /\ Len(placed') = Len(placed) + 1
    BY <2>1, AppendProperties
  <2>3. QED
    BY <1>9, <2>2 DEF WriteTensorDataErr, Accepts, CanStart, TypeOK, Started,
                      Ended, decl, head
<1>10. ASSUME NEW src \in Sizes, BeginTensor(src), ~Panic
       PROVE  TInv'
  <2> DEFINE l == [pos |-> file_len, len |-> 0]
  <2>1. l \in Landing /\ placed \in Seq(Landing) /\ placed' = Append(placed, l)
    BY <1>10 DEF BeginTensor, Landing, TypeOK
  <2>2. placed' \in Seq(Landing) /\ Len(placed') = Len(placed) + 1
    BY <2>1, AppendProperties
  <2>3. QED
    BY <1>10, <2>2 DEF BeginTensor, CanStart, TypeOK, Started, decl, head
<1>11. CASE WriteChunk
  <2>1. Chunk \in Nat /\ src_left - Chunk \in Nat
    BY DEF Chunk, TypeOK
  <2>2. placed' \in Seq(Landing) /\ Len(placed') = Len(placed)
    BY <1>11, <2>1, LandedShape DEF WriteChunk, Started
  <2>3. QED
    BY <1>11, <2>1, <2>2 DEF WriteChunk, TypeOK, Started, Ended, decl, head
<1>12. ASSUME NEW k \in TornAt, WriteChunkErr(k)
       PROVE  TInv'
  <2>1. placed' \in Seq(Landing) /\ Len(placed') = Len(placed)
    BY <1>12, LandedShape DEF WriteChunkErr, Started
  <2>2. QED
    BY <1>12, <2>1 DEF WriteChunkErr, TypeOK, Started, Ended, decl, head
<1>13. CASE EndTensor
  <2>1. Padding \in Nat
    <3>1. data_pos \in Nat
      BY DEF TypeOK
    <3>2. QED
      BY <3>1, PadType, PadCovers DEF Padding
  <2>2. QED
    BY <1>13, <2>1 DEF EndTensor, TypeOK, Started, Ended, decl, head
<1>14. ASSUME NEW k \in TornAt, EndTensorErr(k)
       PROVE  TInv'
  BY <1>14 DEF EndTensorErr, TypeOK, Started, Ended, decl, head
<1>15. ASSUME Finish, ~Panic
       PROVE  TInv'
  BY <1>15 DEF Finish, TypeOK, Started, Ended, decl, head, data
<1>16. CASE UNCHANGED wvars
  BY <1>16 DEF wvars, TypeOK, Started, decl, head, data
<1>17. QED
  BY <1>0, <1>1, <1>2, <1>3, <1>4, <1>5, <1>6, <1>7, <1>8, <1>9, <1>10, <1>11,
     <1>12, <1>13, <1>14, <1>15, <1>16
     DEF WNext, Declare, WriteHeader, Stream

\* Whatever calls the client makes, and wherever the sink fails, every
\* variable keeps its type; the source need not have the declared length.
THEOREM TypeCorrect == WSpec => []TypeOK
<1>1. WInit => TInv
  BY TypeInit
<1>2. TInv => TypeOK
  BY DEF TInv
<1>3. QED
  BY <1>1, <1>2, TypeStep, PTL DEF WSpec

-----------------------------------------------------------------------------
(* The header's finality needs no ladder, and no SourceExact: only that    *)
(* bytes on disk mean a writer past its header, or one that has failed.    *)

Promised == /\ file_len > 0 => header_written \/ wstate = "failed"
            /\ wstate = "encoding" => file_len = 0
            /\ wstate = "streaming" => header_written

\* What HeaderIsFinal says of one step.
Final == file_len > 0 => /\ UNCHANGED <<decl, infos, hdr_len>>
                         /\ file_len' >= file_len

\* Steps of the data section that only add bytes.
LEMMA GrowingStep ==
  ASSUME TInv, Promised, UNCHANGED <<decl, head>>, NEW more \in Nat,
         file_len' = file_len + more, header_written,
         wstate' # "encoding"
  PROVE  Promised' /\ Final
BY DEF TInv, TypeOK, Promised, Final, decl, head

\* Steps before the first byte, and steps that move no byte.
LEMMA DeclaringStep ==
  ASSUME TInv, Promised, Declare \/ WriteHeader \/ Finish \/ UNCHANGED wvars
  PROVE  Promised' /\ Final
<1> USE DEF Promised, Final
<1>1. file_len \in Nat
  BY DEF TInv, TypeOK
<1>2. CASE UNCHANGED wvars
  BY <1>1, <1>2 DEF wvars, decl, head, data
<1>3. CASE Declare
  <2>1. CASE New
    BY <1>1, <2>1 DEF New, decl, head, data
  <2>2. ASSUME NEW k \in Keys, AddKv(k)
        PROVE  Promised' /\ Final
    BY <1>1, <2>2 DEF AddKv, Panic, decl, head, data
  <2>3. ASSUME NEW n \in Names, NEW nb \in Sizes, AddTensorInfo(n, nb)
        PROVE  Promised' /\ Final
    BY <1>1, <2>3 DEF AddTensorInfo, Panic, decl, head, data
  <2>4. QED
    BY <1>3, <2>1, <2>2, <2>3 DEF Declare
<1>4. CASE WriteHeader
  <2>1. CASE BeginHeader
    BY <1>1, <2>1 DEF BeginHeader, Panic, decl, head, data
  <2>2. CASE EncodeInfo
    BY <1>1, <2>2 DEF EncodeInfo, data
  <2>3. CASE \E h \in HeaderLens : EmitHeader(h)
    BY <1>1, <2>3 DEF EmitHeader
  <2>4. CASE \E h \in HeaderLens, k \in TornAt : EmitHeaderErr(h, k)
    BY <1>1, <2>4 DEF EmitHeaderErr
  <2>5. QED
    BY <1>4, <2>1, <2>2, <2>3, <2>4 DEF WriteHeader
<1>5. CASE Finish
  BY <1>1, <1>5 DEF Finish, Panic, decl, head, data
<1>6. QED
  BY <1>2, <1>3, <1>4, <1>5

\* A failed assertion of a call in state "open" moves no byte either.
LEMMA PanickedStep ==
  ASSUME TInv, Promised, Panic, wstate = "open"
  PROVE  Promised' /\ Final
BY DEF TInv, TypeOK, Promised, Final, Panic, decl, head, data

\* The data section's operations start behind a header, whatever they write.
LEMMA DataStep ==
  ASSUME TInv, Promised, Stream
  PROVE  Promised' /\ Final
<1> USE WriterAssumption
<1>1. /\ data_pos \in Nat /\ file_len \in Nat /\ src_left \in Nat
  BY DEF TInv, TypeOK
<1>2. ASSUME NEW len \in Sizes, WriteTensorData(len)
      PROVE  Promised' /\ Final
  <2>1. CASE Accepts(len)
    <3>1. data_pos + len \in Nat /\ len \in Nat
      BY <1>1
    <3>2. data_pos' \in Nat /\ data_pos + len <= data_pos'
      BY <1>2, <2>1, <3>1, PadType, PadCovers DEF WriteTensorData
    <3>3. data_pos' - data_pos \in Nat
          /\ file_len' = file_len + (data_pos' - data_pos)
      BY <1>1, <1>2, <2>1, <3>1, <3>2 DEF WriteTensorData
    <3>4. header_written /\ wstate' = "open" /\ UNCHANGED <<decl, head>>
      BY <1>2, <2>1 DEF WriteTensorData, Accepts, CanStart
    <3>5. QED
      BY <3>3, <3>4, GrowingStep
  <2>2. CASE ~Accepts(len)
    BY <1>2, <2>2, PanickedStep DEF WriteTensorData
  <2>3. QED
    BY <2>1, <2>2
<1>3. ASSUME NEW len \in Sizes, NEW k \in TornAt, WriteTensorDataErr(len, k)
      PROVE  Promised' /\ Final
  BY <1>3, GrowingStep DEF WriteTensorDataErr, Accepts, CanStart
<1>4. ASSUME NEW src \in Sizes, BeginTensor(src)
      PROVE  Promised' /\ Final
  <2>1. CASE CanStart
    <3>1. file_len' = file_len + 0
      BY <1>1, <1>4, <2>1 DEF BeginTensor
    <3>2. QED
      BY <1>4, <2>1, <3>1, GrowingStep DEF BeginTensor, CanStart
  <2>2. CASE ~CanStart
    BY <1>4, <2>2, PanickedStep DEF BeginTensor
  <2>3. QED
    BY <2>1, <2>2
<1>5. CASE WriteChunk
  <2>1. Chunk \in Nat
    BY <1>1 DEF Chunk
  <2>2. QED
    BY <1>5, <2>1, GrowingStep DEF WriteChunk, Promised
<1>6. ASSUME NEW k \in TornAt, WriteChunkErr(k)
      PROVE  Promised' /\ Final
  BY <1>6, GrowingStep DEF WriteChunkErr, Promised
<1>7. CASE EndTensor
  <2>1. Padding \in Nat
    BY <1>1, PadType, PadCovers DEF Padding
  <2>2. QED
    BY <1>7, <2>1, GrowingStep DEF EndTensor, Promised
<1>8. ASSUME NEW k \in TornAt, EndTensorErr(k)
      PROVE  Promised' /\ Final
  BY <1>8, GrowingStep DEF EndTensorErr, Promised
<1>9. QED
  BY <1>2, <1>3, <1>4, <1>5, <1>6, <1>7, <1>8 DEF Stream

\* Once bytes of the file exist no step changes what was declared or any
\* offset, and the file only grows, whatever the sources are.
THEOREM HeaderCorrect == WSpec => HeaderIsFinal
<1>1. WInit => TInv /\ Promised
  BY TypeInit DEF WInit, Promised
<1>2. TInv /\ Promised /\ [WNext]_wvars => TInv' /\ Promised' /\ Final
  BY TypeStep, DeclaringStep, DataStep DEF WNext
<1>3. TInv /\ Promised /\ [WNext]_wvars => [Final]_wvars
  BY <1>2
<1>4. QED
  BY <1>1, <1>2, <1>3, PTL DEF WSpec, HeaderIsFinal, Final

-----------------------------------------------------------------------------
(* The inductive invariant.  The safety properties relate placed to infos, *)
(* which write_header fixed long before; what carries them from one to the *)
(* other is that the header's running offset and the writer's data cursor  *)
(* climb the same ladder, Off.                                             *)

\* Where the header puts tensor i; the end of the data section after the last.
Off(i) == IF i <= Len(infos) THEN infos[i] ELSE offset

Slot(i) == ggml_pad(tensors[i].nbytes, ALIGNMENT)

Phases ==
  /\ Len(infos) <= Len(tensors)
  /\ header_written => Len(infos) = Len(tensors) /\ wstate \notin {"none", "encoding"}
  /\ ~header_written =>
        /\ data_pos = 0 /\ next_tensor = 0 /\ placed = <<>>
        /\ wstate # "streaming"
        /\ wstate # "failed" => file_len = 0
        /\ wstate \notin {"encoding", "failed"} => infos = <<>>

Ladder ==
  /\ Off(1) = 0
  /\ \A i \in 1..(Len(infos) + 1) : Off(i) % ALIGNMENT = 0
  /\ \A i \in 1..Len(infos) : Off(i + 1) = infos[i] + Slot(i)
  /\ \A i \in 1..Len(infos), j \in 1..(Len(infos) + 1) :
        i < j => infos[i] + Slot(i) <= Off(j)

Cursor ==
  /\ header_written /\ wstate \in {"open", "panicked", "finished"} =>
        /\ data_pos = Off(next_tensor + 1)
        /\ file_len = DataStart + data_pos
  /\ wstate = "streaming" =>
        /\ header_written
        /\ src_left <= tensors[next_tensor].nbytes
        /\ data_pos = infos[next_tensor] + tensors[next_tensor].nbytes - src_left
        /\ file_len = DataStart + data_pos
        /\ placed[next_tensor].len = tensors[next_tensor].nbytes - src_left
  /\ wstate = "finished" => next_tensor = Len(tensors)

Landings ==
  \A i \in DOMAIN placed :
     i < next_tensor \/ wstate \notin {"streaming", "failed"}
        => placed[i].len = tensors[i].nbytes

IInv == /\ TInv /\ Phases /\ Ladder /\ Cursor /\ Landings
        /\ LayoutMatchesHeader /\ NoTornRead

-----------------------------------------------------------------------------
(* What the invariant says about the windows of the file.                  *)

\* The types that the steps below need, in the form they need them.
LEMMA Shapes ==
  ASSUME IInv
  PROVE  /\ tensors \in Seq(Tensor) /\ infos \in Seq(Nat) /\ placed \in Seq(Landing)
         /\ DataStart \in Nat /\ DataStart % ALIGNMENT = 0
         /\ \A i \in 1..Len(tensors) : tensors[i].nbytes \in Nat /\ Slot(i) \in Nat
         /\ \A i \in 1..Len(infos) : infos[i] \in Nat /\ i \in 1..Len(tensors)
         /\ Len(placed) = next_tensor /\ next_tensor \in 0..Len(tensors)
<1>1. /\ tensors \in Seq(Tensor) /\ infos \in Seq(Nat) /\ placed \in Seq(Landing)
      /\ hdr_len \in Nat /\ Len(placed) = next_tensor
      /\ next_tensor \in 0..Len(tensors) /\ Len(infos) <= Len(tensors)
  BY DEF IInv, TInv, TypeOK, Started, Phases
<1>2. DataStart \in Nat /\ DataStart % ALIGNMENT = 0
  BY <1>1, PadType, PadCovers DEF DataStart
<1>3. ASSUME NEW i \in 1..Len(tensors)
      PROVE  tensors[i].nbytes \in Nat /\ Slot(i) \in Nat
  <2>1. tensors[i] \in Tensor
    BY <1>1, ElementOfSeq
  <2>2. tensors[i].nbytes \in Nat
    BY <2>1, WriterAssumption DEF Tensor
  <2>3. QED
    BY <2>2, PadType DEF Slot
<1>4. QED
  BY <1>1, <1>2, <1>3

\* Window ends are positions in the file.
LEMMA WindowNat ==
  ASSUME IInv, NEW i \in 1..Len(infos)
  PROVE  WindowEnd(i) \in Nat
<1>1. DataStart \in Nat /\ infos[i] \in Nat /\ tensors[i].nbytes \in Nat
  BY Shapes
<1>2. QED
  BY <1>1 DEF WindowEnd

\* Tensors that are started and not being written are wholly in place.
LEMMA EarlierIntact ==
  ASSUME IInv, NEW i \in DOMAIN placed,
         i < next_tensor \/ wstate \notin {"streaming", "failed"}
  PROVE  Intact(i)
BY DEF IInv, Landings, LayoutMatchesHeader, Intact

\* A nonempty tensor behind tensor n ends after n's slot.
LEMMA LaterBeyond ==
  ASSUME IInv, NEW n \in 1..Len(infos), NEW i \in 1..Len(infos), n < i,
         tensors[i].nbytes > 0
  PROVE  /\ DataStart + infos[n] + Slot(n) < WindowEnd(i)
         /\ tensors[n].nbytes <= Slot(n)
<1>1. /\ DataStart \in Nat /\ infos[n] \in Nat /\ infos[i] \in Nat
      /\ tensors[n].nbytes \in Nat /\ tensors[i].nbytes \in Nat
      /\ Slot(n) \in Nat
  BY Shapes
<1>2. infos[n] + Slot(n) <= infos[i]
  <2>1. Len(infos) \in Nat /\ i \in 1..(Len(infos) + 1) /\ Off(i) = infos[i]
    BY Shapes DEF Off
  <2>2. QED
    BY <2>1 DEF IInv, Ladder
<1>3. tensors[n].nbytes <= Slot(n)
  BY <1>1, PadCovers DEF Slot
<1>4. QED
  BY <1>1, <1>2, <1>3, SMTT(20) DEF WindowEnd

\* Where the cursor stands when the next tensor is about to start.
LEMMA AtStart ==
  ASSUME IInv, wstate = "open", CanStart, NEW n, n = next_tensor + 1
  PROVE  /\ n \in 1..Len(infos) /\ Len(infos) = Len(tensors)
         /\ Declared = tensors[n].nbytes
         /\ data_pos = infos[n] /\ data_pos \in Nat /\ data_pos % ALIGNMENT = 0
         /\ file_len = DataStart + infos[n]
         /\ Off(n + 1) = infos[n] + Slot(n)
         /\ ggml_pad(data_pos + Declared, ALIGNMENT) = infos[n] + Slot(n)
<1>1. /\ n \in 1..Len(infos) /\ Len(infos) = Len(tensors)
      /\ Declared = tensors[n].nbytes
  BY Shapes DEF CanStart, IInv, Phases, Declared
<1>2. data_pos = infos[n] /\ file_len = DataStart + data_pos
  BY <1>1 DEF CanStart, IInv, Cursor, Off
<1>3. data_pos \in Nat /\ Declared \in Nat
  BY <1>1, <1>2, Shapes
<1>4. Off(n) % ALIGNMENT = 0 /\ Off(n + 1) = infos[n] + Slot(n)
  BY <1>1, Shapes DEF IInv, Ladder
<1>5. data_pos % ALIGNMENT = 0
  BY <1>1, <1>2, <1>4, Shapes DEF Off
<1>6. ggml_pad(data_pos + Declared, ALIGNMENT) = infos[n] + Slot(n)
  BY <1>1, <1>2, <1>3, <1>5, PadAligned DEF Slot
<1>7. QED
  BY <1>1, <1>2, <1>3, <1>4, <1>5, <1>6

-----------------------------------------------------------------------------
(* The steps.                                                              *)

\* The data section's steps leave the header, hence the ladder, alone.
LEMMA SameHeader ==
  ASSUME IInv, UNCHANGED <<decl, head>>
  PROVE  /\ Ladder' /\ DataStart' = DataStart
         /\ \A i \in DOMAIN infos : WindowEnd(i)' = WindowEnd(i)
         /\ \A i : Off(i)' = Off(i)
BY DEF IInv, Ladder, Off, Slot, DataStart, WindowEnd, decl, head

\* A failed assertion changes no data.
LEMMA PanicStep ==
  ASSUME IInv, TInv', Panic, wstate = "open"
  PROVE  IInv'
BY DEF Panic, IInv, Phases, Ladder, Off, Slot, Cursor, Landings,
   LayoutMatchesHeader, NoTornRead, WindowEnd, Intact, DataStart,
   decl, head, data

\* Declarations precede every byte of the file.
LEMMA DeclareStep ==
  ASSUME IInv, [Declare \/ Finish \/ BeginHeader]_wvars, TInv'
  PROVE  IInv'
<1>1. CASE UNCHANGED wvars
  BY <1>1 DEF IInv, Phases, Ladder, Off, Slot, Cursor, Landings,
     LayoutMatchesHeader, NoTornRead, WindowEnd, Intact, DataStart,
     wvars, decl, head, data
<1>2. ASSUME UNCHANGED <<decl, head, data>>, wstate \in {"none", "open"},
             wstate' \in {"open", "panicked", "finished", "failed"},
             wstate' = "finished" => next_tensor = Len(tensors),
             wstate = "none" => ~header_written
      PROVE  IInv'
  BY <1>2 DEF IInv, Phases, Ladder, Off, Slot, Cursor, Landings,
     LayoutMatchesHeader, NoTornRead, WindowEnd, Intact, DataStart,
     decl, head, data
<1>3. New => IInv'
  BY <1>2 DEF New, IInv, Phases
<1>4. Panic /\ wstate = "open" => IInv'
  BY PanicStep
<1>5. ASSUME NEW k \in Keys, AddKv(k), ~Panic
      PROVE  IInv'
  BY <1>5 DEF AddKv, IInv, Phases, Ladder, Off, Slot, Cursor, Landings,
     LayoutMatchesHeader, NoTornRead, WindowEnd, Intact, DataStart, head, data
<1>6. ASSUME NEW n \in Names, NEW nb \in Sizes, AddTensorInfo(n, nb), ~Panic
      PROVE  IInv'
  <2>1. infos = <<>> /\ placed = <<>> /\ ~header_written /\ wstate = "open"
    BY <1>6 DEF AddTensorInfo, IInv, Phases
  <2>2. Len(infos') = 0 /\ DOMAIN infos' = {} /\ DOMAIN placed' = {}
    BY <1>6, <2>1 DEF AddTensorInfo, head, data
  <2>3. Off(1)' = Off(1)
    BY <1>6 DEF AddTensorInfo, Off, head
  <2>4. Ladder'
    BY <2>1, <2>2, <2>3 DEF Ladder, IInv
  <2>5. Phases' /\ Cursor'
    BY <1>6, <2>1, <2>2, Shapes DEF AddTensorInfo, IInv, TInv, TypeOK, Phases, Cursor, head, data
  <2>6. Landings' /\ LayoutMatchesHeader' /\ NoTornRead'
    BY <2>2 DEF Landings, LayoutMatchesHeader, NoTornRead
  <2>7. QED
    BY <2>4, <2>5, <2>6 DEF IInv
<1>7. ASSUME BeginHeader, ~Panic
      PROVE  IInv'
  <2>1. infos = <<>> /\ placed = <<>> /\ ~header_written /\ wstate = "open"
        /\ file_len = 0
    BY <1>7 DEF BeginHeader, IInv, Phases
  <2>2. Len(infos') = 0 /\ DOMAIN infos' = {} /\ DOMAIN placed' = {}
    BY <1>7, <2>1 DEF BeginHeader, data
  <2>3. Off(1)' = 0 /\ Off(1)' % ALIGNMENT = 0
    BY <1>7, <2>2 DEF BeginHeader, Off, ALIGNMENT
  <2>4. Ladder'
    BY <2>2, <2>3 DEF Ladder
  <2>5. Phases' /\ Cursor'
    BY <1>7, <2>1, <2>2 DEF BeginHeader, IInv, Phases, Cursor, decl, data
  <2>6. Landings' /\ LayoutMatchesHeader' /\ NoTornRead'
    BY <2>2 DEF Landings, LayoutMatchesHeader, NoTornRead
  <2>7. QED
    BY <2>4, <2>5, <2>6 DEF IInv
<1>8. ASSUME Finish, ~Panic
      PROVE  IInv'
  BY <1>2, <1>8 DEF Finish
<1>9. /\ \A k \in Keys : AddKv(k) => wstate = "open"
      /\ \A n \in Names, nb \in Sizes : AddTensorInfo(n, nb) => wstate = "open"
      /\ Finish \/ BeginHeader => wstate = "open"
  BY DEF AddKv, AddTensorInfo, Finish, BeginHeader
<1>10. CASE Declare
  <2>1. ASSUME NEW k \in Keys, AddKv(k)
        PROVE  IInv'
    BY <1>4, <1>5, <1>9, <2>1
  <2>2. ASSUME NEW n \in Names, NEW nb \in Sizes, AddTensorInfo(n, nb)
        PROVE  IInv'
    BY <1>4, <1>6, <1>9, <2>2
  <2>3. QED
    BY <1>3, <1>10, <2>1, <2>2 DEF Declare
<1>11. QED
  BY <1>1, <1>4, <1>7, <1>8, <1>9, <1>10

\* write_header builds the ladder rung by rung, then starts the data at its foot.
LEMMA HeaderStep ==
  ASSUME IInv, TInv',
         \/ EncodeInfo
         \/ \E h \in HeaderLens : EmitHeader(h)
         \/ \E h \in HeaderLens, k \in TornAt : EmitHeaderErr(h, k)
  PROVE  IInv'
<1>1. CASE EncodeInfo
  <2> PICK m \in Nat : m = Len(infos)
    BY Shapes
  <2>1. /\ m = Len(infos) /\ m + 1 \in 1..Len(tensors) /\ Slot(m + 1) \in Nat
        /\ infos \in Seq(Nat) /\ offset \in Nat
    <3>1. m + 1 \in 1..Len(tensors)
      BY <1>1, Shapes DEF EncodeInfo
    <3>2. offset \in Nat
      BY DEF IInv, TInv, TypeOK
    <3>3. QED
      BY <3>1, <3>2, Shapes
  <2>2. /\ wstate = "encoding" /\ ~header_written /\ placed = <<>> /\ file_len = 0
    BY <1>1 DEF EncodeInfo, IInv, Phases
  <2>3. /\ Len(infos') = m + 1 /\ infos'[m + 1] = offset
        /\ \A i \in 1..m : infos'[i] = infos[i]
        /\ offset' = offset + Slot(m + 1)
    BY <1>1, <2>1, AppendProperties DEF EncodeInfo, Slot
  <2>4. \A i \in 1..Len(tensors) : Slot(i)' = Slot(i)
    BY <1>1 DEF EncodeInfo, Slot, decl
  <2>5. /\ \A i \in 1..(m + 1) : Off(i)' = Off(i)
        /\ Off(m + 2)' = Off(m + 1) + Slot(m + 1)
        /\ Off(m + 1) = offset
    BY <2>1, <2>3 DEF Off
  <2>6. Ladder'
    <3>1. Off(1)' = 0
      BY <2>1, <2>5 DEF IInv, Ladder
    <3>2. ASSUME NEW i \in 1..(m + 2)
          PROVE  Off(i)' % ALIGNMENT = 0
      <4>1. CASE i \in 1..(m + 1)
        BY <2>5, <4>1 DEF IInv, Ladder
      <4>2. CASE i = m + 2
        <5>1. offset % ALIGNMENT = 0
          BY <2>1, <2>5 DEF IInv, Ladder
        <5>2. tensors[m + 1].nbytes \in Nat
          BY <2>1, Shapes
        <5>3. (offset + Slot(m + 1)) % ALIGNMENT = 0
          BY <2>1, <5>1, <5>2, PadAligned DEF Slot
        <5>4. QED
          BY <2>5, <4>2, <5>3
      <4>3. QED
        BY <2>1, <4>1, <4>2
    <3>3. ASSUME NEW i \in 1..(m + 1)
          PROVE  Off(i + 1)' = infos'[i] + Slot(i)'
      <4>1. CASE i \in 1..m
        <5>1. Off(i + 1) = infos[i] + Slot(i)
          BY <2>1, <4>1 DEF IInv, Ladder
        <5>2. Off(i + 1)' = Off(i + 1) /\ infos'[i] = infos[i] /\ Slot(i)' = Slot(i)
          BY <2>1, <2>3, <2>4, <2>5, <4>1
        <5>3. QED
          BY <5>1, <5>2
      <4>2. CASE i = m + 1
        BY <2>1, <2>3, <2>4, <2>5, <4>2
      <4>3. QED
        BY <2>1, <4>1, <4>2
    <3>4. ASSUME NEW i \in 1..(m + 1), NEW j \in 1..(m + 2), i < j
          PROVE  infos'[i] + Slot(i)' <= Off(j)'
      <4>1. CASE j \in 1..(m + 1)
        <5>1. i \in 1..m /\ infos[i] + Slot(i) <= Off(j)
          BY <2>1, <3>4, <4>1 DEF IInv, Ladder
        <5>2. Off(j)' = Off(j) /\ infos'[i] = infos[i] /\ Slot(i)' = Slot(i)
          BY <2>1, <2>3, <2>4, <2>5, <4>1, <5>1
        <5>3. QED
          BY <5>1, <5>2
      <4>2. CASE j = m + 2 /\ i \in 1..m
        <5>1. infos[i] + Slot(i) <= offset
          BY <2>1, <2>5, <4>2 DEF IInv, Ladder
        <5>2. infos[i] \in Nat /\ Slot(i) \in Nat /\ Slot(m + 1) \in Nat
          BY <2>1, <4>2, Shapes
        <5>3. infos'[i] = infos[i] /\ Slot(i)' = Slot(i)
          BY <2>1, <2>3, <2>4, <4>2
        <5>4. Off(j)' = offset + Slot(m + 1)
          BY <2>5, <4>2
        <5>5. offset \in Nat
          BY DEF IInv, TInv, TypeOK
        <5>6. QED
          BY <5>1, <5>2, <5>3, <5>4, <5>5
      <4>3. CASE j = m + 2 /\ i = m + 1
        BY <2>1, <2>3, <2>4, <2>5, <4>3
      <4>4. QED
        BY <2>1, <4>1, <4>2, <4>3
    <3>5. QED
      BY <2>1, <2>3, <3>1, <3>2, <3>3, <3>4 DEF Ladder
  <2>7. Phases' /\ Cursor' /\ Landings' /\ LayoutMatchesHeader'
    BY <1>1, <2>1, <2>2, <2>3
       DEF EncodeInfo, IInv, Phases, Cursor, Landings, LayoutMatchesHeader,
           decl, data
  <2>8. NoTornRead'
    <3>1. DataStart' \in Nat /\ infos' \in Seq(Nat) /\ file_len' = 0
          /\ Len(infos') <= Len(tensors') /\ tensors' = tensors
      BY <1>1, <2>1, <2>2, <2>3, Shapes, PadType
         DEF EncodeInfo, DataStart, TInv, TypeOK, decl, data
    <3>2. DOMAIN infos' = 1..Len(infos') /\ Len(infos') \in Nat
      BY <3>1
    <3>3. ASSUME NEW i \in DOMAIN infos'
          PROVE  infos'[i] \in Nat /\ tensors'[i].nbytes \in Nat
      BY <3>1, <3>2, Shapes
    <3>4. QED
      BY <3>1, <3>3 DEF NoTornRead, WindowEnd
  <2>9. QED
    BY <2>6, <2>7, <2>8 DEF IInv
<1>2. ASSUME NEW h \in HeaderLens, NEW k \in Nat,
             \/ EmitHeader(h) /\ k = 0
             \/ EmitHeaderErr(h, k)
      PROVE  IInv'
  <2>1. /\ wstate = "encoding" /\ ~header_written /\ placed = <<>>
        /\ data_pos = 0 /\ next_tensor = 0
    BY <1>2 DEF EmitHeader, EmitHeaderErr, IInv, Phases
  <2>2. UNCHANGED <<decl, infos, offset, placed, data_pos, next_tensor>>
    BY <1>2 DEF EmitHeader, EmitHeaderErr
  <2>3. Ladder'
    BY <2>2 DEF IInv, Ladder, Off, Slot, decl
  <2>4. file_len' <= DataStart' /\ DataStart' \in Nat /\ file_len' \in Nat
    <3>1. hdr_len' = h /\ h \in Nat
      BY <1>2, WriterAssumption DEF EmitHeader, EmitHeaderErr
    <3>2. DataStart' \in Nat /\ DataStart' = ggml_pad(h, ALIGNMENT)
      BY <3>1, PadType DEF DataStart
    <3>3. QED
      BY <1>2, <3>2 DEF EmitHeader, EmitHeaderErr
  <2>5. NoTornRead'
    <3>1. \A i \in DOMAIN infos :
             infos[i] \in Nat /\ tensors[i].nbytes \in Nat
      <4>1. DOMAIN infos = 1..Len(infos)
        BY Shapes
      <4>2. QED
        BY <4>1, Shapes
    <3>2. QED
      BY <2>2, <2>4, <3>1 DEF NoTornRead, WindowEnd, decl
  <2>6. Phases' /\ Landings' /\ LayoutMatchesHeader'
    BY <1>2, <2>1, <2>2, Shapes
       DEF EmitHeader, EmitHeaderErr, IInv, Phases, Landings,
           LayoutMatchesHeader, decl
  <2>7. Cursor'
    <3>1. Off(1)' = 0
      BY <2>3 DEF Ladder
    <3>2. CASE EmitHeader(h)
      <4>1. DataStart' = file_len'
        BY <3>2 DEF EmitHeader, DataStart
      <4>2. QED
        BY <3>1, <3>2, <4>1, <2>1, <2>2, <2>4 DEF EmitHeader, Cursor
    <3>3. CASE EmitHeaderErr(h, k)
      BY <3>3 DEF EmitHeaderErr, Cursor
    <3>4. QED
      BY <1>2, <3>2, <3>3
  <2>8. QED
    BY <2>3, <2>5, <2>6, <2>7 DEF IInv
<1>3. QED
  BY <1>1, <1>2, WriterAssumption

\* While tensor n is the last one started, a file that ends inside n's slot and
\* either holds n in full or ends inside it has no misleading window.
LEMMA ReadsIntact ==
  ASSUME IInv, TInv', UNCHANGED <<decl, head>>,
         NEW n \in 1..Len(infos),
         \A i \in 1..Len(infos) : i < n => Intact(i)',
         Intact(n)' \/ file_len' < WindowEnd(n),
         file_len' <= DataStart + infos[n] + Slot(n)
  PROVE  NoTornRead'
<1> SUFFICES ASSUME NEW i \in 1..Len(infos), tensors[i].nbytes > 0,
                    WindowEnd(i) <= file_len'
             PROVE  Intact(i)'
  <2>1. DOMAIN infos = 1..Len(infos) /\ infos' = infos /\ tensors' = tensors
    BY Shapes DEF decl, head
  <2>2. \A i \in DOMAIN infos : WindowEnd(i)' = WindowEnd(i)
    BY SameHeader
  <2>3. QED
    BY <2>1, <2>2 DEF NoTornRead
<1>1. WindowEnd(i) \in Nat /\ WindowEnd(n) \in Nat /\ file_len' \in Nat
      /\ DataStart + infos[n] + Slot(n) \in Nat
  <2>1. DataStart \in Nat /\ infos[n] \in Nat /\ Slot(n) \in Nat
    BY Shapes
  <2>2. file_len' \in Nat
    BY DEF TInv, TypeOK
  <2>3. WindowEnd(i) \in Nat /\ WindowEnd(n) \in Nat
    BY WindowNat
  <2>4. DataStart + infos[n] + Slot(n) \in Nat
    BY <2>1
  <2>5. QED
    BY <2>2, <2>3, <2>4
<1>2. CASE i < n
  BY <1>2
<1>3. CASE i = n
  BY <1>1, <1>3
<1>4. CASE n < i
  BY <1>1, <1>4, LaterBeyond
<1>5. QED
  BY <1>2, <1>3, <1>4

\* Starting tensor n puts its first byte where the header announces it.
LEMMA StartLands ==
  ASSUME IInv, TInv', wstate = "open", CanStart, UNCHANGED <<decl, head>>,
         NEW n, n = next_tensor + 1, next_tensor' = n, NEW len \in Nat,
         placed' = Append(placed, [pos |-> file_len, len |-> len])
  PROVE  /\ DOMAIN placed' = 1..n
         /\ \A i \in 1..Len(infos) : i < n => Intact(i)'
         /\ placed'[n] = [pos |-> DataStart + infos[n], len |-> len]
         /\ LayoutMatchesHeader'
<1> DEFINE l == [pos |-> file_len, len |-> len]
<1>1. /\ n \in 1..Len(infos) /\ file_len = DataStart + infos[n]
      /\ file_len \in Nat /\ DOMAIN placed = 1..(n - 1) /\ Len(placed) = n - 1
      /\ placed \in Seq(Landing)
  BY AtStart, Shapes DEF IInv, TInv, TypeOK
<1>2. l \in Landing
  BY <1>1 DEF Landing
<1>3. /\ Len(placed') = n /\ placed' \in Seq(Landing) /\ placed'[n] = l
      /\ \A i \in 1..(n - 1) : placed'[i] = placed[i]
  BY <1>1, <1>2, AppendProperties
<1>4. DOMAIN placed' = 1..n
  BY <1>3
<1>5. DataStart' = DataStart /\ infos' = infos /\ tensors' = tensors
  BY SameHeader DEF decl, head
<1>6. ASSUME NEW i \in 1..Len(infos), i < n
      PROVE  Intact(i)'
  <2>1. i \in DOMAIN placed /\ i \in DOMAIN placed' /\ placed'[i] = placed[i]
    BY <1>1, <1>3, <1>4, <1>6
  <2>2. Intact(i)
    BY <2>1, EarlierIntact
  <2>3. QED
    BY <1>5, <2>1, <2>2 DEF Intact
<1>7. LayoutMatchesHeader'
  BY <1>1, <1>3, <1>4, <1>5 DEF LayoutMatchesHeader, IInv
<1>8. QED
  BY <1>1, <1>3, <1>4, <1>6, <1>7

\* A source that begins to be streamed has the length of its tensor.
ExactStart == wstate = "open" /\ wstate' = "streaming" => src_left' = Declared

\* Starting a tensor, whole or for streaming, keeps the invariant.
LEMMA StartStep ==
  ASSUME ExactStart, IInv, TInv', ~Panic,
         \/ \E len \in Sizes : WriteTensorData(len)
         \/ \E len \in Sizes, k \in TornAt : WriteTensorDataErr(len, k)
         \/ \E src \in Sizes : BeginTensor(src)
  PROVE  IInv'
<1> PICK n \in Nat : n = next_tensor + 1
  BY Shapes
<1> USE DEF Accepts
<1>1. ASSUME NEW len \in Sizes, WriteTensorData(len)
      PROVE  IInv'
  <2>1. /\ wstate = "open" /\ wstate' = "open" /\ CanStart
        /\ len = Declared /\ next_tensor' = n
        /\ UNCHANGED <<decl, head, src_left>>
        /\ placed' = Append(placed, [pos |-> file_len, len |-> len])
        /\ data_pos' = ggml_pad(data_pos + len, ALIGNMENT)
        /\ file_len' = file_len + data_pos' - data_pos
    BY <1>1 DEF WriteTensorData
  <2>2. /\ n \in 1..Len(infos) /\ n \in 1..Len(tensors) /\ len = tensors[n].nbytes
        /\ data_pos' = Off(n + 1) /\ Off(n + 1) = infos[n] + Slot(n)
        /\ file_len' = DataStart + data_pos'
    <3>1. /\ n \in 1..Len(infos) /\ n \in 1..Len(tensors)
          /\ Declared = tensors[n].nbytes
          /\ data_pos = infos[n] /\ data_pos \in Nat
          /\ file_len = DataStart + infos[n]
          /\ Off(n + 1) = infos[n] + Slot(n)
          /\ ggml_pad(data_pos + Declared, ALIGNMENT) = infos[n] + Slot(n)
      BY <2>1, AtStart
    <3>2. Slot(n) \in Nat /\ DataStart \in Nat
      BY <3>1, Shapes
    <3>3. data_pos' = infos[n] + Slot(n)
      BY <2>1, <3>1
    <3>4. file_len' = DataStart + data_pos'
      BY <2>1, <3>1, <3>2, <3>3, SMTT(20)
    <3>5. QED
      BY <2>1, <3>1, <3>3, <3>4
  <2>3. len \in Nat
    BY WriterAssumption
  <2>4. /\ DOMAIN placed' = 1..n /\ LayoutMatchesHeader'
        /\ \A i \in 1..Len(infos) : i < n => Intact(i)'
        /\ placed'[n] = [pos |-> DataStart + infos[n], len |-> len]
    BY <2>1, <2>3, StartLands
  <2>5. /\ DataStart' = DataStart /\ infos' = infos /\ tensors' = tensors
        /\ Ladder' /\ \A i : Off(i)' = Off(i)
    BY <2>1, SameHeader DEF decl, head
  <2>6. Intact(n)'
    BY <2>2, <2>4, <2>5 DEF Intact
  <2>7. NoTornRead'
    <3>1. file_len' <= DataStart + infos[n] + Slot(n)
      BY <2>2, Shapes
    <3>2. QED
      BY <2>1, <2>2, <2>4, <2>6, <3>1, ReadsIntact
  <2>8. Phases' /\ Cursor'
    BY <2>1, <2>2, <2>5, Shapes DEF IInv, Phases, Cursor, CanStart, decl, head
  <2>9. Landings'
    <3>1. ASSUME NEW i \in 1..n
          PROVE  Intact(i)'
      <4>1. i \in 1..Len(infos) /\ (i < n \/ i = n)
        BY <2>2
      <4>2. CASE i < n
        BY <2>4, <4>1, <4>2
      <4>3. CASE i = n
        BY <2>6, <4>3
      <4>4. QED
        BY <4>1, <4>2, <4>3
    <3>2. QED
      BY <2>4, <3>1 DEF Landings, Intact
  <2>10. QED
    BY <2>4, <2>5, <2>7, <2>8, <2>9 DEF IInv
<1>2. ASSUME NEW len \in Sizes, NEW k \in TornAt, WriteTensorDataErr(len, k)
      PROVE  IInv'
  <2> DEFINE got == IF k < len THEN k ELSE len
  <2>1. /\ wstate = "open" /\ wstate' = "failed" /\ CanStart
        /\ len = Declared /\ next_tensor' = n
        /\ UNCHANGED <<decl, head, src_left>>
        /\ placed' = Append(placed, [pos |-> file_len, len |-> got])
        /\ k < ggml_pad(data_pos + len, ALIGNMENT) - data_pos
        /\ file_len' = file_len + k
    BY <1>2 DEF WriteTensorDataErr
  <2>2. k \in Nat /\ len \in Nat /\ got \in Nat
    BY WriterAssumption
  <2>3. /\ n \in 1..Len(infos) /\ n \in 1..Len(tensors) /\ len = tensors[n].nbytes
        /\ k < Slot(n)
        /\ file_len' = DataStart + infos[n] + k
    <3>1. /\ n \in 1..Len(infos) /\ n \in 1..Len(tensors)
          /\ Declared = tensors[n].nbytes /\ data_pos = infos[n]
          /\ file_len = DataStart + infos[n] /\ data_pos \in Nat
          /\ ggml_pad(data_pos + len, ALIGNMENT) = infos[n] + Slot(n)
      BY <2>1, AtStart
    <3>2. Slot(n) \in Nat /\ DataStart \in Nat
      BY <3>1, Shapes
    <3>3. QED
      BY <2>1, <2>2, <3>1, <3>2, SMTT(30)
  <2>4. /\ DOMAIN placed' = 1..n /\ LayoutMatchesHeader'
        /\ \A i \in 1..Len(infos) : i < n => Intact(i)'
        /\ placed'[n] = [pos |-> DataStart + infos[n], len |-> got]
    BY <2>1, <2>2, StartLands
  <2>5. /\ DataStart' = DataStart /\ infos' = infos /\ tensors' = tensors
        /\ Ladder' /\ \A i : Off(i)' = Off(i)
    BY <2>1, SameHeader DEF decl, head
  <2>6. Intact(n)' \/ file_len' < WindowEnd(n)
    <3>1. CASE k < len
      <4>1. DataStart \in Nat /\ infos[n] \in Nat
        BY <2>3, Shapes
      <4>2. QED
        BY <2>2, <2>3, <3>1, <4>1 DEF WindowEnd
    <3>2. CASE ~(k < len)
      BY <2>3, <2>4, <2>5, <3>2 DEF Intact
    <3>3. QED
      BY <3>1, <3>2
  <2>7. NoTornRead'
    <3>1. file_len' <= DataStart + infos[n] + Slot(n)
      BY <2>2, <2>3, Shapes, SMTT(20)
    <3>2. QED
      BY <2>1, <2>3, <2>4, <2>6, <3>1, ReadsIntact
  <2>8. Phases' /\ Cursor'
    BY <2>1, <2>5, Shapes DEF IInv, Phases, Cursor, CanStart, decl, head
  <2>9. Landings'
    BY <2>1, <2>3, <2>4, <2>5 DEF Landings, Intact
  <2>10. QED
    BY <2>4, <2>5, <2>7, <2>8, <2>9 DEF IInv
<1>3. ASSUME NEW src \in Sizes, BeginTensor(src)
      PROVE  IInv'
  <2>1. /\ wstate = "open" /\ wstate' = "streaming" /\ CanStart
        /\ src = Declared /\ next_tensor' = n /\ src_left' = src
        /\ UNCHANGED <<decl, head, data_pos, file_len>>
        /\ placed' = Append(placed, [pos |-> file_len, len |-> 0])
    BY <1>3 DEF BeginTensor, ExactStart
  <2>2. /\ n \in 1..Len(infos) /\ n \in 1..Len(tensors) /\ src = tensors[n].nbytes
        /\ data_pos = infos[n] /\ file_len = DataStart + infos[n]
        /\ src \in Nat
    BY <2>1, AtStart, Shapes
  <2>3. /\ DOMAIN placed' = 1..n /\ LayoutMatchesHeader'
        /\ \A i \in 1..Len(infos) : i < n => Intact(i)'
        /\ placed'[n] = [pos |-> DataStart + infos[n], len |-> 0]
    BY <2>1, StartLands
  <2>4. /\ DataStart' = DataStart /\ infos' = infos /\ tensors' = tensors
        /\ Ladder' /\ \A i : Off(i)' = Off(i)
    BY <2>1, SameHeader DEF decl, head
  <2>5. Intact(n)' \/ file_len' < WindowEnd(n)
    <3>1. CASE src = 0
      BY <2>2, <2>3, <2>4, <3>1 DEF Intact
    <3>2. CASE src # 0
      <4>1. infos[n] \in Nat /\ DataStart \in Nat
        BY <2>2, Shapes
      <4>2. QED
        BY <2>1, <2>2, <3>2, <4>1 DEF WindowEnd
    <3>3. QED
      BY <3>1, <3>2
  <2>6. NoTornRead'
    <3>1. file_len' <= DataStart + infos[n] + Slot(n)
      <4>1. Slot(n) \in Nat /\ DataStart \in Nat /\ infos[n] \in Nat
        BY <2>2, Shapes
      <4>2. QED
        BY <2>1, <2>2, <4>1
    <3>2. QED
      BY <2>1, <2>2, <2>3, <2>5, <3>1, ReadsIntact, SMTT(30)
  <2>7. Phases'
    BY <2>1, <2>4, Shapes DEF IInv, Phases, CanStart, decl, head
  <2>8. Cursor'
    <3>1. header_written'
      BY <2>1 DEF CanStart, head
    <3>2. infos[n] \in Nat /\ DataStart \in Nat
      BY <2>2, Shapes
    <3>3. QED
      BY <2>1, <2>2, <2>3, <2>4, <3>1, <3>2 DEF Cursor
  <2>9. Landings'
    BY <2>1, <2>2, <2>3, <2>4 DEF Landings, Intact
  <2>10. QED
    BY <2>3, <2>4, <2>6, <2>7, <2>8, <2>9 DEF IInv
<1>4. QED
  BY <1>1, <1>2, <1>3

\* A chunk of no bytes changes nothing.
LEMMA NothingLanded ==
  ASSUME IInv, wstate = "streaming"
  PROVE  Landed(0) = placed
<1>1. TInv /\ placed \in Seq(Landing) /\ next_tensor \in DOMAIN placed
  BY DEF IInv, TInv, TypeOK, Started
<1>2. /\ Landed(0) \in Seq(Landing) /\ Len(Landed(0)) = Len(placed)
      /\ \A i \in DOMAIN placed :
           Landed(0)[i] = IF i = next_tensor
                          THEN [pos |-> placed[i].pos, len |-> placed[i].len + 0]
                          ELSE placed[i]
  BY <1>1, LandedShape
<1>3. \A i \in 1..Len(placed) : Landed(0)[i] = placed[i]
  <2>1. SUFFICES ASSUME NEW i \in 1..Len(placed)
                 PROVE  Landed(0)[i] = placed[i]
    OBVIOUS
  <2>2. placed[i] \in Landing /\ i \in DOMAIN placed
    BY <1>1, ElementOfSeq
  <2>3. placed[i] = [pos |-> placed[i].pos, len |-> placed[i].len + 0]
    BY <2>2 DEF Landing
  <2>4. QED
    BY <1>2, <2>2, <2>3
<1>4. QED
  BY <1>1, <1>2, <1>3, SeqEqual

\* A step inside tensor n touches n's landing and no other.
LEMMA StreamLands ==
  ASSUME IInv, wstate = "streaming", UNCHANGED <<decl, head>>,
         NEW n, n = next_tensor, next_tensor' = n, NEW got \in Nat,
         placed' = Landed(got)
  PROVE  /\ n \in 1..Len(infos) /\ n \in 1..Len(tensors) /\ DOMAIN placed' = 1..n
         /\ \A i \in 1..Len(infos) : i < n => Intact(i)'
         /\ placed'[n].len = tensors[n].nbytes - src_left + got
         /\ placed'[n].pos = DataStart + infos[n]
         /\ LayoutMatchesHeader'
<1>1. /\ header_written /\ Len(infos) = Len(tensors)
      /\ n \in 1..Len(placed) /\ Len(placed) = n /\ placed \in Seq(Landing)
      /\ n \in 0..Len(tensors)
  BY Shapes DEF IInv, Cursor, Phases, TInv, Started
<1>2. n \in 1..Len(infos) /\ n \in 1..Len(tensors) /\ DOMAIN placed = 1..n
  BY <1>1
<1>3. /\ DOMAIN placed' = 1..n
      /\ \A i \in 1..n : placed'[i].pos = placed[i].pos
      /\ \A i \in 1..(n - 1) : placed'[i] = placed[i]
      /\ placed'[n].len = placed[n].len + got
  <2>1. TInv /\ next_tensor \in DOMAIN placed
    BY <1>2 DEF IInv
  <2>2. /\ Len(placed') = n /\ placed' \in Seq(Landing)
        /\ \A i \in DOMAIN placed :
             placed'[i] = IF i = n
                          THEN [pos |-> placed[i].pos, len |-> placed[i].len + got]
                          ELSE placed[i]
    BY <1>1, <2>1, LandedShape
  <2>3. QED
    BY <1>1, <1>2, <2>2
<1>4. DataStart' = DataStart /\ infos' = infos /\ tensors' = tensors
  BY SameHeader DEF decl, head
<1>5. ASSUME NEW i \in 1..Len(infos), i < n
      PROVE  Intact(i)'
  <2>1. i \in DOMAIN placed /\ i \in DOMAIN placed' /\ placed'[i] = placed[i]
    BY <1>2, <1>3, <1>5
  <2>2. Intact(i)
    BY <2>1, <1>5, EarlierIntact
  <2>3. QED
    BY <1>4, <2>1, <2>2 DEF Intact
<1>6. LayoutMatchesHeader'
  BY <1>2, <1>3, <1>4 DEF LayoutMatchesHeader, IInv
<1>7. placed[n].len = tensors[n].nbytes - src_left
      /\ placed[n].pos = DataStart + infos[n]
  BY <1>2 DEF IInv, Cursor, LayoutMatchesHeader
<1>8. QED
  BY <1>2, <1>3, <1>5, <1>6, <1>7

\* Chunks and the closing padding climb exactly one rung.
LEMMA StreamStep ==
  ASSUME IInv, TInv',
         \/ WriteChunk
         \/ \E k \in TornAt : WriteChunkErr(k)
         \/ EndTensor
         \/ \E k \in TornAt : EndTensorErr(k)
  PROVE  IInv'
<1> PICK n \in Nat : n = next_tensor
  BY Shapes
<1>1. /\ wstate = "streaming" /\ next_tensor' = n /\ UNCHANGED <<decl, head>>
  BY DEF WriteChunk, WriteChunkErr, EndTensor, EndTensorErr
<1> DEFINE nb == tensors[n].nbytes
<1>2. /\ header_written /\ Len(infos) = Len(tensors)
      /\ n \in 1..Len(infos) /\ n \in 1..Len(tensors)
  BY <1>1, Shapes DEF IInv, Cursor, Phases, TInv, Started
<1>3. /\ infos[n] \in Nat /\ DataStart \in Nat /\ Slot(n) \in Nat /\ nb \in Nat
      /\ src_left \in Nat /\ data_pos \in Nat
  BY <1>2, Shapes DEF IInv, TInv, TypeOK
<1>4. /\ src_left <= nb
      /\ data_pos = infos[n] + nb - src_left
      /\ file_len = DataStart + data_pos
  BY <1>1 DEF IInv, Cursor
<1>5. infos[n] % ALIGNMENT = 0 /\ Off(n + 1) = infos[n] + Slot(n)
  <2>1. Off(n) % ALIGNMENT = 0 /\ Off(n + 1) = infos[n] + Slot(n)
    BY <1>2, Shapes DEF IInv, Ladder
  <2>2. QED
    BY <1>2, <2>1 DEF Off
<1>6. nb <= Slot(n)
  BY <1>3, PadCovers DEF Slot
<1>7. /\ DataStart' = DataStart /\ infos' = infos /\ tensors' = tensors
      /\ header_written' = header_written
      /\ Ladder' /\ \A i : Off(i)' = Off(i)
  BY <1>1, SameHeader DEF decl, head
<1>8. WindowEnd(n) = DataStart + infos[n] + nb
  BY DEF WindowEnd
<1>9. Phases' <=> Len(infos) = Len(tensors) /\ wstate' \notin {"none", "encoding"}
  BY <1>2, <1>7, <1>3 DEF Phases
<1>10. ASSUME WriteChunk
       PROVE  IInv'
  <2>1. /\ Chunk \in Nat /\ Chunk <= src_left /\ wstate' = "streaming"
        /\ src_left' = src_left - Chunk /\ data_pos' = data_pos + Chunk
        /\ file_len' = file_len + Chunk /\ placed' = Landed(Chunk)
    BY <1>3, <1>10, WriterAssumption DEF WriteChunk, Chunk
  <2>2. /\ DOMAIN placed' = 1..n /\ LayoutMatchesHeader'
        /\ \A i \in 1..Len(infos) : i < n => Intact(i)'
        /\ placed'[n].len = nb - src_left + Chunk
        /\ placed'[n].pos = DataStart + infos[n]
    BY <1>1, <2>1, StreamLands
  <2>3. Intact(n)' \/ file_len' < WindowEnd(n)
    <3>1. CASE Chunk = src_left
      BY <1>2, <1>3, <1>7, <2>2, <3>1 DEF Intact
    <3>2. CASE Chunk # src_left
      BY <1>3, <1>4, <1>8, <2>1, <3>2
    <3>3. QED
      BY <3>1, <3>2
  <2>4. NoTornRead'
    <3>1. file_len' <= DataStart + infos[n] + Slot(n)
      BY <1>3, <1>4, <1>6, <2>1
    <3>2. QED
      BY <1>1, <1>2, <2>2, <2>3, <3>1, ReadsIntact
  <2>5. Cursor'
    <3>1. /\ src_left' <= nb /\ data_pos' = infos[n] + nb - src_left'
          /\ file_len' = DataStart + data_pos'
          /\ placed'[n].len = nb - src_left'
      <4>1. placed'[n].len = nb - src_left + Chunk
        BY <2>2
      <4>2. QED
        BY <1>3, <1>4, <2>1, <4>1
    <3>2. QED
      BY <1>1, <1>2, <1>7, <2>1, <3>1 DEF Cursor
  <2>6. Landings'
    BY <1>1, <1>2, <1>7, <2>1, <2>2 DEF Landings, Intact
  <2>7. QED
    BY <1>2, <1>7, <1>9, <2>1, <2>2, <2>4, <2>5, <2>6 DEF IInv
<1>11. ASSUME NEW k \in TornAt, WriteChunkErr(k)
       PROVE  IInv'
  <2>1. /\ k \in Nat /\ k < src_left /\ wstate' = "failed"
        /\ file_len' = file_len + k /\ placed' = Landed(k)
    BY <1>3, <1>11, WriterAssumption DEF WriteChunkErr, Chunk
  <2>2. /\ DOMAIN placed' = 1..n /\ LayoutMatchesHeader'
        /\ \A i \in 1..Len(infos) : i < n => Intact(i)'
    BY <1>1, <2>1, StreamLands
  <2>3. file_len' < WindowEnd(n)
    BY <1>3, <1>4, <1>8, <2>1
  <2>4. NoTornRead'
    <3>1. file_len' <= DataStart + infos[n] + Slot(n)
      BY <1>3, <1>4, <1>6, <2>1
    <3>2. QED
      BY <1>1, <1>2, <2>2, <2>3, <3>1, ReadsIntact
  <2>5. Cursor'
    BY <2>1 DEF Cursor
  <2>6. Landings'
    BY <1>1, <1>2, <1>7, <2>1, <2>2 DEF Landings, Intact
  <2>7. QED
    BY <1>2, <1>7, <1>9, <2>1, <2>2, <2>4, <2>5, <2>6 DEF IInv
<1>12. ASSUME EndTensor \/ \E k \in TornAt : EndTensorErr(k)
       PROVE  IInv'
  <2>1. data_pos = infos[n] + nb /\ src_left = 0 /\ placed' = placed
    BY <1>3, <1>4, <1>12 DEF EndTensor, EndTensorErr
  <2>2. data_pos + Padding = infos[n] + Slot(n) /\ Padding \in Nat
    <3>1. ggml_pad(data_pos, ALIGNMENT) = infos[n] + Slot(n)
      BY <1>3, <1>5, <2>1, PadAligned DEF Slot
    <3>2. QED
      BY <1>3, <1>6, <2>1, <3>1 DEF Padding
  <2>3. /\ DOMAIN placed' = 1..n /\ LayoutMatchesHeader'
        /\ \A i \in 1..Len(infos) : i < n => Intact(i)'
        /\ placed'[n].len = nb /\ placed'[n].pos = DataStart + infos[n]
    <3>1. placed' = Landed(0)
      BY <1>1, <2>1, NothingLanded
    <3>2. QED
      BY <1>1, <1>3, <2>1, <3>1, StreamLands
  <2>4. Intact(n)'
    BY <1>2, <1>7, <2>3 DEF Intact
  <2>5. file_len' <= DataStart + infos[n] + Slot(n)
    <3>1. CASE EndTensor
      BY <1>3, <1>4, <2>2, <3>1 DEF EndTensor
    <3>2. ASSUME NEW k \in TornAt, EndTensorErr(k)
          PROVE  file_len' <= DataStart + infos[n] + Slot(n)
      BY <1>3, <1>4, <2>2, <3>2, WriterAssumption DEF EndTensorErr
    <3>3. QED
      BY <1>12, <3>1, <3>2
  <2>6. NoTornRead'
    BY <1>1, <1>2, <2>3, <2>4, <2>5, ReadsIntact
  <2>7. wstate' \in {"open", "failed"}
    BY <1>12 DEF EndTensor, EndTensorErr
  <2>8. Cursor'
    <3>1. CASE EndTensor
      BY <1>1, <1>3, <1>4, <1>5, <1>7, <2>2, <2>7, <3>1 DEF EndTensor, Cursor
    <3>2. CASE \E k \in TornAt : EndTensorErr(k)
      BY <3>2 DEF EndTensorErr, Cursor
    <3>3. QED
      BY <1>12, <3>1, <3>2
  <2>9. Landings'
    BY <1>1, <1>2, <1>7, <2>3, <2>4, <2>7 DEF Landings, Intact
  <2>10. QED
    BY <1>2, <1>7, <1>9, <2>3, <2>6, <2>7, <2>8, <2>9 DEF IInv
<1>13. QED
  BY <1>10, <1>11, <1>12

-----------------------------------------------------------------------------
(* The theorems, for every choice of keys, names, sizes, header lengths,   *)
(* chunk length and failure points, under SourceExact.                     *)

\* The invariant holds initially.
LEMMA WriterInit == WInit => IInv
<1> SUFFICES ASSUME WInit
             PROVE  IInv
  OBVIOUS
<1>1. TInv
  BY TypeInit
<1>2. Len(infos) = 0 /\ DOMAIN infos = {} /\ DOMAIN placed = {} /\ Len(tensors) = 0
  BY DEF WInit
<1>3. Off(1) = 0 /\ Off(1) % ALIGNMENT = 0
  BY <1>2 DEF WInit, Off, ALIGNMENT
<1>4. Ladder
  BY <1>2, <1>3 DEF Ladder
<1>5. Phases /\ Cursor
  BY <1>2 DEF WInit, Phases, Cursor
<1>6. Landings /\ LayoutMatchesHeader /\ NoTornRead
  BY <1>2 DEF Landings, LayoutMatchesHeader, NoTornRead
<1>7. QED
  BY <1>1, <1>4, <1>5, <1>6 DEF IInv

\* Every step keeps the invariant, if what it begins to stream has the declared
\* length.
LEMMA ExactStep == ExactStart /\ IInv /\ [WNext]_wvars => IInv'
<1> SUFFICES ASSUME ExactStart, IInv, [WNext]_wvars
             PROVE  IInv'
  OBVIOUS
<1>1. TInv'
  BY TypeStep DEF IInv
<1>2. CASE Panic /\ wstate = "open"
  BY <1>1, <1>2, PanicStep
<1>3. CASE Declare \/ Finish \/ UNCHANGED wvars
  BY <1>1, <1>3, DeclareStep
<1>4. CASE WriteHeader
  BY <1>1, <1>4, DeclareStep, HeaderStep DEF WriteHeader
<1>5. CASE Stream
  <2>1. \A len \in Sizes : WriteTensorData(len) => wstate = "open"
    BY DEF WriteTensorData
  <2>2. \A len \in Sizes, k \in TornAt :
           WriteTensorDataErr(len, k) => wstate = "open"
    BY DEF WriteTensorDataErr
  <2>3. \A src \in Sizes : BeginTensor(src) => wstate = "open"
    BY DEF BeginTensor
  <2>4. CASE ~Panic
    BY <1>1, <1>5, <2>4, StartStep, StreamStep DEF Stream
  <2>5. CASE Panic
    BY <1>1, <1>2, <1>5, <2>1, <2>2, <2>3, <2>5, StreamStep DEF Stream
  <2>6. QED
    BY <2>4, <2>5
<1>6. QED
  BY <1>3, <1>4, <1>5 DEF WNext

\* All do under SourceExact: begin_tensor alone starts a stream.
LEMMA WriterStep == SourceExact /\ IInv /\ [WNext]_wvars => IInv'
<1> SUFFICES ASSUME SourceExact, [WNext]_wvars, wstate = "open", wstate' = "streaming"
             PROVE  src_left' = Declared
  BY ExactStep DEF ExactStart
<1>1. CASE \E src \in Sizes : BeginTensor(src)
  BY <1>1, SourceExact DEF BeginTensor, Panic
<1>2. CASE Declare \/ Finish \/ UNCHANGED wvars
  BY <1>2 DEF Declare, New, AddKv, AddTensorInfo, Finish, Panic, wvars
<1>3. CASE WriteHeader
  BY <1>3 DEF WriteHeader, BeginHeader, EncodeInfo, EmitHeader, EmitHeaderErr, Panic
<1>4. CASE WriteChunk \/ EndTensor \/ \E k \in TornAt : WriteChunkErr(k) \/ EndTensorErr(k)
  BY <1>4 DEF WriteChunk, EndTensor, WriteChunkErr, EndTensorErr
<1>5. CASE \/ \E len \in Sizes : WriteTensorData(len)
           \/ \E len \in Sizes, k \in TornAt : WriteTensorDataErr(len, k)
  BY <1>5 DEF WriteTensorData, WriteTensorDataErr, Panic
<1> QED BY <1>1, <1>2, <1>3, <1>4, <1>5 DEF WNext, Stream

\* The bytes of every tensor begin where the header announced them.
THEOREM LayoutCorrect ==
  ASSUME SourceExact
  PROVE  WSpec => []LayoutMatchesHeader
<1>1. IInv => LayoutMatchesHeader
  BY DEF IInv
<1>2. IInv /\ [WNext]_wvars => IInv'
  BY WriterStep
<1>3. QED
  BY <1>1, <1>2, WriterInit, PTL DEF WSpec

\* A window that lies inside a torn file holds its own tensor's bytes.
THEOREM NoTornReadCorrect ==
  ASSUME SourceExact
  PROVE  WSpec => []NoTornRead
<1>1. IInv => NoTornRead
  BY DEF IInv
<1>2. IInv /\ [WNext]_wvars => IInv'
  BY WriterStep
<1>3. QED
  BY <1>1, <1>2, WriterInit, PTL DEF WSpec

\* A file that finish accepts is complete, whole tensors in announced places.
THEOREM FinishedCorrect ==
  ASSUME SourceExact
  PROVE  WSpec => []FinishedIsComplete
<1>1. IInv => FinishedIsComplete
  <2> SUFFICES ASSUME IInv, wstate = "finished", tensors # <<>>
               PROVE  /\ header_written
                      /\ \A i \in DOMAIN tensors : Intact(i)
                      /\ file_len % ALIGNMENT = 0
    BY DEF FinishedIsComplete
  <2>1. next_tensor = Len(tensors) /\ Len(tensors) \in Nat /\ Len(tensors) > 0
        /\ DOMAIN tensors = 1..Len(tensors) /\ Len(placed) = Len(tensors)
        /\ DOMAIN placed = DOMAIN tensors
    BY Shapes, EmptySeq DEF IInv, Cursor
  <2>2. header_written
    BY <2>1 DEF IInv, Phases
  <2>3. \A i \in DOMAIN tensors : Intact(i)
    BY <2>1, EarlierIntact
  <2>4. file_len % ALIGNMENT = 0
    <3>1. file_len = DataStart + data_pos /\ data_pos = Off(Len(infos) + 1)
          /\ Off(Len(infos) + 1) % ALIGNMENT = 0
      BY <2>1, <2>2, Shapes DEF IInv, Cursor, Phases, Ladder
    <3>2. DataStart \in Nat /\ DataStart % ALIGNMENT = 0 /\ data_pos \in Nat
      BY Shapes DEF IInv, TInv, TypeOK
    <3>3. QED
      BY <3>1, <3>2 DEF ALIGNMENT
  <2>5. QED
    BY <2>2, <2>3, <2>4
<1>2. IInv /\ [WNext]_wvars => IInv'
  BY WriterStep
<1>3. QED
  BY <1>1, <1>2, WriterInit, PTL DEF WSpec
=============================================================================
