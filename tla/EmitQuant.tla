----------------------------- MODULE EmitQuant -----------------------------
(***************************************************************************)
(* One call of emit_quant (remix/mod.rs) on one planned tensor, judged by  *)
(* a reference: the decoders of the two block formats, which belong to the *)
(* consumer of the file, and the meaning of the two head orders.           *)
(***************************************************************************)
EXTENDS Quant

CONSTANT Jobs  \* [kind, topo, q, s], see Quant

Heads == [num_k : Nat \ {0}, num_v : Nat, head_k : Nat, head_v : Nat \ {0}]

IsArray(a) == Size(a) \in Nat /\ DOMAIN a = Indices(Size(a))

\* What run has checked when it gets here: that the heads divide, that the tensor
\* has two dimensions, and that columns move in aligned runs.
ASSUME JobAssumption ==
  \A job \in Jobs :
     /\ job.kind \in QuantKinds
     /\ job.topo \in Heads /\ job.topo.num_v % job.topo.num_k = 0
     /\ job.kind = "QuantVCol" => aligned_chunks(perm_v(job.topo))
     /\ job.q.shape \in Seq(Nat) /\ Len(job.q.shape) >= 2
     /\ IsArray(job.q.words) /\ IsArray(job.s.elems)

VARIABLES
  job,   \* the tensor to convert
  out    \* <<>> before, then [tag |-> "ok" | "err" | "panic", blob]

vars == <<job, out>>

Init == job \in Jobs /\ out = <<>>

Refuse == /\ out = <<>>
          /\ ScalesMismatch(job.q, job.s)
          /\ out' = [tag |-> "err", blob |-> <<>>]
          /\ UNCHANGED job

Abort == /\ out = <<>>
         /\ ~ScalesMismatch(job.q, job.s)
         /\ ~Converts(job.kind, job.topo, job.q, job.s)
         /\ out' = [tag |-> "panic", blob |-> <<>>]
         /\ UNCHANGED job

Emit == /\ out = <<>>
        /\ ~ScalesMismatch(job.q, job.s)
        /\ Converts(job.kind, job.topo, job.q, job.s)
        /\ out' = [tag  |-> "ok",
                   blob |-> Blob(job.kind, job.topo, job.q, job.s)]
        /\ UNCHANGED job

Next == Refuse \/ Abort \/ Emit

Spec == Init /\ [][Next]_vars

-----------------------------------------------------------------------------
(* The reference.                                                          *)

Ok == out # <<>> /\ out.tag = "ok"

In == InF(job.q)
Out == OutF(job.q)

\* What a consumer reads for input i of output o: the code and the scale.
Nibble(block, i) ==
  IF job.kind = "QuantVCol"
  THEN LET byte == block.qs[i \div 2] IN byte[1 + (i % 2)]
  ELSE IF i < 16 THEN block.qs[i][1] ELSE block.qs[i - 16][2]

PerBlock == type_sizes[BlobType(job.kind)].block

Decoded(o, i) ==
  LET block == out.blob[o * (In \div PerBlock) + (i \div PerBlock)]
  IN  [code |-> Nibble(block, i % PerBlock), scale |-> block.d]

\* The same of the checkpoint: AutoGPTQ packs eight inputs of an output into a
\* word, and 128 inputs share a scale.
Stored(o, i) ==
  [code  |-> job.q.words[(i \div WORD) * Out + o][i % WORD],
   scale |-> job.s.elems[(i \div GROUP_SIZE) * Out + o]]

\* Tiled order: position p holds the value head that comes p \div num_k-th
\* among those of key head p % num_k.
GroupedHead(topo, p) == (p % topo.num_k) * (topo.num_v \div topo.num_k) + (p \div topo.num_k)

Grouped(topo, t) == GroupedHead(topo, t \div topo.head_v) * topo.head_v + (t % topo.head_v)

Qk == 2 * job.topo.num_k * job.topo.head_k

\* The checkpoint's output and input that belong at (o, i).
Origin(o, i) ==
  CASE job.kind = "QuantTrunk"   -> <<o, i>>
    [] job.kind = "QuantVRowZ"   -> <<Grouped(job.topo, o), i>>
    [] job.kind = "QuantVRowQkv" -> <<IF o < Qk THEN o ELSE Qk + Grouped(job.topo, o - Qk), i>>
    [] job.kind = "QuantVCol"    -> <<o, Grouped(job.topo, i)>>

-----------------------------------------------------------------------------
(* Properties.                                                             *)

\* "Lossless repack": each weight the consumer decodes has the code and the
\* scale that the checkpoint gives the weight which belongs there.
Lossless ==
  Ok => \A o \in Indices(Out), i \in Indices(In) :
           LET from == Origin(o, i) IN Decoded(o, i) = Stored(from[1], from[2])

\* The reordering drops no weight and doubles none, whatever the heads are.
ReordersAll ==
  LET full == full_perm_qkv(job.topo)
  IN  {full[n] : n \in DOMAIN full} = DOMAIN full

\* The blob has the length the plan declared to the writer for these shapes,
\* else write_tensor_data would panic with the header already on disk.
PlannedLength ==
  Ok => Size(out.blob) * type_sizes[BlobType(job.kind)].bytes
          = QuantBytes(job.kind, In, Out)

\* The groups that some input is in, the last of which may not be full.
Groups == (In + GROUP_SIZE - 1) \div GROUP_SIZE

\* A tensor that fits its heads, whose inputs fill whole groups and whose slices
\* have the length of their shapes.  A column tensor's scales need only suffice,
\* even if there are more than its shape says.
Regular ==
  /\ job.s.shape = <<In \div GROUP_SIZE, Out>>
  /\ Size(job.q.words) = job.q.shape[1] * Out
  /\ IF job.kind = "QuantVCol"
     THEN Size(job.s.elems) >= Groups * Out
     ELSE In % GROUP_SIZE = 0 /\ Size(job.s.elems) = (In \div GROUP_SIZE) * Out
  /\ job.kind = "QuantVRowZ"   => Out = job.topo.num_v * job.topo.head_v
  /\ job.kind = "QuantVRowQkv" => Out = Qk + job.topo.num_v * job.topo.head_v
  /\ job.kind = "QuantVCol"    => In = job.topo.num_v * job.topo.head_v

\* A regular tensor is converted; anything else that could be read past an end,
\* or cut short, is refused, and never converted to something.
ConvertsExactlyRegular == out # <<>> /\ Out > 0 => (Ok <=> Regular)

\* "[n_groups, out] fp16 bits": what is written as the scale of a block is a
\* 16-bit float of the checkpoint.
ScalesAreFp16 == Ok => job.s.dtype = "F16"
=============================================================================
