------------------------------- MODULE Remix -------------------------------
(***************************************************************************)
(* gguf-recast remix (src/remix/mod.rs): the tensors of a checkpoint are   *)
(* planned in two phases, the quantized triples first and everything not   *)
(* consumed by them second; then the output is created, its KV section and *)
(* header written from the plan, and each planned tensor emitted.  Every   *)
(* step takes at most one step of the gguf::Writer this module extends;    *)
(* the data of quantized tensors is the subject of EmitQuant, only lengths *)
(* and head orders are kept here.                                          *)
(*                                                                         *)
(* Names.  A checkpoint name such as                                       *)
(*   model.language_model.layers.3.mlp.up_proj.weight                      *)
(* is [at, blk, tail, suf, lang]: where it lives ("layers", "top", "mtp",  *)
(* "mtp.layers" or "visual", which stands for every multimodal prefix and  *)
(* substring), the layer, the dotted rest, the suffix, and whether it has  *)
(* the "language_model." infix (mtp names never have it).  A GGUF name is  *)
(* [blk, tail, suf]; blk = -1 is a name outside the blocks.                *)
(***************************************************************************)
EXTENDS GGUFWriter, Quant, Selection, SequencesExt

CONSTANT
  Jobs  \* [config, topo, mtp, meta, ckpt]: config is "supported", "unsupported" or
        \* "incomplete" (a topology entry is missing); mtp the layers that config.json
        \* gives the MTP head, 0 if it says nothing; meta the sequence of KV keys
        \* that build_kvs adds, "unsupported" or "missing" where it refuses a value
        \* or an hparam is absent; ckpt the tensors [name, dtype, shape, bytes] of
        \* all shards in order

VARIABLES
  pc,        \* where run stands
  job,       \* configuration and checkpoint, one of Jobs
  model_tensors,  \* the tensors of the checkpoint that are kept, by their new names
  qweight_order,  \* indices of the .qweight tensors among them
  plan,      \* Planned records in output order
  consumed,  \* tensors that phase A used or dropped
  at,        \* cursor of the planning or KV loop
  heads,     \* per tensor emitted: the V head found at each position
  disk,      \* the output path: "old", "partial" or "whole"
  cause      \* why run failed

input == <<job, model_tensors, qweight_order>>
xvars == <<pc, input, plan, consumed, at, heads, disk, cause>>
vars == <<xvars, wvars>>

Ends == {"ok", "err", "panicked", "crashed"}

NoName == [blk |-> -2, tail |-> "", suf |-> ""]

topo == job.topo

\* Only a name in layers has a layer, and mtp names never have the infix.
Name == {name \in [at : {"layers", "top", "mtp", "mtp.layers", "visual"}, blk : Nat,
                   tail : STRING, suf : STRING, lang : BOOLEAN] :
           /\ name.at \in {"layers", "mtp.layers"} \/ name.blk = 0
           /\ name.at \in {"mtp", "mtp.layers"} => ~name.lang}

Entry == [name : Name, dtype : {"BF16", "F16", "F32", "I32"}, shape : Seq(Nat), bytes : Nat]

\* A V head has elements.
Topology == [num_k : Nat, num_v : Nat, head_k : Nat, head_v : Nat \ {0}, n_layer : Nat]

Job == [config : {"supported", "unsupported", "incomplete"}, topo : Topology, mtp : Nat,
        meta : Seq(STRING), ckpt : Seq(Entry)]

-----------------------------------------------------------------------------
(* Names.                                                                  *)

\* mtp names stay as they are, multimodal ones are dropped, the rest loses the
\* infix, which may make two names one.
Keeps(name) == name.at # "visual"
filter_name(name) ==
  IF name.at \in {"mtp", "mtp.layers"} THEN name ELSE [name EXCEPT !.lang = FALSE]

TopMap == [embed_tokens |-> "token_embd", norm |-> "output_norm", lm_head |-> "output"]

LayerTable ==
  {<<"input_layernorm", "attn_norm">>, <<"post_attention_layernorm", "post_attention_norm">>,
   <<"self_attn.q_proj", "attn_q">>, <<"self_attn.k_proj", "attn_k">>,
   <<"self_attn.v_proj", "attn_v">>, <<"self_attn.o_proj", "attn_output">>,
   <<"self_attn.q_norm", "attn_q_norm">>, <<"self_attn.k_norm", "attn_k_norm">>,
   <<"mlp.gate_proj", "ffn_gate">>, <<"mlp.up_proj", "ffn_up">>, <<"mlp.down_proj", "ffn_down">>,
   <<"linear_attn.in_proj_qkv", "attn_qkv">>, <<"linear_attn.in_proj_z", "attn_gate">>,
   <<"linear_attn.out_proj", "ssm_out">>, <<"linear_attn.in_proj_a", "ssm_alpha">>,
   <<"linear_attn.in_proj_b", "ssm_beta">>, <<"linear_attn.conv1d", "ssm_conv1d">>,
   <<"linear_attn.dt_proj", "ssm_dt">>, <<"linear_attn.A_log", "ssm_a">>,
   <<"linear_attn.norm", "ssm_norm">>, <<"eh_proj", "nextn.eh_proj">>,
   <<"enorm", "nextn.enorm">>, <<"hnorm", "nextn.hnorm">>,
   <<"shared_head.norm", "nextn.shared_head_norm">>}

LayerMap == [t \in {row[1] : row \in LayerTable} |->
               (CHOOSE row \in LayerTable : row[1] = t)[2]]

\* Also map_with_suffix: only .weight and .bias are suffixes, a name with
\* another one is not in the map.
map_with_suffix(name) ==
  IF name.suf \notin {".weight", ".bias", ""} THEN NoName
  ELSE IF name.at = "top" /\ name.tail \in DOMAIN TopMap
       THEN [blk |-> -1, tail |-> TopMap[name.tail], suf |-> name.suf]
  ELSE IF name.at = "layers" /\ name.tail \in DOMAIN LayerMap
       THEN [blk |-> name.blk, tail |-> LayerMap[name.tail], suf |-> name.suf]
  ELSE NoName

\* Variant: the layers of the MTP head are not moved behind the others.
remap_mtp_layersStay(name) ==
  IF name.at = "mtp.layers" THEN [name EXCEPT !.at = "layers"] ELSE name

\* Variant: the layers of the MTP head are counted from 1.
remap_mtp_layersPast(name) ==
  IF name.at = "mtp.layers"
  THEN [name EXCEPT !.at = "layers", !.blk = @ + topo.n_layer + 1] ELSE name

remap_mtp_layers(name) ==
  IF name.at = "mtp.layers"
  THEN [name EXCEPT !.at = "layers", !.blk = @ + topo.n_layer] ELSE name

MtpMap == [fc |-> "eh_proj", pre_fc_norm_embedding |-> "enorm",
           pre_fc_norm_hidden |-> "hnorm", norm |-> "shared_head.norm"]

\* plan_standard's own renaming, which knows the MTP head's other tensors.  A
\* stem is what is left without the last suffix.
UnknownMtp(name) == name.at = "mtp" /\ (name.tail \notin DOMAIN MtpMap \/ name.suf = "")
remap_mtp(name) ==
  CASE name.at = "mtp" ->
         [name EXCEPT !.at = "layers", !.blk = topo.n_layer, !.tail = MtpMap[@]]
    [] name.at = "mtp.layers" -> [name EXCEPT !.at = "layers", !.blk = @ + topo.n_layer]
    [] OTHER -> name

DtBias == "linear_attn.dt_bias"

\* dt_bias becomes dt_proj.bias.
out_name(name) ==
  IF name.tail = DtBias /\ name.suf = ""
  THEN [name EXCEPT !.tail = "linear_attn.dt_proj", !.suf = ".bias"] ELSE name

filtered(ckpt) ==
  LET kept == Only(ckpt, {t \in Range(ckpt) : Keeps(t.name)})
  IN  [i \in DOMAIN kept |-> [kept[i] EXCEPT !.name = filter_name(@)]]

\* The first tensor of that name, 0 if there is none.
idx_of(name) ==
  LET found == {i \in DOMAIN model_tensors : model_tensors[i].name = name}
  IN  IF found = {} THEN 0 ELSE CHOOSE i \in found : \A j \in found : i <= j

-----------------------------------------------------------------------------
(* Phase A.                                                                *)

qweights(ts) ==
  Only([i \in DOMAIN ts |-> i], {i \in DOMAIN ts : ts[i].name.suf = ".qweight"})

Kind(name) == CASE name.tail = "linear_attn.in_proj_qkv" -> "QuantVRowQkv"
                [] name.tail = "linear_attn.in_proj_z"   -> "QuantVRowZ"
                [] name.tail = "linear_attn.out_proj"    -> "QuantVCol"
                [] OTHER                                 -> "QuantTrunk"

\* Only the trunk's names are remapped.
QuantName(name) ==
  LET weight == [name EXCEPT !.suf = ".weight"]
  IN  map_with_suffix(IF Kind(name) = "QuantTrunk" THEN remap_mtp_layers(weight)
                      ELSE weight)

\* Variant: the group indices are left to phase B.
CompanionsNoIdx(name) ==
  {idx_of([name EXCEPT !.suf = s]) : s \in {".qweight", ".qzeros", ".scales"}} \ {0}

\* Variant: a bias is taken for a part of the quantized module.
CompanionsBias(name) ==
  {idx_of([name EXCEPT !.suf = s]) :
     s \in {".qweight", ".qzeros", ".scales", ".g_idx", ".bias"}} \ {0}

\* Variant: a part that is not there is consumed all the same.
CompanionsUnfound(name) ==
  {idx_of([name EXCEPT !.suf = s]) : s \in {".qweight", ".qzeros", ".scales", ".g_idx"}}

\* The parts of the module, as far as they are there, that phase A takes.
Companions(name) ==
  {idx_of([name EXCEPT !.suf = s]) : s \in {".qweight", ".qzeros", ".scales", ".g_idx"}} \ {0}

-----------------------------------------------------------------------------
(* Phase B: how plan_standard routes a tensor of the (renamed) name.       *)

\* Tails that end in "norm".
NormTails == {"norm", "input_layernorm", "post_attention_layernorm", "self_attn.q_norm",
              "self_attn.k_norm", "linear_attn.norm", "enorm", "hnorm", "shared_head.norm"}

\* Variant: the second of the two gated inputs is overlooked.
GatedInputsAlpha == {"linear_attn.in_proj_a"}

GatedInputs == {"linear_attn.in_proj_a", "linear_attn.in_proj_b"}

SourceOf(name, shape) ==
  CASE name.tail \in GatedInputs /\ name.suf = ".weight" -> "Bf16ToF16RowPerm"
    [] name.tail = "linear_attn.A_log" /\ name.suf = "" -> "F32NegExp"
    [] name.tail = DtBias /\ name.suf = "" -> "F32PlainPerm"
    [] name.tail = "linear_attn.conv1d" -> "F32Conv1d"
    [] name.tail \in NormTails \ {"linear_attn.norm"} /\ name.suf = ".weight" -> "F32PlusOne"
    [] name.tail = "linear_attn.norm" /\ name.suf = ".weight" -> "F32Plain"
    [] OTHER -> IF Len(shape) = 1 THEN "F32Plain" ELSE "Bf16ToF16"

\* The dims a route indexes.
HasDims(src, shape) == /\ src = "Bf16ToF16RowPerm" => Len(shape) >= 2
                       /\ src = "F32Conv1d" => Len(shape) >= 3

Squeezed(src, shape) == IF src = "F32Conv1d" THEN <<shape[1], shape[3]>> ELSE shape

\* GGUF tails that end in "_norm".
NormOut == {"output_norm", "attn_norm", "post_attention_norm", "attn_q_norm",
            "attn_k_norm", "ssm_norm", "nextn.shared_head_norm"}

\* prepare_tensors' rule for the type of the GGUF name g.
is_f32(g, shape) == \/ Len(shape) <= 1
                    \/ g.tail \in NormOut /\ g.suf = ".weight"
                    \/ g.tail = "ssm_conv1d" /\ g.suf # ""
                    \/ g.suf # ".weight"

F16Sources == {"Bf16ToF16", "Bf16ToF16RowPerm"}

RoutingMismatch(src, g, shape) == (src \in F16Sources) = is_f32(g, shape)

\* The number of blocks that the KV section announces.
block_count == topo.n_layer + job.mtp

Product(shape) ==
  LET upTo[n \in 0..Len(shape)] == IF n = 0 THEN 1 ELSE upTo[n - 1] * shape[n]
  IN  upTo[Len(shape)]

-----------------------------------------------------------------------------
(* Emission.                                                               *)

perm48 == v_reorder_perm(topo.num_k, topo.num_v, 1)

\* The u16 or u32 elements of a tensor's slice; an odd tail is dropped.
Slice(t, width) == [n \in Indices(t.bytes \div width) |-> n]

\* Gathering rows of width elements by perm stays inside the slice.
GatherFits(perm, width, t) ==
  \A n \in DOMAIN perm : (perm[n] + 1) * width <= t.bytes \div 2

\* How emission of planned tensor p ends before the writer is called: with an
\* error, a panic, or a buffer of len bytes.
Buffer(len) == [tag |-> "ok", len |-> len]
Broken(tag) == [tag |-> tag, len |-> 0]

EmitQuantized(p, t) ==
  LET q == [shape |-> t.shape, words |-> Slice(t, 4)]
      s == [shape |-> model_tensors[p.scales].shape,
            elems |-> Slice(model_tensors[p.scales], 2)]
  IN  IF ScalesMismatch(q, s) THEN Broken("err")
      ELSE IF ~Converts(p.src, topo, q, s) THEN Broken("panic")
      ELSE Buffer(QuantBytes(p.src, InF(q), OutF(q)))

Gathered(perm, width, t, elem) ==
  IF GatherFits(perm, width, t) THEN Buffer(Size(perm) * width * elem) ELSE Broken("panic")

Emitted(p) ==
  LET t == model_tensors[p.tensor]
  IN  CASE p.src \in QuantKinds -> EmitQuantized(p, t)
        [] p.src = "Bf16ToF16RowPerm" -> Gathered(perm48, t.shape[2], t, 2)
        [] p.src \in {"F32NegExp", "F32PlainPerm"} -> Gathered(perm48, 1, t, 4)
        [] p.src = "F32Conv1d" -> Gathered(full_perm_qkv(topo), t.shape[3], t, 4)
        [] p.src \in {"F32Plain", "F32PlusOne"} -> Buffer((t.bytes \div 2) * 4)

\* The original V head that emission of source src puts at each position.
HeadsOf(src) ==
  [p \in Indices(topo.num_v) |->
     CASE src \in {"Bf16ToF16RowPerm", "F32NegExp", "F32PlainPerm"} -> perm48[p]
       [] src \in {"QuantVRowZ", "QuantVCol"} -> perm_v(topo)[p * topo.head_v] \div topo.head_v
       [] src \in {"QuantVRowQkv", "F32Conv1d"} ->
            (full_perm_qkv(topo)[qk_rows(topo) + p * topo.head_v] - qk_rows(topo))
              \div topo.head_v
       [] OTHER -> p]

-----------------------------------------------------------------------------
(* The names and lengths that may come of a tensor of the checkpoint.      *)

Blocks(j) ==
  {-1, j.topo.n_layer} \cup
  UNION {{b, b + j.topo.n_layer} : b \in {j.ckpt[i].name.blk : i \in DOMAIN j.ckpt}}

NewNames(blocks) == [blk : blocks, tail : Range(TopMap) \cup Range(LayerMap),
                     suf : {"", ".weight", ".bias"}]

Lengths(t) ==
  {2 * (t.bytes \div 2)}
  \cup {Product(Squeezed(src, t.shape)) * width :
           src \in {s \in {"Bf16ToF16", "F32Conv1d"} : HasDims(s, t.shape)}, width \in {2, 4}}
  \cup {QuantBytes(kind, t.shape[1] * WORD, t.shape[2]) :
           kind \in {k \in QuantKinds : Len(t.shape) >= 2}}

\* Jobs are well formed, and the writer's instance has room for what they declare.
ASSUME RemixAssumption ==
  /\ Jobs \subseteq Job /\ {0, 1} \subseteq Sizes /\ MaxKvs \in Nat /\ MaxTensors \in Nat
  /\ \A j \in Jobs :
        /\ Len(j.meta) <= MaxKvs /\ Range(j.meta) \ {"unsupported", "missing"} \subseteq Keys
        /\ 2 * Len(j.ckpt) <= MaxTensors
        /\ NewNames(Blocks(j)) \subseteq Names
        /\ \A i \in DOMAIN j.ckpt : Lengths(j.ckpt[i]) \subseteq Sizes

-----------------------------------------------------------------------------
Init == /\ WInit
        /\ pc = "open" /\ job \in Jobs
        /\ model_tensors = <<>> /\ qweight_order = <<>>
        /\ plan = <<>> /\ consumed = {} /\ at = 0 /\ heads = <<>>
        /\ disk = "old" /\ cause = "none"

\* run returns Err and drops the writer.
Fail(why) == /\ pc' = "err" /\ cause' = why
             /\ UNCHANGED <<input, plan, consumed, at, heads, disk, wvars>>

\* A failed assert, index or unwrap outside the writer.
Abort == /\ pc' = "panicked"
         /\ UNCHANGED <<input, plan, consumed, at, heads, disk, cause, wvars>>

\* Where run goes after a writer call that normally leads to next.
AfterWriter(next) ==
  /\ pc' = CASE wstate' = "panicked" -> "panicked"
             [] wstate' = "failed"   -> "err"
             [] OTHER                -> next
  /\ cause' = IF wstate' = "failed" THEN "io" ELSE cause
  /\ UNCHANGED <<input, plan, consumed>>

IoErr == pc \in {"open", "create", "kvs", "sync"} /\ Fail("io")

\* Variant: the output is created before there is a plan.
OpenTruncating ==
  /\ pc = "open"
  /\ \/ job.config = "unsupported" /\ Fail("unsupported checkpoint")
     \/ job.config = "incomplete" /\ Abort
     \/ /\ job.config = "supported"
        /\ pc' = "phaseA" /\ disk' = "partial"
        /\ model_tensors' = filtered(job.ckpt)
        /\ qweight_order' = qweights(model_tensors')
        /\ UNCHANGED <<job, plan, consumed, at, heads, cause, wvars>>

Open == /\ pc = "open"
        /\ \/ job.config = "unsupported" /\ Fail("unsupported checkpoint")
           \/ job.config = "incomplete" /\ Abort
           \/ /\ job.config = "supported"
              /\ pc' = "phaseA"
              /\ model_tensors' = filtered(job.ckpt)
              /\ qweight_order' = qweights(model_tensors')
              /\ UNCHANGED <<job, plan, consumed, at, heads, disk, cause, wvars>>

\* One more planned tensor.
Plan(p, uses) ==
  /\ plan' = Append(plan, p)
  /\ consumed' = consumed \cup uses
  /\ at' = at + 1
  /\ UNCHANGED <<pc, input, heads, disk, cause, wvars>>

PlanQuant ==
  /\ pc = "phaseA" /\ at < Len(qweight_order)
  /\ LET qi == qweight_order[at + 1]
         t  == model_tensors[qi]
         si == idx_of([t.name EXCEPT !.suf = ".scales"])
         g  == QuantName(t.name)
     IN  CASE si = 0 -> Fail("missing scales")
           [] si # 0 /\ t.dtype # "I32" -> Fail("not I32")
           [] si # 0 /\ t.dtype = "I32" /\ Len(t.shape) < 2 -> Abort
           [] si # 0 /\ t.dtype = "I32" /\ Len(t.shape) >= 2 /\ g = NoName ->
                IF Kind(t.name) = "QuantTrunk" THEN Fail("cannot map") ELSE Abort
           [] OTHER ->
                Plan([name |-> g, tensor |-> qi, scales |-> si, src |-> Kind(t.name),
                      nbytes |-> QuantBytes(Kind(t.name), t.shape[1] * WORD, t.shape[2])],
                     Companions(t.name))

\* What v_reorder_perm asserts.
HeadsDivide == topo.num_k > 0 /\ topo.num_v % topo.num_k = 0

EndPhaseA ==
  /\ pc = "phaseA" /\ at = Len(qweight_order)
  /\ \/ ~HeadsDivide /\ Abort
     \/ /\ HeadsDivide
        /\ pc' = "phaseB" /\ at' = 0
        /\ UNCHANGED <<input, plan, consumed, heads, disk, cause, wvars>>

SkipConsumed ==
  /\ pc = "phaseB" /\ at < Len(model_tensors) /\ at + 1 \in consumed
  /\ at' = at + 1
  /\ UNCHANGED <<pc, input, plan, consumed, heads, disk, cause, wvars>>

PlanStandard ==
  /\ pc = "phaseB" /\ at < Len(model_tensors) /\ at + 1 \notin consumed
  /\ LET t     == model_tensors[at + 1]
         name  == remap_mtp(t.name)
         src   == SourceOf(name, t.shape)
         shape == Squeezed(src, t.shape)
         g     == map_with_suffix(out_name(name))
     IN  IF t.dtype # "BF16" THEN Fail("not BF16")
         ELSE IF UnknownMtp(t.name) THEN Fail("unknown mtp tensor")
         ELSE IF ~HasDims(src, t.shape) THEN Abort
         ELSE IF g = NoName THEN Fail("cannot map")
         ELSE IF RoutingMismatch(src, g, shape) THEN Fail("dtype routing mismatch")
         ELSE Plan([name |-> g, tensor |-> at + 1, scales |-> 0, src |-> src,
                    nbytes |-> Product(shape) * (IF is_f32(g, shape) THEN 4 ELSE 2)], {})

\* Variant: planning is over once every tensor has a plan of its own.
EndPhaseBAllPlanned ==
  /\ pc = "phaseB" /\ Len(plan) = Len(model_tensors)
  /\ pc' = "create" /\ at' = 0
  /\ UNCHANGED <<input, plan, consumed, heads, disk, cause, wvars>>

EndPhaseB ==
  /\ pc = "phaseB" /\ at = Len(model_tensors)
  /\ pc' = "create" /\ at' = 0
  /\ UNCHANGED <<input, plan, consumed, heads, disk, cause, wvars>>

Create ==
  /\ pc = "create"
  /\ New
  /\ pc' = "kvs" /\ disk' = "partial"
  /\ UNCHANGED <<input, plan, consumed, at, heads, cause>>

\* build_kvs adds its keys one by one; a value it cannot express and an hparam
\* that is missing end the run when it comes to them.
DeclareKv ==
  /\ pc = "kvs" /\ at < Len(job.meta)
  /\ LET key == job.meta[at + 1]
     IN  \/ key = "unsupported" /\ Fail("unsupported metadata")
         \/ key = "missing" /\ Abort
         \/ /\ key \notin {"unsupported", "missing"}
            /\ AddKv(key)
            /\ AfterWriter("kvs")
            /\ at' = at + 1
            /\ UNCHANGED <<heads, disk>>

DeclareTensor ==
  /\ pc = "kvs" /\ at = Len(job.meta)
  /\ \/ /\ Len(tensors) < Len(plan)
        /\ AddTensorInfo(plan[Len(tensors) + 1].name, plan[Len(tensors) + 1].nbytes)
        /\ AfterWriter("kvs")
     \/ /\ Len(tensors) = Len(plan)
        /\ BeginHeader
        /\ AfterWriter("header")
  /\ UNCHANGED <<at, heads, disk>>

Header ==
  /\ pc = "header"
  /\ \/ EncodeInfo /\ AfterWriter("header")
     \/ \E h \in HeaderLens : EmitHeader(h) /\ AfterWriter("perm")
     \/ \E h \in HeaderLens, k \in TornAt : EmitHeaderErr(h, k) /\ AfterWriter("perm")
  /\ UNCHANGED <<at, heads, disk>>

\* assert_16_aligned_chunks, for every checkpoint and after the header.
CheckPerm ==
  /\ pc = "perm"
  /\ \/ ~aligned_chunks(perm_v(topo)) /\ Abort
     \/ /\ aligned_chunks(perm_v(topo))
        /\ pc' = "emit"
        /\ UNCHANGED <<input, plan, consumed, at, heads, disk, cause, wvars>>

EmitTensor ==
  /\ pc = "emit" /\ next_tensor < Len(plan)
  /\ plan[next_tensor + 1].src # "Bf16ToF16"
  /\ LET p == plan[next_tensor + 1]
         e == Emitted(p)
     IN  CASE e.tag = "err"   -> Fail("scales shape")
           [] e.tag = "panic" -> Abort
           [] e.tag = "ok"    ->
                /\ \/ WriteTensorData(e.len)
                   \/ \E k \in TornAt : WriteTensorDataErr(e.len, k)
                /\ AfterWriter("emit")
                /\ heads' = Append(heads, HeadsOf(p.src))
                /\ UNCHANGED <<at, disk>>

BeginStream ==
  /\ pc = "emit" /\ next_tensor < Len(plan)
  /\ plan[next_tensor + 1].src = "Bf16ToF16"
  /\ BeginTensor(2 * (model_tensors[plan[next_tensor + 1].tensor].bytes \div 2))
  /\ AfterWriter("stream")
  /\ heads' = Append(heads, HeadsOf("Bf16ToF16"))
  /\ UNCHANGED <<at, disk>>

StreamChunk ==
  /\ pc = "stream"
  /\ \/ (WriteChunk \/ \E k \in TornAt : WriteChunkErr(k)) /\ AfterWriter("stream")
     \/ (EndTensor \/ \E k \in TornAt : EndTensorErr(k)) /\ AfterWriter("emit")
  /\ UNCHANGED <<at, heads, disk>>

FinishFile ==
  /\ pc = "emit" /\ next_tensor = Len(plan)
  /\ Finish
  /\ AfterWriter("sync")
  /\ UNCHANGED <<at, heads, disk>>

Sync ==
  /\ pc = "sync"
  /\ pc' = "ok" /\ disk' = "whole"
  /\ UNCHANGED <<input, plan, consumed, at, heads, cause, wvars>>

Crash ==
  /\ pc \notin Ends
  /\ pc' = "crashed"
  /\ UNCHANGED <<input, plan, consumed, at, heads, disk, cause, wvars>>

Run == \/ Open \/ PlanQuant \/ EndPhaseA \/ SkipConsumed \/ PlanStandard \/ EndPhaseB
       \/ Create \/ DeclareKv \/ DeclareTensor \/ Header \/ CheckPerm
       \/ EmitTensor \/ BeginStream \/ StreamChunk \/ FinishFile \/ Sync

Next == Run \/ IoErr \/ Crash

Spec == Init /\ [][Next]_vars /\ WF_vars(Run)

-----------------------------------------------------------------------------
(* What a checkpoint of this family is.                                    *)

SplitSuffixes == {".qweight", ".qzeros", ".scales", ".g_idx"}

\* The projections of linear attention whose rows or columns are V heads.
VProjections == {"linear_attn.in_proj_qkv", "linear_attn.in_proj_z", "linear_attn.out_proj"}

\* The small ones among the tensors with such rows.
VGates == {"linear_attn.in_proj_a", "linear_attn.in_proj_b", "linear_attn.conv1d"}

\* The tensors of the family that have V heads along a dimension.
HasVHeads(name) ==
  \/ /\ name.tail \in VProjections \cup VGates
     /\ name.suf \in {".weight", ".qweight"}
  \/ name.tail \in {"linear_attn.A_log", DtBias} /\ name.suf = ""

VDim == topo.num_v * topo.head_v

\* The tails that a layer of trunk or MTP head has; the MTP head's other tensors
\* get theirs from MtpMap.
LayerTails == DOMAIN LayerMap \ Range(MtpMap)

RegularQuant(t) ==
  /\ t.dtype = "I32" /\ Len(t.shape) = 2 /\ t.bytes = 4 * Product(t.shape)
  /\ (t.shape[1] * WORD) % GROUP_SIZE = 0
  /\ \/ t.name.at = "layers"
     \/ t.name.at = "mtp.layers" /\ Kind(t.name) = "QuantTrunk"
  /\ t.name.tail \in LayerTails
  /\ \E i \in DOMAIN model_tensors :
        LET s == model_tensors[i]
        IN  /\ s.name = [t.name EXCEPT !.suf = ".scales"]
            /\ s.shape = <<(t.shape[1] * WORD) \div GROUP_SIZE, t.shape[2]>>
            /\ s.bytes = 2 * Product(s.shape)
  /\ CASE t.name.tail = "linear_attn.in_proj_qkv" -> t.shape[2] = qk_rows(topo) + VDim
       [] t.name.tail = "linear_attn.in_proj_z"   -> t.shape[2] = VDim
       [] t.name.tail = "linear_attn.out_proj"    -> t.shape[1] * WORD = VDim
       [] OTHER                                   -> TRUE

RegularPlain(t) ==
  /\ t.dtype = "BF16" /\ t.bytes = 2 * Product(t.shape)
  /\ \/ t.name.at = "top" /\ t.name.tail \in DOMAIN TopMap
     \/ t.name.at = "mtp" /\ t.name.tail \in DOMAIN MtpMap
     \/ t.name.at \in {"layers", "mtp.layers"} /\ t.name.tail \in LayerTails \cup {DtBias}
  /\ t.name.suf = IF t.name.tail \in {"linear_attn.A_log", DtBias} THEN "" ELSE ".weight"
  /\ LET tail == IF t.name.at = "mtp" THEN MtpMap[t.name.tail] ELSE t.name.tail
     IN  CASE tail \in {"linear_attn.in_proj_a", "linear_attn.in_proj_b"} ->
                Len(t.shape) = 2 /\ t.shape[1] = topo.num_v
           [] tail \in {"linear_attn.A_log", DtBias} -> t.shape = <<topo.num_v>>
           [] tail = "linear_attn.conv1d" ->
                /\ Len(t.shape) = 3 /\ t.shape[2] = 1
                /\ t.shape[1] = qk_rows(topo) + VDim
           [] tail \in NormTails -> Len(t.shape) = 1
           [] OTHER -> Len(t.shape) = 2

\* The module that a tensor belongs to, the parts of a quantized one being of
\* one module.
Module(name) ==
  [name EXCEPT !.suf = IF @ \in SplitSuffixes THEN ".weight" ELSE @]

Regular ==
  /\ job.config = "supported"
  /\ \A i, j \in DOMAIN job.meta :
        job.meta[i] \notin {"unsupported", "missing"} /\ (job.meta[i] = job.meta[j] => i = j)
  /\ HeadsDivide
  /\ VDim % AR_BLOCK = 0
  /\ topo.head_v % AR_BLOCK = 0 \/ topo.num_k \in {1, topo.num_v}
  /\ \A i, j \in DOMAIN model_tensors :
        LET a == model_tensors[i].name
            b == model_tensors[j].name
        IN  /\ a = b => i = j
            /\ Module(a) = Module(b) => a = b \/ {a.suf, b.suf} \subseteq SplitSuffixes
  /\ \A i \in DOMAIN model_tensors :
        LET t == model_tensors[i]
        IN  /\ t.name.at = "layers" => t.name.blk < topo.n_layer
            /\ CASE t.name.suf = ".qweight" -> RegularQuant(t)
                 [] t.name.suf \in SplitSuffixes \ {".qweight"} ->
                      idx_of([t.name EXCEPT !.suf = ".qweight"]) # 0
                 [] OTHER -> RegularPlain(t)

-----------------------------------------------------------------------------
(* Properties.                                                             *)

XTypeOK ==
  /\ TypeOK
  /\ pc \in {"open", "phaseA", "phaseB", "create", "kvs", "header", "perm", "emit",
             "stream", "sync"} \cup Ends
  /\ consumed \subseteq DOMAIN model_tensors
  /\ pc # "panicked" => Len(heads) = next_tensor
  /\ disk = "old" => wstate = "none"

\* A checkpoint of this family converts: no order of its tensors, no mixture of
\* quantized and plain ones and no topology runs into an error or an assertion.
RegularSucceeds ==
  Regular => pc # "panicked" /\ cause \in {"none", "io"}

\* Nothing is lost and nothing is written twice: in a finished file each tensor
\* of the checkpoint that is not multimodal is the data of exactly one tensor,
\* or the scales of exactly one, or was left out with a quantized one.
EachTensorOnce ==
  pc = "ok" =>
     \A i \in DOMAIN model_tensors :
        LET users == {j \in DOMAIN plan : i \in {plan[j].tensor, plan[j].scales}}
            name  == model_tensors[i].name
        IN  IF name.suf \in {".qzeros", ".g_idx"}
            THEN /\ users = {}
                 /\ \E j \in DOMAIN plan :
                       Module(model_tensors[plan[j].tensor].name) = Module(name)
            ELSE Cardinality(users) = 1

\* The layer a tensor came from.
LayerOf(name) == CASE name.at = "layers"     -> <<"model", name.blk>>
                   [] name.at = "mtp.layers" -> <<"mtp", name.blk>>
                   [] name.at = "mtp"        -> <<"mtp", 0>>
                   [] name.at = "top"        -> <<"none", 0>>

\* Both phases agree on where the layers of a regular checkpoint go: two tensors
\* are in one block of the file exactly if they were in one layer.
LayersKeptApart ==
  pc = "ok" /\ Regular =>
     \A i, j \in DOMAIN plan :
        plan[i].name.blk = plan[j].name.blk
          <=> LayerOf(model_tensors[plan[i].tensor].name)
                = LayerOf(model_tensors[plan[j].tensor].name)

\* The layers of a checkpoint are those that its config.json counts.
CountedLayers ==
  \A i \in DOMAIN model_tensors :
     LET name == model_tensors[i].name
     IN  /\ name.at = "layers" => name.blk < topo.n_layer
         /\ name.at = "mtp.layers" => name.blk < job.mtp
         /\ name.at = "mtp" => job.mtp > 0

\* The KV section, written from config.json alone, announces every block that
\* the tensors' new names put the layers of trunk and MTP head in, provided that
\* config.json counts the layers that are there: nothing compares the two.
BlocksWithinCount ==
  pc = "ok" /\ CountedLayers => \A i \in DOMAIN plan : plan[i].name.blk < block_count

\* In a finished file the V heads of a layer are in one order in every tensor
\* that has them, quantized or not.
VHeadsAgree ==
  pc = "ok" =>
     \A i, j \in DOMAIN plan :
        LET a == model_tensors[plan[i].tensor].name
            b == model_tensors[plan[j].tensor].name
        IN  HasVHeads(a) /\ HasVHeads(b) /\ LayerOf(a) = LayerOf(b)
              => heads[i] = heads[j]

\* The same of checkpoints whose large projections are quantized, and whose gates
\* and convolution are not: phase A moves no heads of those.
VHeadsAgreeIfQuantized ==
  (\A i \in DOMAIN model_tensors :
      LET name == model_tensors[i].name
      IN  /\ name.tail \in VProjections => name.suf \in SplitSuffixes
          /\ name.tail \in VGates => name.suf \notin SplitSuffixes)
  => VHeadsAgree

\* What is streamed of a slice is not measured against the shape.
Misfit(i) ==
  LET t == model_tensors[plan[i].tensor]
  IN  plan[i].src = "Bf16ToF16" /\ t.bytes \div 2 # Product(t.shape)

\* Ok means a whole file: every tensor has all the bytes its shape asks for,
\* where the header announces them, whatever the slices of the checkpoint were,
\* up to the first streamed slice that is not of its shape's length: that one
\* is torn, and those behind it may be displaced.
OkMeansWhole ==
  pc = "ok" =>
     /\ disk = "whole" /\ wstate = "finished" /\ Len(tensors) = Len(plan)
     /\ \A i \in DOMAIN plan : Intact(i) \/ \E j \in 1..i : Misfit(j)

\* No error or panic of the planning costs the file that was at the output path;
\* from then on the whole plan is known.
OldFileSpared ==
  disk # "old" =>
     /\ \A i \in DOMAIN model_tensors :
           i \in consumed \/ \E j \in DOMAIN plan : plan[j].tensor = i
     /\ cause \notin {"missing scales", "not I32", "not BF16", "cannot map",
                      "unknown mtp tensor", "dtype routing mismatch"}

\* Every run ends, whatever the checkpoint: both planning loops, the streaming of
\* a slice of any length, and every error on the way come to their end.
Terminates == <>(pc \in Ends)
=============================================================================
