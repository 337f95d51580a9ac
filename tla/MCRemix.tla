------------------------------ MODULE MCRemix ------------------------------
(***************************************************************************)
(* TLC instance of remix: small checkpoints of the family (embeddings, a   *)
(* full-attention layer, a linear-attention layer, the MTP head, each with *)
(* quantized and plain tensors), each of them also with one thing wrong at *)
(* one tensor: its type, shape or slice, a name that is unknown, taken     *)
(* twice, or missing.                                                      *)
(***************************************************************************)
EXTENDS Remix

Heads(num_k, num_v, head_k, head_v) ==
  [num_k |-> num_k, num_v |-> num_v, head_k |-> head_k, head_v |-> head_v, n_layer |-> 1]

N(where, blk, tail, suf) ==
  [at |-> where, blk |-> blk, tail |-> tail, suf |-> suf, lang |-> FALSE]

Lang(t) == [t EXCEPT !.name.lang = TRUE]

T(name, dtype, shape) ==
  [name |-> name, dtype |-> dtype, shape |-> shape,
   bytes |-> Product(shape) * (IF dtype = "I32" THEN 4 ELSE 2)]

L(tail, suf, shape) == T(N("layers", 0, tail, suf), "BF16", shape)

\* A quantized module: in inputs, a multiple of 128, and outs outputs.
Triple(where, tail, in, outs) ==
  <<T(N(where, 0, tail, ".qweight"), "I32", <<in \div 8, outs>>),
    T(N(where, 0, tail, ".qzeros"), "I32", <<in \div 128, outs \div 8>>),
    T(N(where, 0, tail, ".scales"), "F16", <<in \div 128, outs>>)>>

-----------------------------------------------------------------------------
Top == <<T(N("top", 0, "embed_tokens", ".weight"), "BF16", <<3, 4>>),
         T(N("visual", 0, "patch_embed", ".weight"), "F32", <<2>>),
         Lang(T(N("top", 0, "norm", ".weight"), "BF16", <<4>>))>>

Full == <<L("input_layernorm", ".weight", <<4>>)>>
        \o Triple("layers", "self_attn.q_proj", 128, 2)
        \o <<T(N("layers", 0, "self_attn.q_proj", ".g_idx"), "I32", <<128>>),
             Lang(L("mlp.up_proj", ".weight", <<2, 3>>))>>

Gates(topology) ==
  <<L("linear_attn.A_log", "", <<topology.num_v>>),
    L("linear_attn.conv1d", ".weight",
      <<2 * topology.num_k * topology.head_k + topology.num_v * topology.head_v, 1, 2>>),
    L(DtBias, "", <<topology.num_v>>),
    L("linear_attn.in_proj_a", ".weight", <<topology.num_v, 3>>),
    L("linear_attn.in_proj_b", ".weight", <<topology.num_v, 3>>),
    L("linear_attn.norm", ".weight", <<topology.head_v>>)>>

Projections(topology) ==
  LET v == topology.num_v * topology.head_v
  IN  Triple("layers", "linear_attn.in_proj_qkv", 128, 2 * topology.num_k * topology.head_k + v)
      \o Triple("layers", "linear_attn.in_proj_z", 128, v)
      \o Triple("layers", "linear_attn.out_proj", v, 2)

Mtp == <<T(N("mtp", 0, "fc", ".weight"), "BF16", <<2, 4>>),
         T(N("mtp.layers", 0, "input_layernorm", ".weight"), "BF16", <<4>>)>>
       \o Triple("mtp.layers", "self_attn.q_proj", 128, 2)
       \o <<T(N("mtp", 0, "norm", ".weight"), "BF16", <<2>>),
            T(N("mtp", 0, "pre_fc_norm_hidden", ".weight"), "BF16", <<4>>)>>

\* A second layer of the MTP head.
Second == <<T(N("mtp.layers", 1, "input_layernorm", ".weight"), "BF16", <<4>>)>>

Grouped == Heads(2, 8, 1, 16)
Square  == Heads(8, 8, 1, 16)
Small   == Heads(2, 4, 1, 16)

-----------------------------------------------------------------------------
(* One thing wrong at tensor i of a checkpoint.                            *)

Wrong(ckpt, i) ==
  {RemoveAt(ckpt, i),
   Append(ckpt, ckpt[i]),
   Append(ckpt, [ckpt[i] EXCEPT !.name.lang = ckpt[i].name.at = "layers" /\ ~@]),
   [ckpt EXCEPT ![i].dtype = IF @ = "BF16" THEN "F32" ELSE "BF16"],
   [ckpt EXCEPT ![i].name.tail = "unheard_of"],
   [ckpt EXCEPT ![i].name.suf = ".bias"],
   [ckpt EXCEPT ![i].name.at = "mtp.layers", ![i].name.lang = FALSE],
   [ckpt EXCEPT ![i].bytes = IF @ < 2 THEN 0 ELSE @ - 2],
   [ckpt EXCEPT ![i].bytes = @ + 2],
   [ckpt EXCEPT ![i].bytes = @ + 32],
   [ckpt EXCEPT ![i].shape = Append(@, 1)],
   [ckpt EXCEPT ![i].shape = Tail(@)],
   [ckpt EXCEPT ![i].shape = [@ EXCEPT ![1] = @ + 1]]}

Spoilt(ckpt) == UNION {Wrong(ckpt, i) : i \in DOMAIN ckpt}

Remixing(topology, meta, ckpt) ==
  [config |-> "supported", topo |-> topology, mtp |-> 1, meta |-> meta, ckpt |-> ckpt]

Meta == <<"general.architecture", "tokenizer.ggml.tokens">>

MCJobs ==
  {Remixing(Grouped, Meta, Top \o Projections(Grouped) \o Gates(Grouped) \o Mtp),
   Remixing(Square, <<>>, Projections(Square) \o Gates(Square)),
   Remixing(Small, Meta, Reverse(Top \o Full \o Mtp)),
   Remixing(Small, <<"general.architecture", "unsupported">>, Top),
   Remixing(Small, <<"general.architecture", "missing">>, Top),
   [Remixing(Small, Meta, Top \o Full) EXCEPT !.mtp = 0],
   [Remixing(Small, <<>>, Full \o Mtp \o Second) EXCEPT !.mtp = 2],
   [Remixing(Small, <<>>, Mtp) EXCEPT !.mtp = 0],
   [Remixing(Small, Meta, Top) EXCEPT !.config = "unsupported"],
   [Remixing(Small, Meta, Top) EXCEPT !.config = "incomplete"]}
  \cup {Remixing(t, Meta, Full) :
          t \in {Heads(0, 4, 1, 16), Heads(3, 4, 1, 16), Heads(2, 4, 1, 8),
                 Heads(1, 2, 1, 8), Heads(1, 1, 1, 8), Heads(2, 0, 1, 16)}}
  \cup {Remixing(Small, <<>>, c) : c \in Spoilt(Full) \cup Spoilt(Gates(Small)) \cup Spoilt(Mtp)}
  \cup {Remixing(Grouped, <<>>, c) : c \in Spoilt(Projections(Grouped))}

\* A checkpoint whose z projection was left unquantized.
PlainProjection ==
  {Remixing(Grouped, <<>>, <<L("linear_attn.in_proj_z", ".weight", <<128, 3>>)>> \o Gates(Grouped))}

AllTensors == UNION {Range(j.ckpt) : j \in MCJobs \cup PlainProjection}

MCKeys == {"general.architecture", "tokenizer.ggml.tokens"}
MCNames == [blk : -1..2, suf : {"", ".weight", ".bias"},
            tail : Range(LayerMap) \cup Range(TopMap)]
MCSizes == {0, 1} \cup UNION {Lengths(t) : t \in AllTensors}
MCHeaderLens == {31}
MCTornAt == {0, 5}
=============================================================================
