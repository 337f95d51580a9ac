----------------------------- MODULE RemixProofs -----------------------------
(***************************************************************************)
(* Proofs about remix.  The plan is the list of the quantized modules in   *)
(* the order of the checkpoint, then the tensors that these did not        *)
(* consume; it is complete before the output is created, and the output    *)
(* holds what was planned.  What remix asks of the writer is allowed by    *)
(* the writer's specification, so that GGUFWriterProofs can say where the  *)
(* bytes of a tensor land, as long as no slice of the wrong length was     *)
(* streamed.  A regular checkpoint converts: each of its tensors fits the  *)
(* route that its name takes, no two get one name, and each is emitted in  *)
(* a buffer of the length that was planned.                                *)
(***************************************************************************)
EXTENDS Remix, GGUFWriterProofs, CommonLemmas, FiniteSetTheorems

-----------------------------------------------------------------------------
(* The tensors of the checkpoint.                                          *)

\* A tensor that is kept, and that the writer's instance has room for.
Comes(t, j) ==
  /\ t \in Entry /\ t.name.at # "visual"
  /\ Lengths(t) \subseteq Sizes
  /\ {t.name.blk, t.name.blk + j.topo.n_layer} \subseteq Blocks(j)

\* What filtered keeps is of the type of the checkpoint and fits the writer.
LEMMA FilteredType ==
  ASSUME NEW j \in Jobs
  PROVE  /\ filtered(j.ckpt) \in Seq(Entry)
         /\ Len(filtered(j.ckpt)) \in Nat /\ Len(filtered(j.ckpt)) <= Len(j.ckpt)
         /\ \A i \in DOMAIN filtered(j.ckpt) : Comes(filtered(j.ckpt)[i], j)
<1> DEFINE s == j.ckpt
           K == {t \in Range(s) : Keeps(t.name)}
           kept == Only(s, K)
           ts == filtered(s)
<1>1. j \in Job /\ s \in Seq(Entry) /\ Len(s) \in Nat /\ DOMAIN s = 1..Len(s)
  <2>1. j \in Job
    BY RemixAssumption
  <2>2. s \in Seq(Entry)
    BY <2>1 DEF Job
  <2> HIDE DEF s
  <2> QED BY <2>1, <2>2, LenProperties
<1>2. ts = [i \in DOMAIN kept |-> [kept[i] EXCEPT !.name = filter_name(@)]]
  BY DEF filtered
<1> HIDE DEF s, kept, ts
<1>3. kept \in Seq(Entry \cap K) /\ Len(kept) \in 0..Len(s)
  <2> HIDE DEF K
  <2> QED BY <1>1, OnlySeq DEF kept
<1>4. Len(kept) \in Nat /\ Len(kept) <= Len(s) /\ DOMAIN kept = 1..Len(kept)
  BY <1>1, <1>3, LenProperties
<1>5. ASSUME NEW i \in DOMAIN kept
      PROVE  ts[i] \in Entry /\ Comes(ts[i], j)
  <2>1. kept[i] \in Entry \cap K
    BY <1>3, <1>4, ElementOfSeq
  <2>2. PICK n \in DOMAIN s : kept[i] = s[n]
    BY <2>1 DEF Range
  <2>3. s[n] \in Entry /\ s[n].name.at # "visual"
    BY <2>1, <2>2 DEF Keeps
  <2>4. ts[i] = [s[n] EXCEPT !.name = filter_name(@)]
    BY <1>2, <2>2
  <2>5. filter_name(s[n].name) \in Name /\ filter_name(s[n].name).at # "visual"
        /\ filter_name(s[n].name).blk = s[n].name.blk
    BY <2>3 DEF filter_name, Entry, Name
  <2>6. /\ ts[i] \in Entry /\ ts[i].name = filter_name(s[n].name)
        /\ ts[i].shape = s[n].shape /\ ts[i].bytes = s[n].bytes
    BY <2>3, <2>4, <2>5 DEF Entry
  <2>7. Lengths(ts[i]) = Lengths(s[n])
    BY <2>6 DEF Lengths
  <2>8. Lengths(s[n]) \subseteq Sizes
    BY <2>2, RemixAssumption DEF s
  <2>9. {s[n].name.blk, s[n].name.blk + j.topo.n_layer} \subseteq Blocks(j)
    BY <2>2 DEF Blocks, s
  <2> QED BY <2>5, <2>6, <2>7, <2>8, <2>9 DEF Comes
<1>6. ts \in [1..Len(kept) -> Entry]
  BY <1>2, <1>4, <1>5
<1>7. ts \in Seq(Entry) /\ Len(ts) = Len(kept) /\ DOMAIN ts = 1..Len(kept)
  BY <1>4, <1>6, FunctionIsSeq
<1> QED BY <1>4, <1>5, <1>7 DEF ts, s

\* The loop of phase A meets each .qweight once, and nothing else.
LEMMA QweightsType ==
  ASSUME NEW ts \in Seq(Entry), NEW q, q = qweights(ts)
  PROVE  /\ q \in Seq(DOMAIN ts) /\ Len(q) \in Nat /\ Len(q) <= Len(ts)
         /\ \A k \in DOMAIN q : q[k] \in DOMAIN ts /\ ts[q[k]].name.suf = ".qweight"
         /\ \A k, l \in DOMAIN q : q[k] = q[l] => k = l
         /\ \A i \in DOMAIN ts : ts[i].name.suf = ".qweight" => \E k \in DOMAIN q : q[k] = i
<1> DEFINE s == [i \in DOMAIN ts |-> i]
           D == DOMAIN ts
           K == {i \in D : ts[i].name.suf = ".qweight"}
           upTo == OnlyUpTo(s, K)
<1>1. Len(ts) \in Nat /\ D = 1..Len(ts)
  BY LenProperties
<1>2. s \in Seq(D) /\ Len(s) = Len(ts)
  BY <1>1, FunctionIsSeq
<1>3. q = Only(s, K) /\ q = upTo[Len(s)]
  BY DEF qweights, Only
<1>4. \A i \in D : s[i] = i
  OBVIOUS
<1> HIDE DEF s, D, upTo
<1>5. q \in Seq(D \cap K) /\ Len(q) \in 0..Len(ts)
  <2> HIDE DEF K
  <2>1. Only(s, K) \in Seq(D \cap K) /\ Len(Only(s, K)) \in 0..Len(s)
    BY <1>2, OnlySeq
  <2> QED BY <1>2, <1>3, <2>1
<1>6. Len(q) \in Nat /\ Len(q) <= Len(ts) /\ DOMAIN q = 1..Len(q)
      /\ \A k \in DOMAIN q : q[k] \in D \cap K
  BY <1>1, <1>5, LenProperties, ElementOfSeq
<1>7. q \in Seq(D)
  <2>1. q \in [1..Len(q) -> D]
    BY <1>6, <1>5, LenProperties
  <2> QED BY <1>6, <2>1, FunctionIsSeq
<1>8. ASSUME NEW k \in DOMAIN q
      PROVE  q[k] \in 1..Len(s) /\ Len(upTo[q[k]]) = k
  <2>1. Len(s) \in 0..Len(s) /\ k \in 1..Len(OnlyUpTo(s, K)[Len(s)])
    <3>1. k \in 1..Len(q) /\ q = OnlyUpTo(s, K)[Len(s)]
      BY <1>3, <1>6, Zenon DEF upTo
    <3>2. Len(s) \in 0..Len(s)
      BY <1>1, <1>2
    <3> HIDE DEF K
    <3> QED BY <3>1, <3>2
  <2> HIDE DEF K
  <2>2. PICK i \in 1..Len(s) : /\ s[i] \in K /\ Len(OnlyUpTo(s, K)[i]) = k
                               /\ OnlyUpTo(s, K)[Len(s)][k] = s[i]
    <3>1. ComesFrom(s, K, Len(s))
      BY <1>2, <2>1, OnlyFrom
    <3> QED BY <2>1, <3>1, Zenon DEF ComesFrom
  <2>3. s[i] = i
    BY <1>1, <1>2, <1>4
  <2>4. q[k] = i
    BY <1>3, <2>2, <2>3 DEF upTo
  <2> QED BY <2>2, <2>4 DEF upTo
<1>9. ASSUME NEW i \in D, ts[i].name.suf = ".qweight"
      PROVE  \E k \in DOMAIN q : q[k] = i
  <2>1. i \in 1..Len(s) /\ s[i] \in K /\ s[i] = i
    BY <1>1, <1>2, <1>4, <1>9
  <2> HIDE DEF K
  <2>2. /\ Len(OnlyUpTo(s, K)[i]) \in 1..Len(Only(s, K))
        /\ Only(s, K)[Len(OnlyUpTo(s, K)[i])] = s[i]
    BY <1>2, <2>1, OnlyPlace
  <2> QED BY <1>3, <1>6, <2>1, <2>2
<1> QED BY <1>6, <1>7, <1>8, <1>9 DEF D

\* The input as run sees it: nothing before it is opened, and then the tensors
\* that are kept.
Inputs ==
  /\ job \in Jobs
  /\ \/ model_tensors = <<>> /\ qweight_order = <<>>
     \/ model_tensors = filtered(job.ckpt) /\ qweight_order = qweights(model_tensors)

\* The types of what is read.
LEMMA InputTypes ==
  ASSUME Inputs
  PROVE  /\ job \in Job
         /\ model_tensors \in Seq(Entry) /\ Len(model_tensors) \in Nat
         /\ DOMAIN model_tensors = 1..Len(model_tensors)
         /\ 2 * Len(model_tensors) <= MaxTensors
         /\ \A i \in DOMAIN model_tensors : Comes(model_tensors[i], job)
         /\ Len(qweight_order) \in Nat /\ DOMAIN qweight_order = 1..Len(qweight_order)
         /\ Len(qweight_order) <= Len(model_tensors)
         /\ \A k \in DOMAIN qweight_order :
              /\ qweight_order[k] \in DOMAIN model_tensors
              /\ model_tensors[qweight_order[k]].name.suf = ".qweight"
         /\ \A k, l \in DOMAIN qweight_order : qweight_order[k] = qweight_order[l] => k = l
         /\ \A i \in DOMAIN model_tensors :
              model_tensors[i].name.suf = ".qweight"
                => \E k \in DOMAIN qweight_order : qweight_order[k] = i
<1> DEFINE ts == model_tensors
           q == qweight_order
<1>1. job \in Job /\ job.ckpt \in Seq(Entry) /\ Len(job.ckpt) \in Nat
      /\ 2 * Len(job.ckpt) <= MaxTensors /\ MaxTensors \in Nat
  BY RemixAssumption, LenProperties DEF Inputs, Job
<1>2. CASE ts = <<>> /\ q = <<>>
  <2>1. Len(ts) = 0 /\ Len(q) = 0 /\ DOMAIN ts = {} /\ DOMAIN q = {} /\ ts \in Seq(Entry)
        /\ 1..0 = {}
    BY <1>2, EmptySeq
  <2> QED BY <1>1, <2>1
<1>3. CASE ts = filtered(job.ckpt) /\ q = qweights(ts)
  <2>1. /\ ts \in Seq(Entry) /\ Len(ts) \in Nat /\ Len(ts) <= Len(job.ckpt)
        /\ \A i \in DOMAIN ts : Comes(ts[i], job)
    BY <1>3, FilteredType DEF Inputs
  <2>2. 2 * Len(ts) <= MaxTensors
    BY <1>1, <2>1
  <2> HIDE DEF ts, q
  <2>3. /\ q \in Seq(DOMAIN ts) /\ Len(q) \in Nat /\ Len(q) <= Len(ts)
        /\ \A k \in DOMAIN q : q[k] \in DOMAIN ts /\ ts[q[k]].name.suf = ".qweight"
        /\ \A k, l \in DOMAIN q : q[k] = q[l] => k = l
        /\ \A i \in DOMAIN ts : ts[i].name.suf = ".qweight" => \E k \in DOMAIN q : q[k] = i
    BY <1>3, <2>1, QweightsType
  <2>4. DOMAIN ts = 1..Len(ts) /\ DOMAIN q = 1..Len(q)
    BY <2>1, <2>3, LenProperties
  <2> QED BY <1>1, <2>1, <2>2, <2>3, <2>4 DEF ts, q
<1> QED BY <1>2, <1>3 DEF Inputs

-----------------------------------------------------------------------------
(* Names: what is planned is named in the blocks of the file, by the layer   *)
(* the tensor came from.                                                   *)

\* Strings, among them those that names are made of here, for provers that know
\* no string to be in STRING.
Text == STRING \cup {".weight", ".bias", "linear_attn.dt_proj"}
        \cup {"eh_proj", "enorm", "hnorm", "shared_head.norm"}

Named == [at : {"layers", "top", "mtp", "mtp.layers", "visual"}, blk : Nat,
          tail : Text, suf : Text, lang : BOOLEAN]

\* The names of a checkpoint are among those that remix makes of them.
LEMMA NameNamed == Name \subseteq Named
BY DEF Name, Named, Text

\* The block that a tensor ends up in.
BlockOf(name) == IF name.at = "layers" THEN name.blk
                 ELSE IF name.at = "mtp.layers" THEN name.blk + topo.n_layer
                 ELSE IF name.at = "mtp" THEN topo.n_layer
                 ELSE -1

\* The type of a name of the output.
LEMMA NameOf ==
  ASSUME NEW B, NEW T, NEW b \in B, NEW t \in T, NEW s \in {"", ".weight", ".bias"}
  PROVE  [blk |-> b, tail |-> t, suf |-> s] \in [blk : B, tail : T, suf : {"", ".weight", ".bias"}]
OBVIOUS

\* A name that is in the map has one of the suffixes that are kept.
LEMMA MapsTo ==
  ASSUME NEW name \in Named, NEW g, g = map_with_suffix(name), g # NoName
  PROVE  /\ name.suf \in {".weight", ".bias", ""}
         /\ name.at \in {"top", "layers"}
         /\ g.blk = IF name.at = "layers" THEN name.blk ELSE -1
         /\ g.tail = IF name.at = "layers" THEN LayerMap[name.tail] ELSE TopMap[name.tail]
         /\ g.suf = name.suf
         /\ g \in [blk : {-1, name.blk}, tail : Range(TopMap) \cup Range(LayerMap),
                   suf : {"", ".weight", ".bias"}]
<1>1. name.suf \in {".weight", ".bias", ""}
  BY DEF map_with_suffix
<1>2. CASE name.at = "top" /\ name.tail \in DOMAIN TopMap
  <2>1. g = [blk |-> -1, tail |-> TopMap[name.tail], suf |-> name.suf]
    BY <1>1, <1>2 DEF map_with_suffix
  <2>2. TopMap[name.tail] \in Range(TopMap)
    BY <1>2 DEF Range
  <2>3. g.blk = -1 /\ g.tail = TopMap[name.tail] /\ g.suf = name.suf
    BY <2>1
  <2>4. g \in [blk : {-1, name.blk}, tail : Range(TopMap) \cup Range(LayerMap),
              suf : {"", ".weight", ".bias"}]
    <3> DEFINE b == -1
               t == TopMap[name.tail]
               T == Range(TopMap) \cup Range(LayerMap)
               B == {-1, name.blk}
    <3>1. b \in B /\ t \in T /\ g = [blk |-> b, tail |-> t, suf |-> name.suf]
      BY <2>1, <2>2, Zenon
    <3> HIDE DEF b, t, T, B
    <3>2. b \in B /\ t \in T /\ name.suf \in {"", ".weight", ".bias"}
      BY <1>1, <3>1
    <3>3. [blk |-> b, tail |-> t, suf |-> name.suf]
             \in [blk : B, tail : T, suf : {"", ".weight", ".bias"}]
      BY <3>2, NameOf, Zenon
    <3>4. g \in [blk : B, tail : T, suf : {"", ".weight", ".bias"}]
      BY <3>1, <3>3, Zenon
    <3> QED BY <3>4, Zenon DEF T, B
  <2> HIDE DEF TopMap, LayerMap
  <2> QED BY <1>1, <1>2, <2>3, <2>4
<1>3. CASE name.at = "layers" /\ name.tail \in DOMAIN LayerMap
  <2>1. g = [blk |-> name.blk, tail |-> LayerMap[name.tail], suf |-> name.suf]
    BY <1>1, <1>3 DEF map_with_suffix
  <2>2. LayerMap[name.tail] \in Range(LayerMap)
    BY <1>3 DEF Range
  <2>3. g.blk = name.blk /\ g.tail = LayerMap[name.tail] /\ g.suf = name.suf
    BY <2>1
  <2>4. g \in [blk : {-1, name.blk}, tail : Range(TopMap) \cup Range(LayerMap),
              suf : {"", ".weight", ".bias"}]
    <3> DEFINE b == name.blk
               t == LayerMap[name.tail]
               T == Range(TopMap) \cup Range(LayerMap)
               B == {-1, name.blk}
    <3>1. b \in B /\ t \in T /\ g = [blk |-> b, tail |-> t, suf |-> name.suf]
      BY <2>1, <2>2, Zenon
    <3> HIDE DEF b, t, T, B
    <3>2. b \in B /\ t \in T /\ name.suf \in {"", ".weight", ".bias"}
      BY <1>1, <3>1
    <3>3. [blk |-> b, tail |-> t, suf |-> name.suf]
             \in [blk : B, tail : T, suf : {"", ".weight", ".bias"}]
      BY <3>2, NameOf, Zenon
    <3>4. g \in [blk : B, tail : T, suf : {"", ".weight", ".bias"}]
      BY <3>1, <3>3, Zenon
    <3> QED BY <3>4, Zenon DEF T, B
  <2> QED BY <1>1, <1>3, <2>3, <2>4
<1> QED BY <1>1, <1>2, <1>3 DEF map_with_suffix

\* plan_standard's renaming moves the MTP head's tensors into layers, and
\* touches no suffix.
LEMMA Renamed ==
  ASSUME job \in Job, NEW name \in Named, name.at # "visual", ~UnknownMtp(name),
         NEW r, r = remap_mtp(name)
  PROVE  /\ r \in Named /\ r.suf = name.suf
         /\ name.at \in {"layers", "top"} => r = name
         /\ name.at # "mtp" => r.tail = name.tail
         /\ name.at = "mtp" => r.at = "layers" /\ name.tail \in DOMAIN MtpMap
                               /\ r.tail = MtpMap[name.tail]
         /\ r.at = IF name.at = "top" THEN "top" ELSE "layers"
         /\ r.at = "layers" => r.blk = BlockOf(name)
<1>1. topo.n_layer \in Nat
  BY DEF topo, Job, Topology
<1>2. CASE name.at = "mtp"
  <2>1. name.tail \in DOMAIN MtpMap /\ MtpMap[name.tail] \in Text
    <3>1. name.tail \in DOMAIN MtpMap
      BY <1>2 DEF UnknownMtp
    <3>2. \A t \in DOMAIN MtpMap : MtpMap[t] \in Text
      BY DEF MtpMap, Text
    <3> QED BY <3>1, <3>2, Zenon
  <2>2. r = [name EXCEPT !.at = "layers", !.blk = topo.n_layer, !.tail = MtpMap[@]]
    BY <1>2 DEF remap_mtp
  <2> HIDE DEF MtpMap
  <2> QED BY <1>1, <1>2, <2>1, <2>2 DEF Named, Text, BlockOf
<1>3. CASE name.at = "mtp.layers"
  <2>1. r = [name EXCEPT !.at = "layers", !.blk = name.blk + topo.n_layer]
    BY <1>3 DEF remap_mtp
  <2>2. /\ r \in Named /\ r.at = "layers" /\ r.blk = name.blk + topo.n_layer
        /\ r.tail = name.tail /\ r.suf = name.suf
    <3>1. PICK n \in Nat : n = name.blk + topo.n_layer
      BY <1>1 DEF Named
    <3>2. r = [name EXCEPT !.at = "layers", !.blk = n]
      BY <2>1, <3>1, Zenon
    <3> QED BY <3>1, <3>2 DEF Named
  <2> QED BY <1>3, <2>2 DEF BlockOf
<1>4. CASE name.at \in {"layers", "top"}
  <2>1. r = name
    BY <1>4 DEF remap_mtp
  <2> QED BY <1>1, <1>4, <2>1 DEF Named, Text, BlockOf
<1> QED BY <1>2, <1>3, <1>4 DEF Named, Text

\* So does dt_bias, which has no suffix to lose.
LEMMA OutNamed ==
  ASSUME NEW name \in Named, NEW o, o = out_name(name)
  PROVE  /\ o \in Named /\ o.at = name.at /\ o.blk = name.blk
         /\ name.suf # "" => o = name
         /\ o.suf \in {name.suf, ".bias"}
<1>1. CASE name.tail = DtBias /\ name.suf = ""
  <2>1. o = [name EXCEPT !.tail = "linear_attn.dt_proj", !.suf = ".bias"]
    BY <1>1 DEF out_name
  <2> QED BY <1>1, <2>1 DEF Named, Text
<1>2. CASE ~(name.tail = DtBias /\ name.suf = "")
  BY <1>2 DEF out_name
<1> QED BY <1>1, <1>2

-----------------------------------------------------------------------------
(* What the two phases plan of a tensor.                                   *)

PlainSources == {"Bf16ToF16RowPerm", "F32NegExp", "F32PlainPerm", "F32Conv1d", "F32PlusOne",
                 "F32Plain", "Bf16ToF16"}

Planned == [name : Names, tensor : Nat, scales : Nat, src : QuantKinds \cup PlainSources,
            nbytes : Sizes]

\* Phase A's plan of tensor i.
QuantEntry(p, i) ==
  LET t == model_tensors[i]
  IN  /\ Len(t.shape) >= 2 /\ t.dtype = "I32"
      /\ p.tensor = i
      /\ p.name = QuantName(t.name) /\ p.name # NoName
      /\ p.scales = idx_of([t.name EXCEPT !.suf = ".scales"]) /\ p.scales # 0
      /\ p.src = Kind(t.name)
      /\ p.nbytes = QuantBytes(Kind(t.name), t.shape[1] * WORD, t.shape[2])

\* Phase B's.
PlainEntry(p, i) ==
  LET t     == model_tensors[i]
      name  == remap_mtp(t.name)
      shape == Squeezed(p.src, t.shape)
  IN  /\ t.dtype = "BF16" /\ ~UnknownMtp(t.name)
      /\ p.tensor = i /\ p.scales = 0
      /\ p.name = map_with_suffix(out_name(name)) /\ p.name # NoName
      /\ p.src = SourceOf(name, t.shape) /\ HasDims(p.src, t.shape)
      /\ ~RoutingMismatch(p.src, p.name, shape)
      /\ p.nbytes = Product(shape) * (IF is_f32(p.name, shape) THEN 4 ELSE 2)

\* A name of the map is one that the writer's instance knows, if its block is.
LEMMA KnownName ==
  ASSUME job \in Jobs, NEW name \in Named, NEW g, g = map_with_suffix(name), g # NoName,
         name.at = "layers" => name.blk \in Blocks(job)
  PROVE  g \in Names
<1>1. g \in [blk : Blocks(job), tail : Range(TopMap) \cup Range(LayerMap),
             suf : {"", ".weight", ".bias"}]
  <2>1. -1 \in Blocks(job)
    BY DEF Blocks
  <2>2. /\ g.blk = IF name.at = "layers" THEN name.blk ELSE -1
        /\ g \in [blk : {-1, name.blk}, tail : Range(TopMap) \cup Range(LayerMap),
                  suf : {"", ".weight", ".bias"}]
    BY MapsTo
  <2> QED BY <2>1, <2>2
<1> QED BY <1>1, RemixAssumption DEF NewNames

\* Every plain tensor has one of the plain sources.
LEMMA SourceType ==
  ASSUME NEW name, NEW shape
  PROVE  SourceOf(name, shape) \in PlainSources
BY DEF SourceOf, PlainSources

\* Every module has one of the quantized sources.
LEMMA KindType ==
  ASSUME NEW name
  PROVE  Kind(name) \in QuantKinds
BY DEF Kind, QuantKinds

\* Phase A's plan is well formed: its name is in the block of the tensor's layer.
LEMMA QuantEntryType ==
  ASSUME Inputs, NEW i \in DOMAIN model_tensors, NEW p, QuantEntry(p, i)
  PROVE  /\ p.name \in Names /\ p.tensor \in Nat /\ p.src \in QuantKinds /\ p.nbytes \in Sizes
         /\ p.name.blk = BlockOf(model_tensors[i].name)
<1> DEFINE t == model_tensors[i]
           weight == [t.name EXCEPT !.suf = ".weight"]
           r == IF Kind(t.name) = "QuantTrunk" THEN remap_mtp_layers(weight) ELSE weight
<1>1. t \in Entry /\ t.name \in Named /\ t.name.at # "visual" /\ Lengths(t) \subseteq Sizes
      /\ {t.name.blk, t.name.blk + topo.n_layer} \subseteq Blocks(job)
      /\ topo.n_layer \in Nat /\ i \in Nat
  BY InputTypes, NameNamed, SMTT(30) DEF Comes, Entry, topo, Job, Topology
<1>2. /\ r \in Named /\ r.suf = ".weight"
      /\ r.at = "layers" => r.blk = BlockOf(t.name) /\ t.name.at \in {"layers", "mtp.layers"}
      /\ r.at # "layers" => r.at = t.name.at
  <2>1. weight \in Named /\ weight.suf = ".weight" /\ weight.at = t.name.at
        /\ weight.blk = t.name.blk
    BY <1>1 DEF Named, Text
  <2>2. remap_mtp_layers(weight) = IF weight.at = "mtp.layers"
           THEN [weight EXCEPT !.at = "layers", !.blk = weight.blk + topo.n_layer]
           ELSE weight
    BY DEF remap_mtp_layers
  <2> HIDE DEF weight, t
  <2>3. CASE r = weight
    BY <2>1, <2>3 DEF BlockOf
  <2>4. CASE r = remap_mtp_layers(weight) /\ weight.at = "mtp.layers"
    <3>1. r = [weight EXCEPT !.at = "layers", !.blk = weight.blk + topo.n_layer]
      BY <2>2, <2>4
    <3>2. r \in Named /\ r.at = "layers" /\ r.blk = weight.blk + topo.n_layer
          /\ r.suf = weight.suf
      <4>1. PICK n \in Nat : n = weight.blk + topo.n_layer
        BY <1>1, <2>1 DEF Named
      <4>2. r = [weight EXCEPT !.at = "layers", !.blk = n]
        BY <3>1, <4>1, Zenon
      <4> QED BY <2>1, <4>1, <4>2 DEF Named
    <3> QED BY <2>1, <2>4, <3>2 DEF BlockOf
  <2> QED BY <2>2, <2>3, <2>4
<1>3. p.name = map_with_suffix(r) /\ p.name # NoName
  BY DEF QuantEntry, QuantName
<1>4. p.nbytes \in Lengths(t)
  <2>1. p.nbytes = QuantBytes(Kind(t.name), t.shape[1] * WORD, t.shape[2])
        /\ Len(t.shape) >= 2
    BY DEF QuantEntry
  <2>2. Kind(t.name) \in {k \in QuantKinds : Len(t.shape) >= 2}
    BY <2>1, KindType
  <2> QED BY <2>1, <2>2 DEF Lengths
<1>5. p.tensor = i /\ p.src \in QuantKinds
  BY KindType DEF QuantEntry
<1> HIDE DEF r, t
<1>6. /\ r.at \in {"top", "layers"}
      /\ p.name.blk = IF r.at = "layers" THEN r.blk ELSE -1
  BY <1>2, <1>3, MapsTo
<1>7. p.name.blk = BlockOf(t.name)
  BY <1>2, <1>6 DEF BlockOf
<1>8. p.name \in Names
  <2>1. r.at = "layers" => r.blk \in Blocks(job)
    BY <1>1, <1>2 DEF BlockOf
  <2> QED BY <1>2, <1>3, <2>1, KnownName DEF Inputs
<1> QED BY <1>1, <1>4, <1>5, <1>7, <1>8 DEF t

\* So is phase B's, and no part of a quantized module gets one.
LEMMA PlainEntryType ==
  ASSUME Inputs, NEW i \in DOMAIN model_tensors, NEW p, PlainEntry(p, i)
  PROVE  /\ p.name \in Names /\ p.tensor \in Nat /\ p.src \in PlainSources /\ p.nbytes \in Sizes
         /\ p.name.blk = BlockOf(model_tensors[i].name)
         /\ model_tensors[i].name.suf \in {".weight", ".bias", ""}
<1> DEFINE t == model_tensors[i]
           r == remap_mtp(t.name)
           o == out_name(r)
<1>1. t \in Entry /\ t.name \in Named /\ t.name.at # "visual" /\ Lengths(t) \subseteq Sizes
      /\ {t.name.blk, t.name.blk + topo.n_layer} \subseteq Blocks(job)
      /\ topo.n_layer \in Nat /\ i \in Nat /\ job \in Job
  BY InputTypes, NameNamed, SMTT(30) DEF Comes, Entry, topo, Job, Topology
<1>2. /\ p.name = map_with_suffix(o) /\ p.name # NoName /\ ~UnknownMtp(t.name)
      /\ p.src = SourceOf(r, t.shape) /\ HasDims(p.src, t.shape)
      /\ p.nbytes = Product(Squeezed(p.src, t.shape))
                      * (IF is_f32(p.name, Squeezed(p.src, t.shape)) THEN 4 ELSE 2)
      /\ p.tensor = i
  BY DEF PlainEntry
<1>3. p.nbytes \in Lengths(t)
  <2> DEFINE S == {s \in {"Bf16ToF16", "F32Conv1d"} : HasDims(s, t.shape)}
             s == IF p.src = "F32Conv1d" THEN p.src ELSE "Bf16ToF16"
             w == IF is_f32(p.name, Squeezed(p.src, t.shape)) THEN 4 ELSE 2
  <2>1. s \in S /\ w \in {2, 4}
    BY <1>2 DEF HasDims
  <2>2. Squeezed(p.src, t.shape) = Squeezed(s, t.shape)
    BY DEF Squeezed
  <2>3. p.nbytes = Product(Squeezed(s, t.shape)) * w
    BY <1>2, <2>2
  <2>4. p.nbytes \in {Product(Squeezed(x, t.shape)) * width : x \in S, width \in {2, 4}}
    <3> HIDE DEF S, s, w
    <3> QED BY <2>1, <2>3
  <2> QED BY <2>4 DEF Lengths
<1> HIDE DEF t, r, o
<1>4. /\ r \in Named /\ r.suf = t.name.suf
      /\ r.at = IF t.name.at = "top" THEN "top" ELSE "layers"
      /\ r.at = "layers" => r.blk = BlockOf(t.name)
  BY <1>1, <1>2, Renamed DEF r
<1>5. o \in Named /\ o.at = r.at /\ o.blk = r.blk /\ (r.suf # "" => o = r)
  BY <1>4, OutNamed DEF o
<1>6. /\ o.suf \in {".weight", ".bias", ""}
      /\ p.name.blk = IF o.at = "layers" THEN o.blk ELSE -1
  BY <1>2, <1>5, MapsTo
<1>7. t.name.suf \in {".weight", ".bias", ""}
  BY <1>4, <1>5, <1>6
<1>8. p.name.blk = BlockOf(t.name)
  BY <1>1, <1>4, <1>5, <1>6 DEF BlockOf
<1>9. p.name \in Names
  <2>1. o.at = "layers" => o.blk \in Blocks(job)
    <3>1. topo.n_layer \in Blocks(job)
      BY DEF Blocks, topo
    <3> QED BY <1>1, <1>4, <1>5, <3>1 DEF BlockOf, Named
  <2> QED BY <1>2, <1>5, <2>1, KnownName DEF Inputs
<1>10. p.src \in PlainSources
  BY <1>2, SourceType
<1> QED BY <1>1, <1>2, <1>3, <1>7, <1>8, <1>9, <1>10 DEF t


-----------------------------------------------------------------------------
(* The plan grows in the order of the checkpoint: first one entry per         *)
(* quantized module, then one per tensor that these left over.             *)

Quants == Len(qweight_order)

\* What the first n modules of phase A consume.
Taken(n) == UNION {Companions(model_tensors[qweight_order[k]].name) : k \in 1..n}

PlanInv ==
  /\ plan \in Seq(Planned)
  /\ consumed \subseteq DOMAIN model_tensors
  /\ \A k \in DOMAIN plan :
        IF k <= Quants THEN QuantEntry(plan[k], qweight_order[k])
        ELSE /\ plan[k].tensor \in DOMAIN model_tensors \ consumed
             /\ PlainEntry(plan[k], plan[k].tensor)
  /\ \A k, l \in DOMAIN plan : Quants < k /\ k < l => plan[k].tensor < plan[l].tensor
  /\ Len(plan) <= 2 * Len(model_tensors)

\* Once there is an output, the plan covers the checkpoint.
Writing == {"create", "kvs", "header", "perm", "emit", "stream", "sync"}

\* The first n tensors of the checkpoint are consumed or planned.
Covered(n) == \A i \in 1..n : i \in consumed \/ \E k \in DOMAIN plan : plan[k].tensor = i

\* The plan, once phase A and the assertion after it are over.
Whole == /\ Quants <= Len(plan) /\ consumed = Taken(Quants)
         /\ Covered(Len(model_tensors)) /\ HeadsDivide

Progress ==
  /\ at \in Nat
  /\ pc \in {"open", "phaseA"} => Len(plan) = at /\ at <= Quants /\ consumed = Taken(at)
  /\ pc = "open" => at = 0
  /\ pc \in {"open", "phaseA", "phaseB", "create"} => disk = "old"
  /\ pc = "phaseB" => /\ Quants <= Len(plan) /\ Len(plan) <= Quants + at
                      /\ at <= Len(model_tensors) /\ HeadsDivide
                      /\ consumed = Taken(Quants) /\ Covered(at)
                      /\ \A k \in DOMAIN plan : k > Quants => plan[k].tensor <= at
  /\ pc \in Writing \/ pc = "ok" \/ disk # "old" => Whole


\* idx_of finds a tensor of the name if there is one.
LEMMA IdxOf ==
  ASSUME Inputs, NEW name
  PROVE  /\ idx_of(name) \in DOMAIN model_tensors \cup {0}
         /\ idx_of(name) # 0 => model_tensors[idx_of(name)].name = name
         /\ \A i \in DOMAIN model_tensors : model_tensors[i].name = name => idx_of(name) # 0
<1> DEFINE found == {i \in DOMAIN model_tensors : model_tensors[i].name = name}
<1>1. found \in SUBSET Nat /\ 0 \notin found
  BY InputTypes
<1>2. CASE found = {}
  <2>1. idx_of(name) = 0
    BY <1>2 DEF idx_of
  <2> QED BY <1>2, <2>1
<1>3. CASE found # {}
  <2>1. idx_of(name) = CHOOSE i \in found : \A j \in found : i <= j
    BY <1>3 DEF idx_of
  <2>2. \E i \in found : \A j \in found : i <= j
    <3> HIDE DEF found
    <3> QED BY <1>1, <1>3, LeastExists
  <2>3. idx_of(name) \in found
    <3> HIDE DEF found
    <3> QED BY <2>1, <2>2
  <2>4. idx_of(name) # 0
    <3> HIDE DEF found
    <3> QED BY <1>1, <2>3
  <2> QED BY <2>3, <2>4
<1> QED BY <1>2, <1>3

\* A run that gives up leaves everything but its own state as it was.
GivesUp == /\ pc' \in {"err", "panicked"} /\ (pc' = "panicked" => cause' = cause)
           /\ UNCHANGED <<input, plan, consumed, at, heads, disk, wvars>>

\* An error and an assertion end the run and touch nothing else.
LEMMA FailGivesUp ==
  /\ \A why : Fail(why) => GivesUp
  /\ Abort => GivesUp
BY DEF Fail, Abort, GivesUp

\* A module of phase A gets its plan, or the run ends.
LEMMA PlanQuantCases ==
  ASSUME Inputs, at \in Nat, PlanQuant, NEW qi, qi = qweight_order[at + 1]
  PROVE  /\ pc = "phaseA" /\ at < Quants /\ qi \in DOMAIN model_tensors
         /\ \/ GivesUp
            \/ \E p \in Planned : /\ Plan(p, Companions(model_tensors[qi].name))
                                  /\ QuantEntry(p, qi)
<1> DEFINE t  == model_tensors[qi]
           si == idx_of([t.name EXCEPT !.suf = ".scales"])
           g  == QuantName(t.name)
           p  == [name |-> g, tensor |-> qi, scales |-> si, src |-> Kind(t.name),
                  nbytes |-> QuantBytes(Kind(t.name), t.shape[1] * WORD, t.shape[2])]
           c1 == si = 0
           c2 == si # 0 /\ t.dtype # "I32"
           c3 == si # 0 /\ t.dtype = "I32" /\ Len(t.shape) < 2
           c4 == si # 0 /\ t.dtype = "I32" /\ Len(t.shape) >= 2 /\ g = NoName
           uses == Companions(t.name)
<1>1. pc = "phaseA" /\ at < Quants
  BY DEF PlanQuant, Quants
<1>2. qi \in DOMAIN model_tensors
  BY <1>1, InputTypes DEF Quants
<1>3. (CASE c1 -> Fail("missing scales")
         [] c2 -> Fail("not I32")
         [] c3 -> Abort
         [] c4 -> IF Kind(t.name) = "QuantTrunk" THEN Fail("cannot map") ELSE Abort
         [] OTHER -> Plan(p, uses))
  BY Zenon DEF PlanQuant
<1>4. t \in Entry /\ Len(t.shape) \in Nat
  BY <1>2, InputTypes, LenProperties DEF Comes, Entry
<1>5. CASE c1 \/ c2 \/ c3 \/ c4
  <2>1. (\E why : Fail(why)) \/ Abort
    <3> HIDE DEF c1, c2, c3, c4
    <3> QED BY <1>3, <1>5
  <2> QED BY <1>1, <1>2, <2>1, FailGivesUp
<1>6. CASE ~c1 /\ ~c2 /\ ~c3 /\ ~c4
  <2>1. Plan(p, uses)
    <3> HIDE DEF c1, c2, c3, c4, p, uses
    <3> QED BY <1>3, <1>6
  <2>2. QuantEntry(p, qi)
    BY <1>4, <1>6 DEF QuantEntry
  <2>3. si \in Nat
    <3>1. si \in DOMAIN model_tensors \cup {0}
      BY IdxOf
    <3> QED BY <3>1, InputTypes
  <2>4. p \in Planned
    <3>1. g \in Names /\ qi \in Nat /\ Kind(t.name) \in QuantKinds
          /\ QuantBytes(Kind(t.name), t.shape[1] * WORD, t.shape[2]) \in Sizes
      BY <1>2, <2>2, QuantEntryType
    <3> HIDE DEF t, si, g
    <3> QED BY <2>3, <3>1 DEF Planned
  <2> QED BY <1>1, <1>2, <2>1, <2>2, <2>4
<1> QED BY <1>5, <1>6

\* A tensor of phase B gets its plan, or the run ends.
LEMMA PlanStandardCases ==
  ASSUME Inputs, at \in Nat, PlanStandard
  PROVE  /\ pc = "phaseB" /\ at + 1 \in DOMAIN model_tensors /\ at + 1 \notin consumed
         /\ \/ GivesUp
            \/ \E p \in Planned : Plan(p, {}) /\ PlainEntry(p, at + 1)
<1> DEFINE t     == model_tensors[at + 1]
           name  == remap_mtp(t.name)
           src   == SourceOf(name, t.shape)
           shape == Squeezed(src, t.shape)
           g     == map_with_suffix(out_name(name))
           w     == IF is_f32(g, shape) THEN 4 ELSE 2
           p     == [name |-> g, tensor |-> at + 1, scales |-> 0, src |-> src,
                     nbytes |-> Product(shape) * w]
<1>1. pc = "phaseB" /\ at < Len(model_tensors) /\ at + 1 \notin consumed
  BY DEF PlanStandard
<1>2. at + 1 \in DOMAIN model_tensors
  BY <1>1, InputTypes
<1>3. \/ \E why : Fail(why)
      \/ Abort
      \/ /\ t.dtype = "BF16" /\ ~UnknownMtp(t.name) /\ HasDims(src, t.shape)
         /\ g # NoName /\ ~RoutingMismatch(src, g, shape)
         /\ Plan(p, {})
  BY Zenon DEF PlanStandard
<1>4. CASE (\E why : Fail(why)) \/ Abort
  BY <1>1, <1>2, <1>4, FailGivesUp
<1>5. CASE /\ t.dtype = "BF16" /\ ~UnknownMtp(t.name) /\ HasDims(src, t.shape)
           /\ g # NoName /\ ~RoutingMismatch(src, g, shape)
           /\ Plan(p, {})
  <2>1. PlainEntry(p, at + 1)
    BY <1>5 DEF PlainEntry
  <2>2. p \in Planned
    <3>1. p.name \in Names /\ p.tensor \in Nat /\ p.src \in PlainSources /\ p.nbytes \in Sizes
      BY <1>2, <2>1, PlainEntryType
    <3>2. g \in Names /\ at + 1 \in Nat /\ src \in PlainSources /\ Product(shape) * w \in Sizes
      BY <3>1
    <3> HIDE DEF g, src, shape, w
    <3> QED BY <3>2 DEF Planned
  <2> QED BY <1>1, <1>2, <1>5, <2>1, <2>2
<1> QED BY <1>3, <1>4, <1>5


Tags == {"ok", "err", "panic"}

\* Emission of a tensor comes to a buffer, to an error or to a panic.
LEMMA EmittedTag ==
  ASSUME NEW p, p.src \in QuantKinds \cup PlainSources, p.src # "Bf16ToF16"
  PROVE  Emitted(p).tag \in Tags
<1> DEFINE t == model_tensors[p.tensor]
<1>1. \A len : Buffer(len).tag = "ok"
  BY DEF Buffer
<1>2. \A tag : Broken(tag).tag = tag
  BY DEF Broken
<1>3. EmitQuantized(p, t).tag \in Tags
  BY <1>1, <1>2 DEF EmitQuantized, Tags
<1>4. \A perm, width, elem : Gathered(perm, width, t, elem).tag \in Tags
  BY <1>1, <1>2 DEF Gathered, Tags
<1>5. CASE p.src \in QuantKinds
  <2>1. Emitted(p) = EmitQuantized(p, t)
    BY <1>5 DEF Emitted, QuantKinds
  <2> QED BY <1>3, <2>1
<1>6. CASE p.src = "Bf16ToF16RowPerm"
  <2>1. Emitted(p) = Gathered(perm48, t.shape[2], t, 2)
    BY <1>6 DEF Emitted, QuantKinds
  <2> QED BY <1>4, <2>1, Zenon
<1>7. CASE p.src \in {"F32NegExp", "F32PlainPerm"}
  <2>1. Emitted(p) = Gathered(perm48, 1, t, 4)
    BY <1>7 DEF Emitted, QuantKinds
  <2> QED BY <1>4, <2>1, Zenon
<1>8. CASE p.src = "F32Conv1d"
  <2>1. Emitted(p) = Gathered(full_perm_qkv(topo), t.shape[3], t, 4)
    BY <1>8 DEF Emitted, QuantKinds
  <2> QED BY <1>4, <2>1, Zenon
<1>9. CASE p.src \in {"F32Plain", "F32PlusOne"}
  <2>1. Emitted(p) = Buffer((t.bytes \div 2) * 4)
    BY <1>9 DEF Emitted, QuantKinds
  <2> QED BY <1>1, <2>1 DEF Tags
<1> QED BY <1>5, <1>6, <1>7, <1>8, <1>9 DEF PlainSources

\* What EmitTensor does, then.
LEMMA EmitTensorCases ==
  ASSUME TInv, PlanInv, EmitTensor, NEW p, p = plan[next_tensor + 1]
  PROVE  /\ pc = "emit" /\ next_tensor + 1 \in DOMAIN plan /\ p \in Planned
         /\ \/ Fail("scales shape")
            \/ Abort
            \/ \E len : /\ \/ WriteTensorData(len)
                           \/ \E k \in TornAt : WriteTensorDataErr(len, k)
                        /\ AfterWriter("emit")
                        /\ heads' = Append(heads, HeadsOf(p.src))
                        /\ UNCHANGED <<at, disk>>
<1> DEFINE e == Emitted(p)
           A == /\ \/ WriteTensorData(e.len)
                   \/ \E k \in TornAt : WriteTensorDataErr(e.len, k)
                /\ AfterWriter("emit")
                /\ heads' = Append(heads, HeadsOf(p.src))
                /\ UNCHANGED <<at, disk>>
<1>1. pc = "emit" /\ next_tensor < Len(plan) /\ p.src # "Bf16ToF16"
  BY DEF EmitTensor
<1>2. next_tensor + 1 \in DOMAIN plan /\ p \in Planned
  <2>1. plan \in Seq(Planned) /\ Len(plan) \in Nat /\ DOMAIN plan = 1..Len(plan)
        /\ next_tensor \in Nat
    BY LenProperties DEF PlanInv, TInv, TypeOK
  <2>2. next_tensor + 1 \in DOMAIN plan
    BY <1>1, <2>1
  <2> QED BY <2>1, <2>2, ElementOfSeq
<1>3. e.tag \in Tags
  BY <1>1, <1>2, EmittedTag DEF Planned
<1>4. (CASE e.tag = "err"   -> Fail("scales shape")
         [] e.tag = "panic" -> Abort
         [] e.tag = "ok"    -> A)
  BY Zenon DEF EmitTensor
<1> HIDE DEF e, A
<1>5. Fail("scales shape") \/ Abort \/ A
  BY <1>3, <1>4 DEF Tags
<1> QED BY <1>1, <1>2, <1>5, Zenon DEF A

\* What is not planning leaves the plan, and what it is made from, alone.
LEMMA Settled ==
  ASSUME TInv, PlanInv, [Next]_vars, ~Open, ~PlanQuant, ~PlanStandard
  PROVE  UNCHANGED <<input, plan, consumed>>
<1>1. CASE EmitTensor
  BY <1>1, EmitTensorCases DEF Fail, Abort, AfterWriter
<1>2. CASE ~EmitTensor
  BY <1>2 DEF Next, Run, EndPhaseA, SkipConsumed, EndPhaseB, Create, DeclareKv, DeclareTensor,
              Header, CheckPerm, BeginStream, StreamChunk, FinishFile, Sync, IoErr, Crash,
              Fail, Abort, AfterWriter, vars, xvars
<1> QED BY <1>1, <1>2

\* An entry stays one as long as the input does.
LEMMA SameEntries ==
  ASSUME UNCHANGED input
  PROVE  /\ Quants' = Quants /\ HeadsDivide' = HeadsDivide
         /\ \A n : Taken(n)' = Taken(n)
         /\ \A p, i : QuantEntry(p, i)' = QuantEntry(p, i)
         /\ \A p, i : PlainEntry(p, i)' = PlainEntry(p, i)
BY DEF input, Quants, HeadsDivide, Taken, Companions, idx_of, QuantEntry, PlainEntry,
       QuantName, remap_mtp_layers, remap_mtp, topo, UnknownMtp


-----------------------------------------------------------------------------
(* Planning keeps the plan's invariant.                                    *)

\* The plan is empty at first.
LEMMA PlanInit == Init => Inputs /\ PlanInv /\ Progress
<1> SUFFICES ASSUME Init PROVE Inputs /\ PlanInv /\ Progress
  OBVIOUS
<1>1. /\ job \in Jobs /\ model_tensors = <<>> /\ qweight_order = <<>> /\ plan = <<>>
      /\ consumed = {} /\ at = 0 /\ disk = "old" /\ pc = "open"
  BY DEF Init
<1>2. Len(plan) = 0 /\ DOMAIN plan = {} /\ plan \in Seq(Planned) /\ Len(model_tensors) = 0
      /\ Quants = 0
  BY <1>1, EmptySeq DEF Quants
<1>3. Taken(0) = {}
  <2>1. 1..0 = {}
    OBVIOUS
  <2> QED BY <2>1 DEF Taken
<1>4. Inputs
  BY <1>1 DEF Inputs
<1>5. PlanInv
  BY <1>1, <1>2 DEF PlanInv
<1>6. Progress
  BY <1>1, <1>2, <1>3 DEF Progress, Writing
<1> QED BY <1>4, <1>5, <1>6

\* The input is what Open reads.
LEMMA InputsStep ==
  ASSUME TInv, Inputs, PlanInv, Progress, [Next]_vars
  PROVE  /\ Inputs' /\ job' = job
         /\ \/ UNCHANGED input
            \/ pc = "open" /\ pc' = "phaseA" /\ Open
<1>1. CASE ~Open
  <2>1. UNCHANGED input
    <3>1. PlanQuant \/ PlanStandard => UNCHANGED input
      BY PlanQuantCases, PlanStandardCases DEF Progress, GivesUp, Plan
    <3> QED BY <1>1, <3>1, Settled
  <2> QED BY <2>1 DEF input, Inputs
<1>2. CASE Open
  <2>1. \/ (\E why : Fail(why)) \/ Abort
        \/ /\ pc = "open" /\ pc' = "phaseA" /\ job' = job
           /\ model_tensors' = filtered(job.ckpt) /\ qweight_order' = qweights(model_tensors')
    BY <1>2 DEF Open
  <2>2. (\E why : Fail(why)) \/ Abort => UNCHANGED input
    BY DEF Fail, Abort
  <2> QED BY <1>2, <2>1, <2>2 DEF Inputs, input
<1> QED BY <1>1, <1>2

\* One entry more.
LEMMA Longer ==
  ASSUME PlanInv, NEW p \in Planned, NEW uses, Plan(p, uses), NEW n, n = Len(plan) + 1
  PROVE  /\ n \in Nat \ {0} /\ Len(plan) \in Nat /\ Len(plan') = n
         /\ DOMAIN plan = 1..Len(plan) /\ DOMAIN plan' = 1..n
         /\ plan' \in Seq(Planned) /\ plan'[n] = p
         /\ \A k \in DOMAIN plan : k \in DOMAIN plan' /\ k < n /\ plan'[k] = plan[k]
         /\ \A k \in DOMAIN plan' : k = n \/ k \in DOMAIN plan
<1>1. plan \in Seq(Planned) /\ Len(plan) \in Nat /\ DOMAIN plan = 1..Len(plan)
  BY LenProperties DEF PlanInv
<1>2. plan' = Append(plan, p)
  BY DEF Plan
<1>3. /\ plan' \in Seq(Planned) /\ Len(plan') = Len(plan) + 1
      /\ DOMAIN plan' = 1..(Len(plan) + 1) /\ plan'[Len(plan) + 1] = p
      /\ \A k \in 1..Len(plan) : plan'[k] = plan[k]
  BY <1>1, <1>2, Appended
<1> QED BY <1>1, <1>3

\* Phase A goes from module to module.
LEMMA PlanQuantStep ==
  ASSUME Inputs, PlanInv, Progress, PlanQuant
  PROVE  PlanInv' /\ Progress'
<1> DEFINE qi   == qweight_order[at + 1]
           uses == Companions(model_tensors[qi].name)
<1>1. /\ pc = "phaseA" /\ at < Quants /\ qi \in DOMAIN model_tensors /\ at \in Nat
      /\ Len(plan) = at /\ consumed = Taken(at)
      /\ \/ GivesUp
         \/ \E p \in Planned : Plan(p, uses) /\ QuantEntry(p, qi)
  BY PlanQuantCases DEF Progress
<1>2. disk = "old"
  BY <1>1 DEF Progress
<1>3. CASE GivesUp
  BY <1>1, <1>2, <1>3, SameEntries DEF GivesUp, PlanInv, Progress, Writing, input
<1>4. ASSUME NEW p \in Planned, Plan(p, uses), QuantEntry(p, qi)
      PROVE  PlanInv' /\ Progress'
  <2> DEFINE n == Len(plan) + 1
  <2>1. /\ n \in Nat /\ Len(plan) \in Nat /\ Len(plan') = n
        /\ DOMAIN plan = 1..Len(plan) /\ DOMAIN plan' = 1..n
        /\ plan' \in Seq(Planned) /\ plan'[n] = p
        /\ \A k \in DOMAIN plan : k \in DOMAIN plan' /\ k < n /\ plan'[k] = plan[k]
        /\ \A k \in DOMAIN plan' : k = n \/ k \in DOMAIN plan
    BY <1>4, Longer
  <2>2. n = at + 1 /\ n <= Quants /\ Quants \in Nat /\ Quants <= Len(model_tensors)
        /\ Len(model_tensors) \in Nat
    BY <1>1, InputTypes DEF Quants
  <2>3. /\ consumed' = consumed \cup uses /\ at' = at + 1 /\ pc' = pc /\ UNCHANGED input
        /\ disk' = disk
    BY <1>4 DEF Plan
  <2>4. uses \subseteq DOMAIN model_tensors
    BY IdxOf DEF Companions
  <2>5. consumed' = Taken(at + 1)
    <3>1. 1..(at + 1) = 1..at \cup {at + 1}
      BY <1>1
    <3> QED BY <1>1, <2>3, <3>1 DEF Taken
  <2> HIDE DEF n, uses
  <2>6. \A k \in DOMAIN plan' : k <= Quants /\ QuantEntry(plan'[k], qweight_order[k])
    <3> TAKE k \in DOMAIN plan'
    <3>1. CASE k = n
      BY <1>4, <2>1, <2>2, <3>1
    <3>2. CASE k \in DOMAIN plan
      BY <2>1, <2>2, <3>2 DEF PlanInv
    <3> QED BY <2>1, <3>1, <3>2
  <2>7. PlanInv'
    <3>1. consumed' \subseteq DOMAIN model_tensors
      BY <2>3, <2>4 DEF PlanInv
    <3>2. \A k \in DOMAIN plan' : k \in Nat /\ ~(k > Quants)
      BY <2>1, <2>2, <2>6
    <3>3. Len(plan') <= 2 * Len(model_tensors)
      BY <2>1, <2>2
    <3>4. UNCHANGED <<model_tensors, qweight_order>>
      BY <2>3 DEF input
    <3> QED BY <2>1, <2>2, <2>3, <2>6, <3>1, <3>2, <3>3, <3>4, SameEntries DEF PlanInv
  <2>8. Progress'
    BY <1>1, <1>2, <2>1, <2>2, <2>3, <2>5, SameEntries DEF Progress, Writing
  <2> QED BY <2>7, <2>8
<1> QED BY <1>1, <1>3, <1>4


\* Opening the checkpoint, before anything is planned.
LEMMA OpenStep ==
  ASSUME Inputs, PlanInv, Progress, Inputs', Open
  PROVE  PlanInv' /\ Progress'
<1>1. /\ pc = "open" /\ at = 0 /\ Len(plan) = 0 /\ consumed = Taken(0) /\ disk = "old"
      /\ UNCHANGED <<plan, consumed, at, disk>> /\ pc' \in {"phaseA", "err", "panicked"}
  BY DEF Open, Fail, Abort, Progress
<1>2. Taken(0) = {} /\ Taken(0)' = {}
  <2>1. 1..0 = {}
    OBVIOUS
  <2> QED BY <2>1 DEF Taken
<1>3. DOMAIN plan = {}
  BY <1>1, LenProperties DEF PlanInv
<1>4. Quants' \in Nat /\ Len(model_tensors') \in Nat
  BY InputTypes DEF Quants
<1>5. PlanInv'
  BY <1>1, <1>2, <1>3, <1>4 DEF PlanInv
<1>6. Progress'
  <2>1. at' = 0 /\ Len(plan') = 0 /\ consumed' = {} /\ disk' = "old" /\ Taken(at)' = {}
    <3>1. Taken(0)' = {} /\ at' = 0
      BY <1>1, <1>2
    <3>2. Taken(at)' = {}
      <4>1. 1..at' = {}
        BY <3>1
      <4> QED BY <4>1 DEF Taken
    <3> QED BY <1>1, <1>2, <3>1, <3>2
  <2>2. pc' \notin Writing /\ pc' \notin {"ok", "open", "phaseB"}
    BY <1>1 DEF Writing
  <2>3. at' <= Quants' /\ at' \in Nat /\ Len(plan') = at'
    BY <1>4, <2>1
  <2>4. consumed' = Taken(at)'
    BY <2>1
  <2> QED BY <2>1, <2>2, <2>3, <2>4 DEF Progress
<1> QED BY <1>5, <1>6

\* Phase B goes from tensor to tensor.
LEMMA PlanStandardStep ==
  ASSUME Inputs, PlanInv, Progress, PlanStandard
  PROVE  PlanInv' /\ Progress'
<1> DEFINE c == at + 1
<1>1. /\ pc = "phaseB" /\ c \in DOMAIN model_tensors /\ c \notin consumed /\ at \in Nat
      /\ disk = "old"
      /\ \/ GivesUp
         \/ \E p \in Planned : Plan(p, {}) /\ PlainEntry(p, c)
  BY PlanStandardCases DEF Progress
<1>2. /\ Quants <= Len(plan) /\ Len(plan) <= Quants + at
      /\ at <= Len(model_tensors) /\ HeadsDivide
      /\ consumed = Taken(Quants) /\ Covered(at)
      /\ \A k \in DOMAIN plan : k > Quants => plan[k].tensor <= at
  BY <1>1 DEF Progress
<1>3. CASE GivesUp
  BY <1>1, <1>3, SameEntries DEF GivesUp, PlanInv, Progress, Writing, input
<1>4. ASSUME NEW p \in Planned, Plan(p, {}), PlainEntry(p, c)
      PROVE  PlanInv' /\ Progress'
  <2> DEFINE n == Len(plan) + 1
  <2>1. /\ n \in Nat \ {0} /\ Len(plan) \in Nat /\ Len(plan') = n /\ n = Len(plan) + 1
        /\ DOMAIN plan = 1..Len(plan) /\ DOMAIN plan' = 1..n
        /\ plan' \in Seq(Planned) /\ plan'[n] = p
        /\ \A k \in DOMAIN plan : k \in DOMAIN plan' /\ k < n /\ plan'[k] = plan[k]
        /\ \A k \in DOMAIN plan' : k = n \/ k \in DOMAIN plan
    BY <1>4, Longer
  <2> HIDE DEF n
  <2>2. Quants \in Nat /\ Quants <= Len(model_tensors) /\ Len(model_tensors) \in Nat
        /\ DOMAIN model_tensors = 1..Len(model_tensors)
    BY InputTypes DEF Quants
  <2>3. /\ consumed' = consumed /\ at' = c /\ pc' = pc /\ UNCHANGED input /\ disk' = disk
    BY <1>4 DEF Plan
  <2>4. UNCHANGED <<model_tensors, qweight_order>>
    BY <2>3 DEF input
  <2>5. p.tensor = c
    BY <1>4 DEF PlainEntry
  <2>6. n > Quants
    BY <1>2, <2>1, <2>2
  <2> HIDE DEF c
  <2>7. \A k \in DOMAIN plan' :
           IF k <= Quants THEN QuantEntry(plan'[k], qweight_order[k])
           ELSE /\ plan'[k].tensor \in DOMAIN model_tensors \ consumed
                /\ PlainEntry(plan'[k], plan'[k].tensor)
    <3> TAKE k \in DOMAIN plan'
    <3>1. CASE k = n
      BY <1>1, <1>4, <2>1, <2>2, <2>5, <2>6, <3>1
    <3>2. CASE k \in DOMAIN plan
      BY <2>1, <3>2 DEF PlanInv
    <3> QED BY <2>1, <3>1, <3>2
  <2>8. \A k \in DOMAIN plan' : k > Quants => plan'[k].tensor <= c
    <3> TAKE k \in DOMAIN plan'
    <3>1. CASE k = n
      BY <1>1, <2>1, <2>2, <2>5, <3>1
    <3>2. CASE k \in DOMAIN plan
      <4>1. ASSUME k > Quants
            PROVE  plan'[k].tensor <= c
        <5>1. plan'[k].tensor <= at /\ plan'[k].tensor \in Nat
          BY <1>2, <2>1, <2>2, <3>2, <4>1 DEF PlanInv
        <5> QED BY <1>1, <5>1 DEF c
      <4> QED BY <4>1
    <3> QED BY <2>1, <3>1, <3>2
  <2>9. \A k, l \in DOMAIN plan' : Quants < k /\ k < l => plan'[k].tensor < plan'[l].tensor
    <3> SUFFICES ASSUME NEW k \in DOMAIN plan', NEW l \in DOMAIN plan', Quants < k, k < l
                 PROVE  plan'[k].tensor < plan'[l].tensor
      OBVIOUS
    <3>1. k # n /\ k \in DOMAIN plan
      BY <2>1
    <3>2. CASE l = n
      <4>1. plan'[k].tensor <= at /\ plan'[k].tensor \in Nat /\ plan'[l].tensor = c
        BY <1>2, <2>1, <2>2, <2>5, <3>1, <3>2 DEF PlanInv
      <4> QED BY <1>1, <4>1 DEF c
    <3>3. CASE l \in DOMAIN plan
      BY <2>1, <3>1, <3>3 DEF PlanInv
    <3> QED BY <2>1, <3>2, <3>3
  <2>10. \A i \in 1..c : i \in consumed' \/ \E k \in DOMAIN plan' : plan'[k].tensor = i
    <3> SUFFICES ASSUME NEW i \in 1..c
                 PROVE  i \in consumed' \/ \E k \in DOMAIN plan' : plan'[k].tensor = i
      OBVIOUS
    <3>1. CASE i = c
      BY <2>1, <2>5, <3>1
    <3>2. CASE i # c
      <4>1. i \in 1..at
        BY <1>1, <3>2 DEF c
      <4> QED BY <1>2, <2>1, <2>3, <4>1 DEF Covered
    <3> QED BY <3>1, <3>2
  <2>11. Len(plan') <= Quants + c /\ c <= Len(model_tensors) /\ c \in Nat
         /\ Quants <= Len(plan') /\ Len(plan') <= 2 * Len(model_tensors)
    BY <1>1, <1>2, <2>1, <2>2, <2>6 DEF c
  <2>12. PlanInv'
    BY <2>1, <2>3, <2>4, <2>7, <2>9, <2>11, SameEntries DEF PlanInv
  <2>13. Covered(at)'
    <3>1. at' = c
      BY <2>3
    <3> QED BY <2>10, <3>1 DEF Covered
  <2>14. Progress'
    BY <1>1, <1>2, <2>3, <2>4, <2>8, <2>11, <2>13, SameEntries DEF Progress, Writing
  <2> QED BY <2>12, <2>14
<1> QED BY <1>1, <1>3, <1>4

\* The steps between the two loops and behind them.
LEMMA PlanStep ==
  ASSUME TInv, Inputs, PlanInv, Progress, [Next]_vars
  PROVE  PlanInv' /\ Progress'
<1>1. CASE Open
  BY <1>1, InputsStep, OpenStep
<1>2. CASE PlanQuant \/ PlanStandard
  BY <1>2, PlanQuantStep, PlanStandardStep
<1>3. CASE ~Open /\ ~PlanQuant /\ ~PlanStandard
  <2>1. UNCHANGED <<input, plan, consumed>>
    BY <1>3, Settled
  <2>2. UNCHANGED <<job, model_tensors, qweight_order, plan, consumed>>
    BY <2>1 DEF input
  <2>3. PlanInv'
    BY <2>1, <2>2, SameEntries DEF PlanInv
  <2>4. /\ Quants' = Quants /\ HeadsDivide' = HeadsDivide
        /\ Taken(Quants)' = Taken(Quants) /\ Whole' = Whole
    BY <2>2 DEF Quants, HeadsDivide, topo, Whole, Covered, Taken, Companions, idx_of
  <2>5. CASE EndPhaseA
    <3>1. pc = "phaseA" /\ at = Quants
      BY <2>5 DEF EndPhaseA, Quants
    <3>2. \/ pc' = "panicked" /\ UNCHANGED <<at, disk>>
          \/ HeadsDivide /\ pc' = "phaseB" /\ at' = 0 /\ UNCHANGED disk
      BY <2>5 DEF EndPhaseA, Abort
    <3>3. Len(plan) = Quants /\ consumed = Taken(Quants) /\ Quants \in Nat /\ disk = "old"
          /\ Len(model_tensors) \in Nat
      BY <3>1, InputTypes DEF Progress, Quants
    <3>4. Covered(0)
      BY DEF Covered
    <3>5. \A k \in DOMAIN plan : ~(k > Quants)
      BY <3>3, LenProperties DEF PlanInv
    <3>6. CASE pc' = "panicked" /\ UNCHANGED <<at, disk>>
      <4>1. at' \in Nat /\ disk' = "old" /\ pc' \notin Writing
            /\ pc' \notin {"ok", "open", "phaseA", "phaseB"}
        BY <3>1, <3>3, <3>6 DEF Writing
      <4> QED BY <2>3, <4>1 DEF Progress
    <3>7. CASE HeadsDivide /\ pc' = "phaseB" /\ at' = 0 /\ UNCHANGED disk
      <4>1. Covered(at)'
        BY <2>2, <3>4, <3>7 DEF Covered
      <4>2. /\ Quants' <= Len(plan') /\ Len(plan') <= Quants' + at' /\ at' \in Nat
            /\ at' <= Len(model_tensors') /\ HeadsDivide' /\ disk' = "old"
            /\ \A k \in DOMAIN plan' : k > Quants' => plan'[k].tensor <= at'
        BY <2>2, <2>4, <3>3, <3>5, <3>7
      <4>3. consumed' = Taken(Quants)'
        BY <2>2, <2>4, <3>3
      <4>4. pc' \notin Writing /\ pc' \notin {"ok", "open", "phaseA"}
        BY <3>7 DEF Writing
      <4> QED BY <2>3, <4>1, <4>2, <4>3, <4>4 DEF Progress
    <3>8. Progress'
      BY <3>2, <3>6, <3>7
    <3> QED BY <2>3, <3>8
  <2>6. CASE SkipConsumed
    <3> DEFINE c == at + 1
    <3>1. /\ pc = "phaseB" /\ at < Len(model_tensors) /\ c \in consumed /\ at' = c
          /\ UNCHANGED <<pc, disk>> /\ at \in Nat /\ Len(model_tensors) \in Nat
          /\ Len(plan) \in Nat /\ Quants \in Nat /\ DOMAIN plan = 1..Len(plan)
      BY <2>6, InputTypes, LenProperties DEF SkipConsumed, Progress, Quants, PlanInv
    <3>2. /\ Quants <= Len(plan) /\ Len(plan) <= Quants + at /\ HeadsDivide
          /\ consumed = Taken(Quants) /\ Covered(at) /\ disk = "old"
          /\ \A k \in DOMAIN plan : k > Quants => plan[k].tensor <= at
      BY <3>1 DEF Progress
    <3>3. Covered(c)
      <4> SUFFICES ASSUME NEW i \in 1..c
                   PROVE  i \in consumed \/ \E k \in DOMAIN plan : plan[k].tensor = i
        BY DEF Covered
      <4>1. i = c \/ i \in 1..at
        BY <3>1
      <4> QED BY <3>1, <3>2, <4>1 DEF Covered
    <3>4. Covered(at)'
      BY <2>2, <3>1, <3>3 DEF Covered
    <3>5. \A k \in DOMAIN plan : k > Quants => plan[k].tensor <= c
      <4> SUFFICES ASSUME NEW k \in DOMAIN plan, k > Quants
                   PROVE  plan[k].tensor <= c
        OBVIOUS
      <4>1. plan[k].tensor \in Nat /\ plan[k].tensor <= at
        BY <3>1, <3>2, InputTypes DEF PlanInv
      <4> QED BY <3>1, <4>1
    <3>6. c \in Nat /\ c <= Len(model_tensors) /\ Len(plan) <= Quants + c
      BY <3>1, <3>2
    <3> HIDE DEF c
    <3>7. Progress'
      BY <2>2, <2>4, <3>1, <3>2, <3>4, <3>5, <3>6 DEF Progress, Writing
    <3> QED BY <2>3, <3>7
  <2>7. CASE EndPhaseB
    <3>1. /\ pc = "phaseB" /\ at = Len(model_tensors) /\ pc' = "create" /\ at' = 0
          /\ UNCHANGED disk
      BY <2>7 DEF EndPhaseB
    <3>2. Whole /\ disk = "old"
      BY <3>1 DEF Progress, Whole
    <3>3. Progress'
      BY <2>2, <2>4, <3>1, <3>2 DEF Progress, Writing
    <3> QED BY <2>3, <3>3
  <2>8. CASE /\ pc' \in Ends \ {"ok"} /\ disk' = disk /\ at' = at
    <3>1. Progress'
      BY <2>2, <2>4, <2>8 DEF Progress, Writing, Ends
    <3> QED BY <2>3, <3>1
  <2>9. CASE pc \in Writing /\ pc' \in (Writing \ {"create"}) \cup Ends /\ at' \in Nat
    <3>1. Progress'
      BY <2>2, <2>4, <2>9 DEF Progress, Writing, Ends
    <3> QED BY <2>3, <3>1
  <2>10. CASE UNCHANGED vars
    <3>1. UNCHANGED <<pc, at, disk>>
      BY <2>10 DEF vars, xvars
    <3>2. Taken(at)' = Taken(at) /\ Covered(at)' = Covered(at)
      BY <2>2, <3>1 DEF Taken, Covered, Companions, idx_of
    <3>3. Progress'
      BY <2>2, <2>4, <3>1, <3>2 DEF Progress, Writing
    <3> QED BY <2>3, <3>3
  <2>11. CASE EmitTensor
    <3>1. /\ pc = "emit" /\ pc' \in {"emit", "err", "panicked"} /\ at' = at
      BY <2>11, EmitTensorCases DEF Fail, Abort, AfterWriter
    <3> QED BY <2>9, <3>1 DEF Writing, Ends, Progress
  <2>12. CASE IoErr \/ Crash
    <3>1. /\ pc' \in Ends \ {"ok"} /\ disk' = disk /\ at' = at
      BY <2>12 DEF IoErr, Crash, Fail, Ends
    <3> QED BY <2>8, <3>1
  <2>13. CASE \/ Create \/ DeclareKv \/ DeclareTensor \/ Header \/ CheckPerm \/ BeginStream
              \/ StreamChunk \/ FinishFile \/ Sync
    <3>1. /\ pc \in Writing /\ pc' \in (Writing \ {"create"}) \cup Ends
          /\ at' = at \/ at' = at + 1
      BY <2>13 DEF Create, DeclareKv, DeclareTensor, Header, CheckPerm, BeginStream, StreamChunk,
                   FinishFile, Sync, Fail, Abort, AfterWriter, Writing, Ends
    <3>2. at' \in Nat
      BY <3>1 DEF Progress
    <3> QED BY <2>9, <3>1, <3>2
  <2> QED BY <1>3, <2>5, <2>6, <2>7, <2>10, <2>11, <2>12, <2>13 DEF Next, Run
<1> QED BY <1>1, <1>2, <1>3

-----------------------------------------------------------------------------
(* Run and writer go in step: what the writer has been told is the plan, in  *)
(* its order.                                                              *)

\* Where the output exists and nothing has failed.
AtWriter == {"kvs", "header", "perm", "emit", "stream", "sync", "ok"}

\* What holds of the writer and of the cause at each program counter.
Stages ==
  /\ pc \in {"open", "phaseA", "phaseB"} \cup Writing \cup Ends
  /\ pc \in {"open", "phaseA", "phaseB", "create"} => cause = "none"
  /\ disk = "old" <=> wstate = "none"
  /\ disk = "old" => kvs = <<>> /\ tensors = <<>> /\ heads = <<>>
  /\ pc \in AtWriter => disk # "old" /\ cause = "none"
  /\ pc = "create" => at = 0
  /\ pc = "kvs" => wstate = "open" /\ Len(kvs) = at
  /\ pc \in AtWriter \ {"kvs"} => Len(tensors) = Len(plan)
  /\ pc = "header" => wstate = "encoding"
  /\ pc \in {"perm", "emit"} => wstate = "open"
  /\ pc = "stream" => wstate = "streaming"
  /\ pc \in {"sync", "ok"} => wstate = "finished" /\ next_tensor = Len(plan)
  /\ pc = "ok" => disk = "whole"
  /\ disk # "old" => cause \in {"none", "io", "unsupported metadata", "scales shape"}

\* No name is declared twice, and each with the length that was planned.
Declares ==
  /\ Len(tensors) <= Len(plan)
  /\ \A i \in DOMAIN tensors :
        tensors[i].name = plan[i].name /\ tensors[i].nbytes = plan[i].nbytes
  /\ \A i, j \in DOMAIN tensors : tensors[i].name = tensors[j].name => i = j

\* Each tensor is emitted in the head order of its source.
Orders ==
  /\ heads \in Seq({HeadsOf(src) : src \in QuantKinds \cup PlainSources})
  /\ Len(heads) <= Len(plan)
  /\ pc # "panicked" => Len(heads) = next_tensor
  /\ \A i \in DOMAIN heads : heads[i] = HeadsOf(plan[i].src)

PInv == TInv /\ Inputs /\ PlanInv /\ Progress /\ Stages /\ Declares

RInv == PInv /\ Orders

\* What remix has of the invariant at hand.
LEMMA Facts ==
  ASSUME PInv
  PROVE  /\ plan \in Seq(Planned) /\ Len(plan) \in Nat /\ DOMAIN plan = 1..Len(plan)
         /\ \A i \in DOMAIN plan : plan[i] \in Planned
         /\ Len(plan) <= MaxTensors /\ MaxTensors \in Nat
         /\ tensors \in Seq(Tensor) /\ Len(tensors) \in Nat /\ DOMAIN tensors = 1..Len(tensors)
         /\ Len(kvs) \in Nat /\ at \in Nat
         /\ next_tensor \in Nat /\ next_tensor <= Len(tensors)
         /\ job \in Job /\ Len(job.meta) \in Nat /\ Len(job.meta) <= MaxKvs /\ MaxKvs \in Nat
         /\ \A i \in 1..Len(job.meta) :
              job.meta[i] \notin {"unsupported", "missing"} => job.meta[i] \in Keys
         /\ model_tensors \in Seq(Entry) /\ Len(model_tensors) \in Nat
         /\ DOMAIN model_tensors = 1..Len(model_tensors)
         /\ \A i \in DOMAIN model_tensors : Comes(model_tensors[i], job)
<1>1. plan \in Seq(Planned) /\ Len(plan) \in Nat /\ DOMAIN plan = 1..Len(plan)
      /\ Len(plan) <= 2 * Len(model_tensors)
      /\ \A i \in DOMAIN plan : plan[i] \in Planned
  BY LenProperties, ElementOfSeq DEF PInv, PlanInv
<1>2. /\ tensors \in Seq(Tensor) /\ Len(tensors) \in Nat /\ DOMAIN tensors = 1..Len(tensors)
      /\ Len(kvs) \in Nat /\ next_tensor \in Nat /\ next_tensor <= Len(tensors)
  <2>1. tensors \in Seq(Tensor) /\ kvs \in Seq(Keys) /\ next_tensor \in 0..Len(tensors)
    BY DEF PInv, TInv, TypeOK
  <2>2. Len(tensors) \in Nat /\ DOMAIN tensors = 1..Len(tensors) /\ Len(kvs) \in Nat
    BY <2>1, LenProperties
  <2> QED BY <2>1, <2>2
<1>3. /\ job \in Job /\ model_tensors \in Seq(Entry) /\ Len(model_tensors) \in Nat
      /\ DOMAIN model_tensors = 1..Len(model_tensors)
      /\ 2 * Len(model_tensors) <= MaxTensors /\ MaxTensors \in Nat
      /\ \A i \in DOMAIN model_tensors : Comes(model_tensors[i], job)
  BY InputTypes, RemixAssumption DEF PInv
<1>4. job.meta \in Seq(STRING)
  BY <1>3 DEF Job
<1>5. /\ Len(job.meta) \in Nat /\ Len(job.meta) <= MaxKvs /\ MaxKvs \in Nat
      /\ DOMAIN job.meta = 1..Len(job.meta)
      /\ Range(job.meta) \ {"unsupported", "missing"} \subseteq Keys
  BY <1>4, LenProperties, RemixAssumption DEF PInv, Inputs
<1>6. \A i \in 1..Len(job.meta) :
         job.meta[i] \notin {"unsupported", "missing"} => job.meta[i] \in Keys
  BY <1>5 DEF Range
<1>7. Len(plan) <= MaxTensors
  BY <1>1, <1>3
<1> QED BY <1>1, <1>2, <1>3, <1>5, <1>6, <1>7 DEF PInv, Progress

\* Each entry of the plan is a tensor's: a module's or that of a tensor left over.
LEMMA EntryOf ==
  ASSUME Inputs, PlanInv, NEW k \in DOMAIN plan, NEW i, i = plan[k].tensor
  PROVE  /\ i \in DOMAIN model_tensors /\ k \in Nat /\ Quants \in Nat
         /\ k <= Quants => /\ k \in DOMAIN qweight_order /\ i = qweight_order[k]
                           /\ QuantEntry(plan[k], i)
         /\ ~(k <= Quants) => i \notin consumed /\ PlainEntry(plan[k], i)
<1>1. DOMAIN plan = 1..Len(plan) /\ Len(plan) \in Nat /\ k \in Nat /\ k >= 1
  <2>1. DOMAIN plan = 1..Len(plan) /\ Len(plan) \in Nat
    BY LenProperties DEF PlanInv
  <2> QED BY <2>1
<1>2. DOMAIN qweight_order = 1..Quants /\ Quants \in Nat
  BY InputTypes DEF Quants
<1>3. CASE k <= Quants
  <2>1. k \in DOMAIN qweight_order
    BY <1>1, <1>2, <1>3
  <2>2. QuantEntry(plan[k], qweight_order[k])
    BY <1>3 DEF PlanInv
  <2>3. i = qweight_order[k]
    BY <2>2 DEF QuantEntry
  <2>4. i \in DOMAIN model_tensors
    BY <2>1, <2>3, InputTypes
  <2> QED BY <1>1, <1>2, <1>3, <2>1, <2>2, <2>3, <2>4
<1>4. CASE ~(k <= Quants)
  BY <1>1, <1>2, <1>4 DEF PlanInv
<1> QED BY <1>3, <1>4

\* Every step of a run is one of the writer's or leaves it alone: remix asks of it
\* only what its specification foresees.
LEMMA StepOfWriter ==
  ASSUME PInv, [Next]_vars
  PROVE  [WNext]_wvars
<1> USE DEF PInv
<1>1. CASE \/ Open \/ PlanQuant \/ PlanStandard \/ EndPhaseA \/ SkipConsumed \/ EndPhaseB
           \/ CheckPerm \/ Sync \/ IoErr \/ Crash \/ UNCHANGED vars
  <2>1. PlanQuant \/ PlanStandard => UNCHANGED wvars
    BY PlanQuantCases, PlanStandardCases DEF Progress, GivesUp, Plan
  <2>2. UNCHANGED wvars
    BY <1>1, <2>1 DEF Open, EndPhaseA, SkipConsumed, EndPhaseB, CheckPerm, Sync, IoErr, Crash,
                     Fail, Abort, vars
  <2> QED BY <2>2
<1>2. CASE Create
  BY <1>2 DEF Create, WNext, Declare
<1>3. CASE DeclareKv
  <2> DEFINE key == job.meta[at + 1]
  <2>1. pc = "kvs" /\ at < Len(job.meta) /\ Len(kvs) = at
    BY <1>3 DEF DeclareKv, Stages
  <2>2. CASE Fail("unsupported metadata") \/ Abort
    BY <2>2 DEF Fail, Abort
  <2>3. CASE key \notin {"unsupported", "missing"} /\ AddKv(key)
    <3>1. at + 1 \in 1..Len(job.meta) /\ Len(kvs) < MaxKvs
      BY <2>1, Facts
    <3>2. key \in Keys
      BY <2>3, <3>1, Facts
    <3> HIDE DEF key
    <3> QED BY <2>3, <3>1, <3>2 DEF WNext, Declare
  <2> QED BY <1>3, <2>2, <2>3 DEF DeclareKv
<1>4. CASE DeclareTensor
  <2> DEFINE n == Len(tensors) + 1
  <2>1. CASE Len(tensors) < Len(plan) /\ AddTensorInfo(plan[n].name, plan[n].nbytes)
    <3>1. n \in DOMAIN plan /\ Len(tensors) < MaxTensors
      BY <2>1, Facts
    <3>2. plan[n].name \in Names /\ plan[n].nbytes \in Sizes
      BY <3>1, Facts DEF Planned
    <3> HIDE DEF n
    <3> QED BY <2>1, <3>1, <3>2 DEF WNext, Declare
  <2>2. CASE BeginHeader
    BY <2>2 DEF WNext, WriteHeader
  <2> QED BY <1>4, <2>1, <2>2 DEF DeclareTensor
<1>5. CASE Header
  BY <1>5 DEF Header, WNext, WriteHeader
<1>6. CASE EmitTensor
  <2> DEFINE p == plan[next_tensor + 1]
  <2>1. \/ UNCHANGED wvars
        \/ \E len : \/ WriteTensorData(len)
                    \/ \E k \in TornAt : WriteTensorDataErr(len, k)
    BY <1>6, EmitTensorCases DEF Fail, Abort
  <2>2. CanStart => Declared \in Sizes
    <3> SUFFICES ASSUME CanStart
                 PROVE  Declared \in Sizes
      OBVIOUS
    <3>1. next_tensor + 1 \in 1..Len(tensors)
      BY Facts DEF CanStart
    <3>2. tensors[next_tensor + 1] \in Tensor
      BY <3>1, Facts, ElementOfSeq
    <3> QED BY <3>2 DEF Declared, Tensor
  <2>3. ASSUME NEW len, WriteTensorData(len)
        PROVE  \E l \in Sizes : WriteTensorData(l)
    <3>1. CASE Accepts(len)
      BY <2>2, <2>3, <3>1 DEF Accepts
    <3>2. CASE ~Accepts(len)
      <4>1. wstate = "open" /\ Panic
        BY <2>3, <3>2 DEF WriteTensorData
      <4>2. ~Accepts(0) \/ ~Accepts(1)
        BY DEF Accepts
      <4>3. 0 \in Sizes /\ 1 \in Sizes
        BY RemixAssumption
      <4> QED BY <4>1, <4>2, <4>3 DEF WriteTensorData
    <3> QED BY <3>1, <3>2
  <2>4. ASSUME NEW len, NEW k \in TornAt, WriteTensorDataErr(len, k)
        PROVE  \E l \in Sizes : WriteTensorDataErr(l, k)
    BY <2>2, <2>4 DEF WriteTensorDataErr, Accepts
  <2>5. \/ UNCHANGED wvars
        \/ \E len \in Sizes : WriteTensorData(len)
        \/ \E len \in Sizes, k \in TornAt : WriteTensorDataErr(len, k)
    BY <2>1, <2>3, <2>4
  <2> QED BY <2>5 DEF WNext, Stream
<1>7. CASE BeginStream
  <2> DEFINE i == plan[next_tensor + 1].tensor
             src == 2 * (model_tensors[i].bytes \div 2)
  <2>1. BeginTensor(src) /\ next_tensor < Len(plan)
    BY <1>7 DEF BeginStream
  <2>2. next_tensor + 1 \in DOMAIN plan
    BY <2>1, Facts
  <2>3. i \in DOMAIN model_tensors
    BY <2>2, EntryOf
  <2>4. src \in Sizes
    BY <2>3, Facts DEF Comes, Lengths
  <2> HIDE DEF src
  <2> QED BY <2>1, <2>4 DEF WNext, Stream
<1>8. CASE StreamChunk
  BY <1>8 DEF StreamChunk, WNext, Stream
<1>9. CASE FinishFile
  BY <1>9 DEF FinishFile, WNext
<1> QED BY <1>1, <1>2, <1>3, <1>4, <1>5, <1>6, <1>7, <1>8, <1>9 DEF Next, Run

\* What the steps of the planning do to run's state.
LEMMA PlanningStep ==
  ASSUME PInv, Open \/ PlanQuant \/ PlanStandard
  PROVE  /\ pc \in {"open", "phaseA", "phaseB"} /\ disk = "old"
         /\ \/ pc' \in {"phaseA", "phaseB"} /\ cause' = cause
            \/ pc' \in {"err", "panicked"} /\ (pc' = "panicked" => cause' = cause)
         /\ UNCHANGED <<disk, heads, wvars>>
<1> USE DEF PInv
<1>1. CASE Open
  BY <1>1 DEF Open, Fail, Abort, Progress
<1>2. CASE PlanQuant \/ PlanStandard
  BY <1>2, PlanQuantCases, PlanStandardCases DEF Progress, GivesUp, Plan
<1> QED BY <1>1, <1>2

\* Where run stands after a call of the writer.
LEMMA AfterCall ==
  ASSUME NEW next, AfterWriter(next)
  PROVE  \/ wstate' = "panicked" /\ pc' = "panicked" /\ cause' = cause
         \/ wstate' = "failed" /\ pc' = "err" /\ cause' = "io"
         \/ wstate' \notin {"panicked", "failed"} /\ pc' = next /\ cause' = cause
BY DEF AfterWriter

\* A call that ends the run or leads to the next stage, with the writer in the
\* state of that stage.
LEMMA CallStages ==
  ASSUME PInv, pc \in AtWriter, NEW next, AfterWriter(next), disk' = disk,
         wstate' # "none",
         \/ wstate' \in {"panicked", "failed"}
         \/ next = "kvs" /\ wstate' = "open" /\ Len(kvs') = at'
         \/ /\ Len(tensors') = Len(plan')
            /\ \/ next = "header" /\ wstate' = "encoding"
               \/ next \in {"perm", "emit"} /\ wstate' = "open"
               \/ next = "stream" /\ wstate' = "streaming"
               \/ next = "sync" /\ wstate' = "finished" /\ next_tensor' = Len(plan')
  PROVE  Stages'
<1>1. disk' # "old" /\ cause = "none"
  BY DEF PInv, Stages
<1>2. CASE wstate' = "panicked"
  <2>1. pc' = "panicked" /\ cause' = cause
    BY <1>2, AfterCall
  <2> QED BY <1>1, <1>2, <2>1 DEF Stages, AtWriter, Writing, Ends
<1>3. CASE wstate' = "failed"
  <2>1. pc' = "err" /\ cause' = "io"
    BY <1>3, AfterCall
  <2> QED BY <1>1, <1>3, <2>1 DEF Stages, AtWriter, Writing, Ends
<1>4. CASE wstate' \notin {"panicked", "failed"}
  <2>1. pc' = next /\ cause' = cause
    BY <1>4, AfterCall
  <2> QED BY <1>1, <1>4, <2>1 DEF Stages, AtWriter, Writing, Ends
<1> QED BY <1>2, <1>3, <1>4

\* One key more, or a key twice.
LEMMA KvGrows ==
  ASSUME PInv, DeclareKv, NEW key, key = job.meta[at + 1],
         key \notin {"unsupported", "missing"}, AddKv(key)
  PROVE  \/ wstate' = "panicked"
         \/ wstate' = wstate /\ Len(kvs') = Len(kvs) + 1
<1>1. at < Len(job.meta) /\ at \in Nat /\ Len(job.meta) \in Nat
  BY Facts DEF DeclareKv
<1>2. at + 1 \in 1..Len(job.meta)
  BY <1>1
<1>3. key \in Keys /\ kvs \in Seq(Keys)
  BY <1>2, Facts DEF PInv, TInv, TypeOK
<1>4. Len(Append(kvs, key)) = Len(kvs) + 1
  BY <1>3, Appended, Zenon
<1> QED BY <1>4 DEF AddKv, Panic

\* Each step keeps to these stages.
LEMMA StagesStep ==
  ASSUME PInv, [Next]_vars
  PROVE  Stages'
<1> USE DEF PInv, Stages, AtWriter
<1>1. CASE Open \/ PlanQuant \/ PlanStandard
  BY <1>1, PlanningStep DEF Writing, Ends, wvars, decl
<1>2. CASE UNCHANGED vars
  BY <1>2 DEF vars, xvars, input, wvars, decl, data
<1>3. CASE IoErr \/ Crash
  BY <1>3 DEF IoErr, Crash, Fail, Writing, Ends, wvars, decl
<1>4. CASE EndPhaseA \/ SkipConsumed \/ EndPhaseB
  BY <1>4 DEF EndPhaseA, SkipConsumed, EndPhaseB, Abort, Writing, Ends, wvars, decl, Progress
<1>5. CASE Create
  <2>1. kvs = <<>> /\ Len(kvs) = 0 /\ at = 0
    BY <1>5, EmptySeq DEF Create, Progress
  <2> QED BY <1>5, <2>1 DEF Create, New, decl, Writing, Ends
<1>6. CASE DeclareKv
  <2> DEFINE key == job.meta[at + 1]
  <2>1. pc = "kvs"
    BY <1>6 DEF DeclareKv
  <2>2. CASE Fail("unsupported metadata") \/ Abort
    BY <2>1, <2>2 DEF Fail, Abort, Writing, Ends, wvars, decl
  <2>3. CASE /\ key \notin {"unsupported", "missing"}
             /\ AddKv(key) /\ AfterWriter("kvs") /\ at' = at + 1 /\ UNCHANGED <<heads, disk>>
    <3>1. \/ wstate' = "panicked"
          \/ wstate' = wstate /\ Len(kvs') = Len(kvs) + 1
      BY <1>6, <2>3, KvGrows
    <3> HIDE DEF key
    <3> QED BY <2>1, <2>3, <3>1, CallStages
  <2> QED BY <1>6, <2>2, <2>3 DEF DeclareKv
<1>7. CASE DeclareTensor
  <2>1. pc = "kvs" /\ at = Len(job.meta) /\ UNCHANGED <<at, heads, disk>>
    BY <1>7 DEF DeclareTensor
  <2>2. CASE AfterWriter("kvs") /\ (UNCHANGED <<wstate, kvs>> \/ wstate' = "panicked")
    BY <2>1, <2>2, CallStages
  <2>3. CASE Len(tensors) = Len(plan) /\ BeginHeader /\ AfterWriter("header")
    <3>1. \/ wstate' = "panicked"
          \/ wstate' = "encoding" /\ UNCHANGED <<kvs, tensors>>
      BY <2>3 DEF BeginHeader, Panic, decl
    <3>2. plan' = plan
      BY <2>3 DEF AfterWriter
    <3> QED BY <2>1, <2>3, <3>1, <3>2, CallStages
  <2> QED BY <1>7, <2>2, <2>3 DEF DeclareTensor, AddTensorInfo, Panic
<1>8. CASE Header
  <2>1. pc = "header" /\ UNCHANGED <<at, heads, disk, plan, tensors>>
    BY <1>8 DEF Header, AfterWriter, EncodeInfo, EmitHeader, EmitHeaderErr, decl
  <2>2. \/ wstate' = "encoding" /\ AfterWriter("header")
        \/ wstate' = "open" /\ AfterWriter("perm")
        \/ wstate' = "failed" /\ AfterWriter("perm")
    BY <1>8 DEF Header, EncodeInfo, EmitHeader, EmitHeaderErr
  <2> QED BY <2>1, <2>2, CallStages
<1>9. CASE CheckPerm
  BY <1>9 DEF CheckPerm, Abort, Writing, Ends, wvars, decl
<1>10. CASE EmitTensor
  <2> DEFINE p == plan[next_tensor + 1]
  <2>1. /\ pc = "emit"
        /\ \/ Fail("scales shape")
           \/ Abort
           \/ \E len : /\ \/ WriteTensorData(len)
                          \/ \E k \in TornAt : WriteTensorDataErr(len, k)
                       /\ AfterWriter("emit")
                       /\ UNCHANGED disk
    BY <1>10, EmitTensorCases
  <2>2. CASE Fail("scales shape") \/ Abort
    BY <2>1, <2>2 DEF Fail, Abort, Writing, Ends, wvars, decl
  <2>3. ASSUME NEW len, AfterWriter("emit"), disk' = disk,
               \/ WriteTensorData(len)
               \/ \E k \in TornAt : WriteTensorDataErr(len, k)
        PROVE  Stages'
    <3>1. wstate' \in {"open", "panicked", "failed"} /\ UNCHANGED <<plan, tensors>>
      BY <2>3 DEF AfterWriter, WriteTensorData, WriteTensorDataErr, Panic, decl
    <3> QED BY <2>1, <2>3, <3>1, CallStages
  <2> QED BY <2>1, <2>2, <2>3
<1>11. CASE BeginStream
  <2>1. /\ pc = "emit" /\ wstate' \in {"streaming", "panicked"} /\ AfterWriter("stream")
        /\ UNCHANGED <<plan, tensors, disk>>
    BY <1>11 DEF BeginStream, BeginTensor, Panic, AfterWriter, decl
  <2> QED BY <2>1, CallStages
<1>12. CASE StreamChunk
  <2>1. pc = "stream" /\ UNCHANGED <<plan, tensors, disk>>
    BY <1>12 DEF StreamChunk, WriteChunk, WriteChunkErr, EndTensor, EndTensorErr, AfterWriter,
                decl
  <2>2. \/ wstate' \in {"streaming", "failed"} /\ AfterWriter("stream")
        \/ wstate' \in {"open", "failed"} /\ AfterWriter("emit")
    BY <1>12 DEF StreamChunk, WriteChunk, WriteChunkErr, EndTensor, EndTensorErr
  <2> QED BY <2>1, <2>2, CallStages
<1>13. CASE FinishFile
  <2>1. /\ pc = "emit" /\ UNCHANGED <<plan, tensors, disk>> /\ AfterWriter("sync")
        /\ wstate' \in {"finished", "failed", "panicked"} /\ next_tensor' = Len(plan)
    BY <1>13 DEF FinishFile, Finish, Panic, AfterWriter, decl, data
  <2> QED BY <2>1, CallStages
<1>14. CASE Sync
  BY <1>14 DEF Sync, Writing, Ends, wvars, decl, data
<1> QED BY <1>1, <1>2, <1>3, <1>4, <1>5, <1>6, <1>7, <1>8, <1>9, <1>10, <1>11, <1>12,
           <1>13, <1>14 DEF Next, Run

\* Tensors are declared in the order of the plan.
LEMMA DeclaresStep ==
  ASSUME PInv, [Next]_vars
  PROVE  Declares'
<1> USE DEF PInv
<1>1. CASE Open \/ PlanQuant \/ PlanStandard
  <2>1. tensors = <<>> /\ tensors' = <<>>
    BY <1>1, PlanningStep DEF Stages, wvars, decl
  <2>2. Len(tensors') = 0 /\ DOMAIN tensors' = {}
    BY <2>1, EmptySeq
  <2>3. plan' \in Seq(Planned)
    <3>1. PlanInv'
      BY PlanStep
    <3> QED BY <3>1 DEF PlanInv
  <2>4. Len(plan') >= 0
    BY <2>3, LenProperties
  <2> QED BY <2>2, <2>4 DEF Declares
<1>2. CASE UNCHANGED <<plan, tensors>>
  BY <1>2 DEF Declares
<1>3. CASE DeclareTensor
  <2> DEFINE n == Len(tensors) + 1
             t == [name |-> plan[n].name, nbytes |-> plan[n].nbytes]
  <2>1. CASE Len(tensors) < Len(plan) /\ AddTensorInfo(plan[n].name, plan[n].nbytes) /\ ~Panic
             /\ AfterWriter("kvs")
    <3>1. /\ tensors' = Append(tensors, t) /\ plan' = plan
          /\ \A i \in DOMAIN tensors : tensors[i].name # plan[n].name
      BY <2>1 DEF AddTensorInfo, AfterWriter
    <3>2. t \in Tensor
      <4>1. n \in DOMAIN plan
        BY <2>1, Facts
      <4>2. plan[n].name \in Names /\ plan[n].nbytes \in Sizes
        BY <4>1, Facts DEF Planned
      <4> QED BY <4>2 DEF Tensor
    <3>3. /\ Len(tensors') = n /\ DOMAIN tensors' = 1..n /\ tensors'[n] = t
          /\ \A i \in 1..Len(tensors) : tensors'[i] = tensors[i]
      <4> HIDE DEF t
      <4> QED BY <3>1, <3>2, Facts, Appended
    <3>4. \A i \in 1..n : i = n \/ i \in DOMAIN tensors
      BY Facts
    <3>5. Len(tensors') <= Len(plan')
      BY <2>1, <3>1, <3>3, Facts
    <3>6. \A i \in DOMAIN tensors' :
             tensors'[i].name = plan'[i].name /\ tensors'[i].nbytes = plan'[i].nbytes
      BY <3>1, <3>3, <3>4, Facts, SMTT(30) DEF Declares
    <3> HIDE DEF n
    <3>7. \A i, j \in DOMAIN tensors' : tensors'[i].name = tensors'[j].name => i = j
      <4> SUFFICES ASSUME NEW i \in DOMAIN tensors', NEW j \in DOMAIN tensors',
                          tensors'[i].name = tensors'[j].name
                   PROVE  i = j
        OBVIOUS
      <4>1. i \in DOMAIN tensors /\ j \in DOMAIN tensors => i = j
        BY <3>3, Facts DEF Declares
      <4>2. t.name = plan[n].name
        OBVIOUS
      <4> HIDE DEF t
      <4>3. i = n /\ j \in DOMAIN tensors => FALSE
        BY <3>1, <3>3, <4>2, Facts
      <4>4. j = n /\ i \in DOMAIN tensors => FALSE
        BY <3>1, <3>3, <4>2, Facts
      <4> QED BY <3>3, <3>4, <4>1, <4>3, <4>4
    <3> QED BY <3>5, <3>6, <3>7 DEF Declares
  <2>2. CASE Panic /\ plan' = plan
    BY <1>2, <2>2 DEF Panic, decl
  <2>3. CASE BeginHeader /\ plan' = plan
    BY <1>2, <2>3 DEF BeginHeader, Panic, decl
  <2> QED BY <1>3, <2>1, <2>2, <2>3 DEF DeclareTensor, AfterWriter
<1>4. CASE EmitTensor
  <2>1. UNCHANGED <<plan, tensors>>
    BY <1>4, EmitTensorCases DEF Fail, Abort, AfterWriter, WriteTensorData, WriteTensorDataErr,
                                 Panic, wvars, decl
  <2> QED BY <1>2, <2>1
<1>5. CASE ~EmitTensor /\ ~DeclareTensor /\ ~Open /\ ~PlanQuant /\ ~PlanStandard
  <2>1. plan' = plan
    BY <1>5, Settled
  <2>2. tensors' = tensors
    BY <1>5 DEF Next, Run, EndPhaseA, SkipConsumed, EndPhaseB, Create, DeclareKv, Header, CheckPerm,
                BeginStream, StreamChunk, FinishFile, Sync, IoErr, Crash, Fail, Abort, vars, wvars,
                decl, New, AddKv, EncodeInfo, EmitHeader, EmitHeaderErr, BeginTensor,
                WriteChunk, WriteChunkErr, EndTensor, EndTensorErr, Finish, Panic
  <2> QED BY <1>2, <2>1, <2>2
<1> QED BY <1>1, <1>3, <1>4, <1>5

\* Each tensor that is started has its heads noted.
LEMMA HeadsGrow ==
  ASSUME PInv, Orders, job' = job, plan' = plan, pc = "emit", next_tensor < Len(plan),
         NEW src, src = plan[next_tensor + 1].src, heads' = Append(heads, HeadsOf(src)),
         pc' = "panicked" \/ next_tensor' = next_tensor + 1
  PROVE  Orders'
<1> DEFINE H == {HeadsOf(s) : s \in QuantKinds \cup PlainSources}
           n == Len(heads) + 1
<1>1. heads \in Seq(H) /\ Len(heads) = next_tensor /\ next_tensor \in Nat /\ Len(plan) \in Nat
  BY Facts DEF Orders
<1>2. HeadsOf(src) \in H
  <2>1. next_tensor + 1 \in DOMAIN plan
    BY Facts
  <2>2. src \in QuantKinds \cup PlainSources
    BY <2>1, Facts DEF Planned
  <2> QED BY <2>2
<1>3. \A s : HeadsOf(s)' = HeadsOf(s)
  BY DEF HeadsOf, topo, perm48
<1>4. H' = H
  BY <1>3
<1> HIDE DEF H
<1>5. /\ heads' \in Seq(H) /\ Len(heads') = n /\ DOMAIN heads' = 1..n
      /\ heads'[n] = HeadsOf(src)
      /\ \A i \in 1..Len(heads) : heads'[i] = heads[i]
  BY <1>1, <1>2, Appended
<1>6. \A i \in DOMAIN heads' : heads'[i] = HeadsOf(plan[i].src)
  <2> SUFFICES ASSUME NEW i \in DOMAIN heads'
               PROVE  heads'[i] = HeadsOf(plan[i].src)
    OBVIOUS
  <2>1. CASE i = n
    BY <1>1, <1>5, <2>1
  <2>2. CASE i # n
    <3>1. i \in DOMAIN heads
      <4>1. DOMAIN heads = 1..Len(heads)
        BY <1>1, LenProperties
      <4> QED BY <1>1, <1>5, <2>2, <4>1
    <3>2. heads[i] = HeadsOf(plan[i].src)
      BY <3>1 DEF Orders
    <3>3. i \in 1..Len(heads)
      BY <1>1, <1>5, <2>2
    <3> QED BY <1>5, <3>2, <3>3
  <2> QED BY <2>1, <2>2
<1>7. Len(heads') <= Len(plan') /\ (pc' # "panicked" => Len(heads') = next_tensor')
  BY <1>1, <1>5
<1>8. heads' \in Seq({HeadsOf(s) : s \in QuantKinds \cup PlainSources}')
  BY <1>4, <1>5 DEF H
<1>9. \A i \in DOMAIN heads' : heads'[i] = HeadsOf(plan[i].src)'
  BY <1>3, <1>6
<1> QED BY <1>7, <1>8, <1>9 DEF Orders

\* Each step keeps the orders of the heads that were used.
LEMMA OrdersStep ==
  ASSUME PInv, Orders, [Next]_vars, job' = job
  PROVE  Orders'
<1>1. \A s : HeadsOf(s)' = HeadsOf(s)
  BY DEF HeadsOf, topo, perm48
<1>2. CASE Open \/ PlanQuant \/ PlanStandard
  <2>1. heads = <<>> /\ heads' = <<>> /\ next_tensor' = next_tensor
    BY <1>2, PlanningStep DEF PInv, Stages, wvars, data
  <2>2. Len(heads) = 0 /\ Len(heads') = 0 /\ DOMAIN heads' = {}
        /\ heads' \in Seq({HeadsOf(s) : s \in QuantKinds \cup PlainSources}')
    BY <2>1, EmptySeq
  <2>3. pc # "panicked"
    BY <1>2, PlanningStep
  <2>4. Len(plan') >= 0
    <3>1. plan' \in Seq(Planned)
      BY PlanStep DEF PlanInv, PInv
    <3> QED BY <3>1, LenProperties
  <2> QED BY <2>1, <2>2, <2>3, <2>4 DEF Orders
<1>3. CASE EmitTensor
  <2>1. /\ pc = "emit" /\ next_tensor < Len(plan)
        /\ \/ GivesUp
           \/ \E len : /\ \/ WriteTensorData(len)
                          \/ \E k \in TornAt : WriteTensorDataErr(len, k)
                       /\ AfterWriter("emit")
                       /\ heads' = Append(heads, HeadsOf(plan[next_tensor + 1].src))
    BY <1>3, EmitTensorCases, FailGivesUp DEF EmitTensor, PInv
  <2>2. CASE GivesUp
    BY <1>1, <2>1, <2>2 DEF GivesUp, Orders, wvars, data
  <2>3. ASSUME NEW len, AfterWriter("emit"),
               heads' = Append(heads, HeadsOf(plan[next_tensor + 1].src)),
               \/ WriteTensorData(len)
               \/ \E k \in TornAt : WriteTensorDataErr(len, k)
        PROVE  Orders'
    <3>1. pc' = "panicked" \/ next_tensor' = next_tensor + 1
      BY <2>3 DEF WriteTensorData, WriteTensorDataErr, Panic, AfterWriter
    <3>2. plan' = plan
      BY <2>3 DEF AfterWriter
    <3> QED BY <2>1, <2>3, <3>1, <3>2, HeadsGrow
  <2> QED BY <2>1, <2>2, <2>3
<1>4. CASE BeginStream
  <2>1. /\ pc = "emit" /\ next_tensor < Len(plan) /\ plan' = plan
        /\ heads' = Append(heads, HeadsOf(plan[next_tensor + 1].src))
        /\ pc' = "panicked" \/ next_tensor' = next_tensor + 1
    BY <1>4 DEF BeginStream, BeginTensor, Panic, AfterWriter
  <2> QED BY <2>1, HeadsGrow
<1>5. CASE UNCHANGED vars
  BY <1>1, <1>5 DEF Orders, vars, xvars, wvars, data
<1>6. CASE /\ ~EmitTensor /\ ~BeginStream /\ ~Open /\ ~PlanQuant /\ ~PlanStandard
           /\ ~UNCHANGED vars
  <2>1. plan' = plan
    BY <1>6, Settled DEF PInv
  <2>2. heads' = heads /\ next_tensor' = next_tensor /\ pc # "panicked"
    BY <1>6 DEF Next, Run, EndPhaseA, SkipConsumed, EndPhaseB, Create, DeclareKv, DeclareTensor,
                Header, CheckPerm, StreamChunk, FinishFile, Sync, IoErr, Crash, Fail, Abort, wvars,
                data, New, AddKv, AddTensorInfo, BeginHeader, EncodeInfo, EmitHeader, EmitHeaderErr,
                WriteChunk, WriteChunkErr, EndTensor, EndTensorErr, Finish, Panic, Ends
  <2> QED BY <1>1, <2>1, <2>2 DEF Orders
<1> QED BY <1>2, <1>3, <1>4, <1>5, <1>6

-----------------------------------------------------------------------------
(* The invariant, and what follows from it at once.                        *)

\* The invariant holds at first.
LEMMA RemixInit == Init => RInv
<1> SUFFICES ASSUME Init
             PROVE  RInv
  OBVIOUS
<1>1. Inputs /\ PlanInv /\ Progress
  BY PlanInit
<1>2. TInv
  BY TypeInit DEF Init
<1>3. /\ wstate = "none" /\ kvs = <<>> /\ tensors = <<>> /\ heads = <<>> /\ next_tensor = 0
      /\ disk = "old" /\ cause = "none" /\ pc = "open" /\ plan = <<>>
  BY DEF Init, WInit
<1>4. Stages
  BY <1>3 DEF Stages, AtWriter
<1>5. Len(tensors) = 0 /\ DOMAIN tensors = {} /\ Len(plan) = 0 /\ Len(heads) = 0
      /\ DOMAIN heads = {}
  BY <1>3, EmptySeq
<1>6. Declares
  BY <1>5 DEF Declares
<1>7. Orders
  BY <1>3, <1>5, EmptySeq DEF Orders
<1> QED BY <1>1, <1>2, <1>4, <1>6, <1>7 DEF RInv, PInv

\* Each step keeps the invariant.
LEMMA RemixStep == RInv /\ [Next]_vars => RInv'
<1> SUFFICES ASSUME RInv, [Next]_vars
             PROVE  RInv'
  OBVIOUS
<1>1. PInv /\ Orders
  BY DEF RInv
<1>2. TInv'
  BY <1>1, StepOfWriter, TypeStep DEF PInv
<1>3. Inputs' /\ job' = job
  BY <1>1, InputsStep DEF PInv
<1>4. PlanInv' /\ Progress'
  BY <1>1, PlanStep DEF PInv
<1>5. Stages' /\ Declares'
  BY <1>1, StagesStep, DeclaresStep
<1>6. Orders'
  BY <1>1, <1>3, OrdersStep
<1> QED BY <1>2, <1>3, <1>4, <1>5, <1>6 DEF RInv, PInv

\* The invariant on which what follows rests: the plan, its progress, the stages of
\* the writer, the declarations and the orders of heads agree at every step of remix.
THEOREM RemixCorrect == Spec => []RInv
BY RemixInit, RemixStep, PTL DEF Spec

\* Every behaviour of remix is, of the writer's variables, one that the writer's own
\* specification allows.
THEOREM UsesWriter == Spec => WSpec
<1>1. Init => WInit
  BY DEF Init
<1>2. RInv /\ [Next]_vars => [WNext]_wvars
  BY StepOfWriter DEF RInv
<1> QED BY <1>1, <1>2, RemixCorrect, PTL DEF Spec, WSpec

\* In every state of every run the writer's types, the order of the stages, and
\* the numbers of tensors started and of heads noted agree: XTypeOK.
THEOREM RemixTypeCorrect == Spec => []XTypeOK
<1>1. RInv => XTypeOK
  <2> SUFFICES ASSUME RInv
               PROVE  XTypeOK
    OBVIOUS
  <2>1. TypeOK /\ consumed \subseteq DOMAIN model_tensors
    BY DEF RInv, PInv, TInv, PlanInv
  <2>2. pc \in {"open", "phaseA", "phaseB", "create", "kvs", "header", "perm", "emit",
                "stream", "sync"} \cup Ends
    BY DEF RInv, PInv, Stages, Writing
  <2>3. (pc # "panicked" => Len(heads) = next_tensor) /\ (disk = "old" => wstate = "none")
    BY DEF RInv, PInv, Stages, Orders
  <2> QED BY <2>1, <2>2, <2>3 DEF XTypeOK
<1> QED BY <1>1, RemixCorrect, PTL

\* Whatever is wrong with a checkpoint's names, types and shapes, it is found out
\* before the output is created: OldFileSpared.
THEOREM OldFileSparedCorrect == Spec => []OldFileSpared
<1>1. RInv => OldFileSpared
  <2> SUFFICES ASSUME RInv, disk # "old"
               PROVE  /\ \A i \in DOMAIN model_tensors :
                            i \in consumed \/ \E j \in DOMAIN plan : plan[j].tensor = i
                      /\ cause \notin {"missing scales", "not I32", "not BF16", "cannot map",
                                       "unknown mtp tensor", "dtype routing mismatch"}
    BY DEF OldFileSpared
  <2>1. Covered(Len(model_tensors)) /\ DOMAIN model_tensors = 1..Len(model_tensors)
    BY Facts DEF RInv, PInv, Progress, Whole
  <2>2. cause \in {"none", "io", "unsupported metadata", "scales shape"}
    BY DEF RInv, PInv, Stages
  <2> QED BY <2>1, <2>2 DEF Covered
<1> QED BY <1>1, RemixCorrect, PTL

-----------------------------------------------------------------------------
(* Where the data lands.  A streamed slice of the wrong length displaces     *)
(* what follows it, so the writer's invariant holds up to the first one; what *)
(* was in place before that stays there.                                   *)

Fits(n) == \A i \in 1..n : ~Misfit(i)

\* Data follows the header, and the header an open writer.
Begun == /\ next_tensor > 0 => header_written
         /\ header_written => wstate \notin {"none", "encoding"}

\* No call of the writer moves what has landed, but for the tensor being streamed.
LEMMA WriterKeeps ==
  ASSUME TInv, Begun, [WNext]_wvars
  PROVE  /\ Begun' /\ next_tensor \in Nat
         /\ \/ next_tensor' = next_tensor
            \/ next_tensor' = next_tensor + 1 /\ wstate = "open"
         /\ next_tensor > 0 => UNCHANGED <<tensors, infos, hdr_len>>
         /\ \A i \in 1..next_tensor :
              i < next_tensor \/ wstate = "open"
                => i \in DOMAIN placed /\ i \in DOMAIN placed' /\ placed'[i] = placed[i]
<1> DEFINE Kept == \A i \in 1..next_tensor :
                     i < next_tensor \/ wstate = "open"
                       => i \in DOMAIN placed /\ i \in DOMAIN placed' /\ placed'[i] = placed[i]
           Goal == /\ Begun'
                   /\ \/ next_tensor' = next_tensor
                      \/ next_tensor' = next_tensor + 1 /\ wstate = "open"
                   /\ next_tensor > 0 => UNCHANGED <<tensors, infos, hdr_len>>
                   /\ Kept
<1>1. /\ placed \in Seq(Landing) /\ Len(placed) = next_tensor /\ next_tensor \in Nat
      /\ DOMAIN placed = 1..next_tensor /\ file_len \in Nat
      /\ wstate = "streaming" => next_tensor \in DOMAIN placed
  <2>1. placed \in Seq(Landing) /\ Len(placed) = next_tensor /\ file_len \in Nat
        /\ (wstate = "streaming" => next_tensor \in DOMAIN placed)
    BY DEF TInv, TypeOK, Started
  <2> QED BY <2>1, LenProperties
<1>2. placed' = placed => Kept
  BY <1>1
<1>3. CASE UNCHANGED wvars
  BY <1>1, <1>2, <1>3 DEF wvars, decl, head, data, Begun
<1>4. CASE Panic /\ wstate = "open"
  BY <1>1, <1>2, <1>4 DEF Panic, decl, head, data, Begun
<1>5. CASE Declare
  BY <1>1, <1>2, <1>4, <1>5 DEF Declare, New, AddKv, AddTensorInfo, decl, head, data, Begun
<1>6. CASE WriteHeader
  BY <1>1, <1>2, <1>4, <1>6 DEF WriteHeader, BeginHeader, EncodeInfo, EmitHeader, EmitHeaderErr,
                               decl, head, data, Begun
<1>7. CASE Finish
  BY <1>1, <1>2, <1>4, <1>7 DEF Finish, decl, head, data, Begun
<1>8. ASSUME NEW l \in Landing, placed' = Append(placed, l), next_tensor' = next_tensor + 1,
             UNCHANGED <<decl, head>>, wstate = "open", header_written,
             wstate' \in {"open", "failed", "streaming"}
      PROVE  Goal
  <2>1. /\ \A i \in 1..next_tensor : placed'[i] = placed[i]
        /\ DOMAIN placed' = 1..(next_tensor + 1)
    BY <1>1, <1>8, Appended
  <2>2. Kept
    BY <1>1, <2>1
  <2> QED BY <1>8, <2>2 DEF Begun, decl, head
<1>9. ASSUME NEW n \in Nat, placed' = Landed(n), wstate = "streaming", next_tensor' = next_tensor,
             UNCHANGED <<decl, head>>, wstate' \in {"streaming", "failed"}
      PROVE  Goal
  <2>1. /\ \A i \in DOMAIN placed : i # next_tensor => placed'[i] = placed[i]
        /\ DOMAIN placed' = DOMAIN placed
    <3>1. Landed(n) \in Seq(Landing) /\ Len(Landed(n)) = Len(placed)
          /\ \A i \in DOMAIN placed :
               Landed(n)[i] = IF i = next_tensor
                              THEN [pos |-> placed[i].pos, len |-> placed[i].len + n]
                              ELSE placed[i]
      BY <1>1, <1>9, LandedShape
    <3>2. DOMAIN Landed(n) = 1..Len(placed)
      BY <3>1, LenProperties
    <3> QED BY <1>1, <1>9, <3>1, <3>2
  <2>2. Kept
    BY <1>1, <1>9, <2>1
  <2> QED BY <1>9, <2>2 DEF Begun, decl, head
<1>10. CASE Stream
  <2>1. ASSUME NEW len \in Sizes, WriteTensorData(len), ~Panic
        PROVE  Goal
    <3>1. [pos |-> file_len, len |-> len] \in Landing
      BY <1>1, WriterAssumption DEF Landing
    <3> QED BY <1>8, <2>1, <3>1 DEF WriteTensorData, Accepts, CanStart
  <2>2. ASSUME NEW len \in Sizes, NEW k \in TornAt, WriteTensorDataErr(len, k)
        PROVE  Goal
    <3> DEFINE got == IF k < len THEN k ELSE len
    <3>1. got \in Nat
      BY WriterAssumption
    <3> HIDE DEF got
    <3>2. [pos |-> file_len, len |-> got] \in Landing
      BY <1>1, <3>1 DEF Landing
    <3> QED BY <1>8, <2>2, <3>2 DEF WriteTensorDataErr, Accepts, CanStart, got
  <2>3. ASSUME NEW src \in Sizes, BeginTensor(src), ~Panic
        PROVE  Goal
    <3>1. [pos |-> file_len, len |-> 0] \in Landing
      BY <1>1 DEF Landing
    <3> QED BY <1>8, <2>3, <3>1 DEF BeginTensor, CanStart
  <2>4. CASE WriteChunk
    <3>1. Chunk \in Nat
      BY WriterAssumption DEF Chunk, TInv, TypeOK
    <3> QED BY <1>1, <1>9, <2>4, <3>1 DEF WriteChunk
  <2>5. ASSUME NEW k \in TornAt, WriteChunkErr(k)
        PROVE  Goal
    BY <1>9, <2>5, WriterAssumption DEF WriteChunkErr
  <2>6. CASE EndTensor \/ \E k \in TornAt : EndTensorErr(k)
    BY <1>1, <1>2, <2>6 DEF EndTensor, EndTensorErr, decl, head, Begun
  <2>7. Panic => wstate = "open" \/ ~Stream \/ Goal
    BY <2>2, <2>4, <2>5, <2>6 DEF Stream, WriteTensorData, BeginTensor
  <2>8. CASE Panic
    BY <1>1, <1>4, <1>10, <2>7, <2>8
  <2> QED BY <1>1, <1>10, <2>1, <2>2, <2>3, <2>4, <2>5, <2>6, <2>8 DEF Stream
<1> QED BY <1>1, <1>3, <1>5, <1>6, <1>7, <1>10 DEF WNext

\* What is streamed of a slice that fits has the declared length.
LEMMA ExactBegin ==
  ASSUME PInv, [Next]_vars, wstate = "open", wstate' = "streaming", NEW n, n = next_tensor + 1
  PROVE  next_tensor' = n /\ (~Misfit(n) => src_left' = Declared)
<1>1. BeginStream
  <2>1. CASE EmitTensor
    BY <2>1, EmitTensorCases DEF PInv, Fail, Abort, WriteTensorData, WriteTensorDataErr, Panic, wvars
  <2>2. CASE Open \/ PlanQuant \/ PlanStandard
    BY <2>2, PlanningStep DEF wvars
  <2> QED BY <2>1, <2>2 DEF Next, Run, EndPhaseA, SkipConsumed, EndPhaseB, Create, DeclareKv,
             DeclareTensor, Header, CheckPerm, StreamChunk, FinishFile, Sync, IoErr, Crash,
             Fail, Abort, vars, wvars, New, AddKv, AddTensorInfo, BeginHeader, EncodeInfo, EmitHeader,
             EmitHeaderErr, WriteChunk, WriteChunkErr, EndTensor, EndTensorErr, Finish, Panic
<1> DEFINE p == plan[n]
           t == model_tensors[p.tensor]
<1>2. /\ pc = "emit" /\ next_tensor < Len(plan) /\ p.src = "Bf16ToF16"
      /\ next_tensor' = n /\ src_left' = 2 * (t.bytes \div 2)
  BY <1>1 DEF BeginStream, BeginTensor, Panic
<1>3. n \in DOMAIN plan /\ n \in DOMAIN tensors
  <2>1. Len(tensors) = Len(plan)
    BY <1>2 DEF PInv, Stages, AtWriter
  <2> QED BY <1>2, <2>1, Facts
<1>4. PlainEntry(p, p.tensor) /\ p.tensor \in DOMAIN model_tensors
  <2>1. ~QuantEntry(p, p.tensor)
    BY <1>2 DEF QuantEntry, Kind
  <2> QED BY <1>3, <2>1, EntryOf DEF PInv
<1>5. p.nbytes = Product(t.shape) * 2
  <2>1. ~is_f32(p.name, Squeezed(p.src, t.shape))
    BY <1>2, <1>4 DEF PlainEntry, RoutingMismatch, F16Sources
  <2>2. Squeezed(p.src, t.shape) = t.shape
    BY <1>2 DEF Squeezed
  <2> QED BY <1>4, <2>1, <2>2 DEF PlainEntry
<1>6. Declared = p.nbytes
  BY <1>3 DEF PInv, Declares, Declared
<1>7. t.bytes \div 2 \in Nat
  <2>1. t \in Entry
    BY <1>4, Facts DEF Comes
  <2>2. t.bytes \in Nat
    BY <2>1 DEF Entry
  <2> HIDE DEF t
  <2> QED BY <2>2
<1>8. ASSUME ~Misfit(n)
      PROVE  src_left' = Declared
  <2>1. t.bytes \div 2 = Product(t.shape)
    BY <1>2, <1>8 DEF Misfit
  <2> HIDE DEF p, t
  <2> QED BY <1>2, <1>5, <1>6, <1>7, <2>1
<1> QED BY <1>2, <1>8

Lands ==
  /\ Begun
  /\ Fits(next_tensor) => IInv
  /\ \A i \in 1..next_tensor :
        Fits(i) /\ (i < next_tensor \/ wstate \notin {"streaming", "failed"}) => Intact(i)

\* Each step leaves the tensors that are in place where they are.
LEMMA LandsStep ==
  ASSUME PInv, Lands, [Next]_vars
  PROVE  Lands'
<1>1. TInv /\ Begun
  BY DEF PInv, Lands
<1>2. [WNext]_wvars
  BY StepOfWriter
<1>3. /\ Begun' /\ next_tensor \in Nat
      /\ \/ next_tensor' = next_tensor
         \/ next_tensor' = next_tensor + 1 /\ wstate = "open"
      /\ next_tensor > 0 => UNCHANGED <<tensors, infos, hdr_len>>
      /\ \A i \in 1..next_tensor :
           i < next_tensor \/ wstate = "open"
             => i \in DOMAIN placed /\ i \in DOMAIN placed' /\ placed'[i] = placed[i]
  BY <1>1, <1>2, WriterKeeps
<1>4. next_tensor' \in Nat /\ next_tensor <= next_tensor'
  BY <1>3
<1>5. CASE Open \/ PlanQuant \/ PlanStandard
  <2>1. disk = "old" /\ UNCHANGED wvars
    BY <1>5, PlanningStep
  <2>2. next_tensor = 0 /\ next_tensor' = 0
    <3>1. tensors = <<>> /\ next_tensor' = next_tensor
      BY <2>1 DEF PInv, Stages, wvars, data
    <3>2. Len(tensors) = 0
      BY <3>1, EmptySeq
    <3> QED BY <3>1, <3>2, Facts
  <2>3. IInv
    BY <2>2 DEF Lands, Fits
  <2>4. ExactStart
    BY <2>1 DEF ExactStart, wvars
  <2>5. IInv'
    BY <1>2, <2>3, <2>4, ExactStep
  <2> QED BY <1>3, <2>2, <2>5 DEF Lands
<1>6. CASE ~Open /\ ~PlanQuant /\ ~PlanStandard
  <2>1. UNCHANGED <<input, plan>>
    BY <1>6, Settled DEF PInv
  <2>2. /\ \A i : Misfit(i)' = Misfit(i)
        /\ \A i : Fits(i)' = Fits(i)
    BY <2>1 DEF Misfit, Fits, input
  <2>3. ASSUME Fits(next_tensor)'
        PROVE  IInv'
    <3>1. \A j \in 1..next_tensor' : ~Misfit(j)
      <4>1. \A j \in 1..next_tensor' : ~Misfit(j)'
        BY <2>3 DEF Fits
      <4> QED BY <2>2, <4>1
    <3>2. Fits(next_tensor)
      BY <1>3, <1>4, <3>1 DEF Fits
    <3>3. ExactStart
      <4> SUFFICES ASSUME wstate = "open", wstate' = "streaming"
                   PROVE  src_left' = Declared
        BY DEF ExactStart
      <4> DEFINE n == next_tensor + 1
      <4>1. next_tensor' = n /\ (~Misfit(n) => src_left' = Declared)
        BY ExactBegin
      <4>2. n \in 1..next_tensor'
        BY <1>3, <4>1
      <4> QED BY <3>1, <4>1, <4>2
    <3>4. IInv
      BY <3>2 DEF Lands
    <3> QED BY <1>2, <3>3, <3>4, ExactStep
  <2>4. ASSUME NEW i \in 1..next_tensor', Fits(i)',
               i < next_tensor' \/ wstate' \notin {"streaming", "failed"}
        PROVE  Intact(i)'
    <3>1. CASE Fits(next_tensor)'
      <4>1. IInv'
        BY <2>3, <3>1
      <4>2. placed' \in Seq(Landing) /\ Len(placed') = next_tensor'
        BY <4>1 DEF IInv, TInv, TypeOK, Started
      <4>3. i \in DOMAIN placed'
        BY <4>2, LenProperties
      <4> QED BY <2>4, <4>1, <4>3 DEF IInv, Landings, LayoutMatchesHeader, Intact
    <3>2. CASE ~Fits(next_tensor)'
      <4>1. PICK j \in 1..next_tensor' : Misfit(j)
        BY <2>2, <3>2 DEF Fits
      <4>2. \A k \in 1..i : ~Misfit(k)
        BY <2>2, <2>4 DEF Fits
      <4>3. i < j /\ i < next_tensor'
        BY <1>4, <4>1, <4>2
      <4>4. i \in 1..next_tensor /\ (i < next_tensor \/ wstate = "open") /\ next_tensor > 0
        BY <1>3, <4>3
      <4>5. Intact(i)
        <5>1. Fits(i)
          BY <4>2 DEF Fits
        <5> QED BY <4>4, <5>1 DEF Lands
      <4>6. placed'[i] = placed[i] /\ i \in DOMAIN placed'
        BY <1>3, <4>4
      <4>7. UNCHANGED <<tensors, infos, hdr_len>>
        BY <1>3, <4>4
      <4> QED BY <4>5, <4>6, <4>7 DEF Intact, DataStart
    <3> QED BY <3>1, <3>2
  <2>5. \A i \in 1..next_tensor' :
           Fits(i)' /\ (i < next_tensor' \/ wstate' \notin {"streaming", "failed"}) => Intact(i)'
    BY <2>4
  <2> QED BY <1>3, <2>3, <2>5 DEF Lands
<1> QED BY <1>5, <1>6

\* Once remix has said Ok, every tensor is whole and where the header says, up to
\* the first whose slice was not of its shape's length: OkMeansWhole.
THEOREM OkMeansWholeCorrect == Spec => []OkMeansWhole
<1>1. Init => Lands
  <2> SUFFICES ASSUME Init
               PROVE  Lands
    OBVIOUS
  <2>1. IInv
    BY WriterInit DEF Init
  <2>2. next_tensor = 0 /\ ~header_written
    BY DEF Init, WInit
  <2> QED BY <2>1, <2>2 DEF Lands, Begun
<1>2. RInv /\ Lands /\ [Next]_vars => Lands'
  BY LandsStep DEF RInv
<1>3. RInv /\ Lands => OkMeansWhole
  <2> SUFFICES ASSUME RInv, Lands, pc = "ok"
               PROVE  /\ disk = "whole" /\ wstate = "finished" /\ Len(tensors) = Len(plan)
                      /\ \A i \in DOMAIN plan : Intact(i) \/ \E j \in 1..i : Misfit(j)
    BY DEF OkMeansWhole
  <2>1. disk = "whole" /\ wstate = "finished" /\ Len(tensors) = Len(plan)
    BY DEF RInv, PInv, Stages, AtWriter
  <2>2. next_tensor = Len(plan) /\ DOMAIN plan = 1..Len(plan)
    BY Facts DEF RInv, PInv, Stages
  <2>3. ASSUME NEW i \in DOMAIN plan
        PROVE  Intact(i) \/ \E j \in 1..i : Misfit(j)
    BY <2>1, <2>2 DEF Lands, Fits
  <2> QED BY <2>1, <2>3
<1> QED BY <1>1, <1>2, <1>3, RemixCorrect, PTL DEF Spec

-----------------------------------------------------------------------------
(* Blocks.  Both phases put a tensor in the block of its layer.              *)

\* A planned tensor is in the block that its name in the checkpoint tells.
LEMMA InBlock ==
  ASSUME PInv, NEW k \in DOMAIN plan, NEW name, name = model_tensors[plan[k].tensor].name
  PROVE  /\ plan[k].name.blk = BlockOf(name)
         /\ plan[k].tensor \in DOMAIN model_tensors
         /\ name \in Named /\ name.at \in {"layers", "top", "mtp", "mtp.layers"}
         /\ name.blk \in Nat /\ topo.n_layer \in Nat
<1>1. plan[k].tensor \in DOMAIN model_tensors
  BY EntryOf DEF PInv
<1>2. QuantEntry(plan[k], plan[k].tensor) \/ PlainEntry(plan[k], plan[k].tensor)
  BY EntryOf DEF PInv
<1>3. plan[k].name.blk = BlockOf(name)
  BY <1>1, <1>2, QuantEntryType, PlainEntryType DEF PInv
<1>4. model_tensors[plan[k].tensor] \in Entry /\ name.at # "visual"
  BY <1>1, Facts DEF Comes
<1>5. name \in Name
  BY <1>4 DEF Entry
<1>6. name \in Named /\ name.blk \in Nat /\ name.at \in {"layers", "top", "mtp", "mtp.layers"}
  BY <1>4, <1>5, NameNamed DEF Name
<1>7. topo.n_layer \in Nat
  BY Facts DEF topo, Job, Topology
<1> QED BY <1>1, <1>3, <1>6, <1>7

\* If every layer of the checkpoint is one that config.json counts, which remix does
\* not look at (CountedLayers), then the block count in the KV section is above
\* every block of the file: BlocksWithinCount.
THEOREM BlocksWithinCountCorrect == Spec => []BlocksWithinCount
<1>1. RInv => BlocksWithinCount
  <2> SUFFICES ASSUME RInv, CountedLayers, NEW i \in DOMAIN plan
               PROVE  plan[i].name.blk < block_count
    BY DEF BlocksWithinCount
  <2> DEFINE name == model_tensors[plan[i].tensor].name
  <2>1. /\ plan[i].name.blk = BlockOf(name)
        /\ plan[i].tensor \in DOMAIN model_tensors
        /\ name.at \in {"layers", "top", "mtp", "mtp.layers"}
        /\ name.blk \in Nat /\ topo.n_layer \in Nat
    BY InBlock DEF RInv
  <2>2. job.mtp \in Nat
    BY Facts DEF RInv, Job
  <2>3. /\ name.at = "layers" => name.blk < topo.n_layer
        /\ name.at = "mtp.layers" => name.blk < job.mtp
        /\ name.at = "mtp" => job.mtp > 0
    BY <2>1 DEF CountedLayers
  <2> HIDE DEF name
  <2> QED BY <2>1, <2>2, <2>3 DEF BlockOf, block_count
<1> QED BY <1>1, RemixCorrect, PTL

\* Tensors of a regular checkpoint share a block of the file exactly if they shared
\* a layer, the MTP head's layers being behind the trunk's: LayersKeptApart.
THEOREM LayersKeptApartCorrect == Spec => []LayersKeptApart
<1>1. RInv => LayersKeptApart
  <2> SUFFICES ASSUME RInv, Regular, NEW i \in DOMAIN plan, NEW j \in DOMAIN plan
               PROVE  plan[i].name.blk = plan[j].name.blk
                        <=> LayerOf(model_tensors[plan[i].tensor].name)
                              = LayerOf(model_tensors[plan[j].tensor].name)
    BY DEF LayersKeptApart
  <2> DEFINE a == model_tensors[plan[i].tensor].name
             b == model_tensors[plan[j].tensor].name
  <2>1. /\ plan[i].name.blk = BlockOf(a)
        /\ plan[i].tensor \in DOMAIN model_tensors
        /\ a.at \in {"layers", "top", "mtp", "mtp.layers"}
        /\ a.blk \in Nat /\ topo.n_layer \in Nat
    BY InBlock DEF RInv
  <2>2. /\ plan[j].name.blk = BlockOf(b)
        /\ plan[j].tensor \in DOMAIN model_tensors
        /\ b.at \in {"layers", "top", "mtp", "mtp.layers"}
        /\ b.blk \in Nat
    BY InBlock DEF RInv
  <2>3. /\ a.at = "layers" => a.blk < topo.n_layer
        /\ b.at = "layers" => b.blk < topo.n_layer
    BY <2>1, <2>2 DEF Regular
  <2> HIDE DEF a, b
  <2>4. BlockOf(a) = BlockOf(b) <=> LayerOf(a) = LayerOf(b)
    <3>1. CASE a.at = b.at
      BY <2>1, <2>2, <2>3, <3>1 DEF BlockOf, LayerOf
    <3>2. CASE a.at # b.at
      BY <2>1, <2>2, <2>3, <3>2 DEF BlockOf, LayerOf
    <3> QED BY <3>1, <3>2
  <2> QED BY <2>1, <2>2, <2>4 DEF a, b
<1> QED BY <1>1, RemixCorrect, PTL

-----------------------------------------------------------------------------
(* Nothing is lost and nothing doubled.                                      *)

\* In a finished file the names are those of the plan, each once.
LEMMA Finished ==
  ASSUME PInv, pc = "ok"
  PROVE  /\ Quants <= Len(plan) /\ consumed = Taken(Quants)
         /\ Covered(Len(model_tensors)) /\ HeadsDivide
         /\ \A j, k \in DOMAIN plan : plan[j].name = plan[k].name => j = k
<1>1. Whole
  BY DEF PInv, Progress
<1>2. Len(tensors) = Len(plan) /\ DOMAIN tensors = DOMAIN plan
  BY Facts DEF PInv, Stages, AtWriter
<1>3. \A j, k \in DOMAIN plan : plan[j].name = plan[k].name => j = k
  BY <1>2 DEF PInv, Declares
<1> QED BY <1>1, <1>3 DEF Whole

\* What a quantized module takes is named like its .qweight.
LEMMA CompanionOf ==
  ASSUME PInv, NEW i, i \in consumed, consumed = Taken(Quants)
  PROVE  \E k \in 1..Quants, s \in SplitSuffixes :
            /\ qweight_order[k] \in DOMAIN model_tensors
            /\ i = idx_of([model_tensors[qweight_order[k]].name EXCEPT !.suf = s])
            /\ model_tensors[i].name
                 = [model_tensors[qweight_order[k]].name EXCEPT !.suf = s]
            /\ model_tensors[i].name.suf = s
<1>1. PICK k \in 1..Quants : i \in Companions(model_tensors[qweight_order[k]].name)
  BY DEF Taken
<1>2. k \in DOMAIN qweight_order
  BY InputTypes DEF Quants, PInv
<1> DEFINE n == model_tensors[qweight_order[k]].name
<1>3. qweight_order[k] \in DOMAIN model_tensors /\ n \in Named
  <2>1. qweight_order[k] \in DOMAIN model_tensors
    BY <1>2, InputTypes DEF PInv
  <2>2. model_tensors[qweight_order[k]] \in Entry
    BY <2>1, Facts DEF Comes
  <2> QED BY <2>1, <2>2, NameNamed DEF Entry
<1> HIDE DEF n
<1>4. PICK s \in SplitSuffixes : i = idx_of([n EXCEPT !.suf = s]) /\ i # 0
  BY <1>1 DEF Companions, SplitSuffixes, n
<1>5. model_tensors[i].name = [n EXCEPT !.suf = s]
  BY <1>4, IdxOf DEF PInv
<1>6. [n EXCEPT !.suf = s].suf = s
  BY <1>3 DEF Named
<1> QED BY <1>3, <1>4, <1>5, <1>6 DEF n

\* The suffixes of what the phases plan.
LEMMA SuffixOf ==
  ASSUME PInv, NEW k \in DOMAIN plan
  PROVE  /\ plan[k].tensor \in DOMAIN model_tensors /\ k \in Nat /\ Quants \in Nat
         /\ k <= Quants =>
              /\ k \in DOMAIN qweight_order /\ plan[k].tensor = qweight_order[k]
              /\ model_tensors[plan[k].tensor].name.suf = ".qweight"
              /\ plan[k].name = QuantName(model_tensors[plan[k].tensor].name)
              /\ plan[k].scales
                   = idx_of([model_tensors[plan[k].tensor].name EXCEPT !.suf = ".scales"])
              /\ model_tensors[plan[k].scales].name
                   = [model_tensors[plan[k].tensor].name EXCEPT !.suf = ".scales"]
              /\ model_tensors[plan[k].scales].name.suf = ".scales"
         /\ ~(k <= Quants) =>
              /\ model_tensors[plan[k].tensor].name.suf \in {".weight", ".bias", ""}
              /\ plan[k].scales = 0
<1> DEFINE i == plan[k].tensor
           n == model_tensors[i].name
<1>1. /\ i \in DOMAIN model_tensors /\ k \in Nat /\ Quants \in Nat
      /\ k <= Quants => k \in DOMAIN qweight_order /\ i = qweight_order[k]
                        /\ QuantEntry(plan[k], i)
      /\ ~(k <= Quants) => PlainEntry(plan[k], i)
  BY EntryOf DEF PInv
<1>2. ASSUME k <= Quants
      PROVE  /\ n.suf = ".qweight" /\ plan[k].name = QuantName(n)
             /\ plan[k].scales = idx_of([n EXCEPT !.suf = ".scales"])
             /\ model_tensors[plan[k].scales].name = [n EXCEPT !.suf = ".scales"]
             /\ model_tensors[plan[k].scales].name.suf = ".scales"
  <2>1. n.suf = ".qweight"
    BY <1>1, <1>2, InputTypes DEF PInv
  <2>2. /\ plan[k].scales = idx_of([n EXCEPT !.suf = ".scales"]) /\ plan[k].scales # 0
        /\ plan[k].name = QuantName(n)
    BY <1>1, <1>2 DEF QuantEntry
  <2>3. n \in Named
    <3>1. model_tensors[i] \in Entry
      BY <1>1, Facts DEF Comes
    <3> QED BY <3>1, NameNamed DEF Entry
  <2> HIDE DEF n
  <2>4. model_tensors[plan[k].scales].name = [n EXCEPT !.suf = ".scales"]
    BY <2>2, IdxOf DEF PInv
  <2>5. [n EXCEPT !.suf = ".scales"].suf = ".scales"
    BY <2>3 DEF Named
  <2> QED BY <2>1, <2>2, <2>4, <2>5
<1>3. ASSUME ~(k <= Quants)
      PROVE  n.suf \in {".weight", ".bias", ""} /\ plan[k].scales = 0
  BY <1>1, <1>3, PlainEntryType DEF PInv, PlainEntry
<1> QED BY <1>1, <1>2, <1>3

\* The entries of the plan that read a tensor.
Users(i) == {j \in DOMAIN plan : i \in {plan[j].tensor, plan[j].scales}}

\* A set of one element counts one.
LEMMA OneUser ==
  ASSUME NEW S, NEW k, S = {k}
  PROVE  Cardinality(S) = 1
BY FS_Singleton

\* A .qweight is the data of its module and of nothing else.
LEMMA QweightOnce ==
  ASSUME PInv, pc = "ok", NEW i \in DOMAIN model_tensors,
         model_tensors[i].name.suf = ".qweight"
  PROVE  \E k : Users(i) = {k}
<1>1. PICK k \in DOMAIN qweight_order : qweight_order[k] = i
  BY InputTypes DEF PInv
<1>2. k \in DOMAIN plan /\ k <= Quants
  BY <1>1, Finished, Facts, InputTypes DEF Quants, PInv
<1>3. plan[k].tensor = i
  BY <1>1, <1>2, SuffixOf
<1>4. ASSUME NEW j \in Users(i)
      PROVE  j = k
  <2>1. j \in DOMAIN plan /\ (plan[j].tensor = i \/ plan[j].scales = i)
    BY <1>4 DEF Users
  <2>2. i # 0
    BY InputTypes DEF PInv
  <2>3. plan[j].scales # i
    BY <2>1, <2>2, SuffixOf
  <2>4. j <= Quants
    BY <2>1, <2>3, SuffixOf
  <2>5. j \in DOMAIN qweight_order /\ qweight_order[j] = i
    BY <2>1, <2>3, <2>4, SuffixOf
  <2> QED BY <1>1, <2>5, InputTypes DEF PInv
<1>5. k \in Users(i)
  BY <1>2, <1>3 DEF Users
<1> QED BY <1>4, <1>5

\* A .scales is the scales of one module: two modules that shared it would have
\* one name.
LEMMA ScalesOnce ==
  ASSUME PInv, pc = "ok", NEW i \in DOMAIN model_tensors,
         model_tensors[i].name.suf = ".scales"
  PROVE  \E k : Users(i) = {k}
<1>1. i \in consumed
  <2>1. i \in consumed \/ \E k \in DOMAIN plan : plan[k].tensor = i
    BY Finished, Facts DEF Covered
  <2>2. \A k \in DOMAIN plan : plan[k].tensor # i
    BY SuffixOf
  <2> QED BY <2>1, <2>2
<1>2. PICK k \in 1..Quants, s \in SplitSuffixes :
        /\ qweight_order[k] \in DOMAIN model_tensors
        /\ i = idx_of([model_tensors[qweight_order[k]].name EXCEPT !.suf = s])
        /\ model_tensors[i].name
             = [model_tensors[qweight_order[k]].name EXCEPT !.suf = s]
        /\ model_tensors[i].name.suf = s
  BY <1>1, Finished, CompanionOf
<1>3. k \in DOMAIN plan /\ k <= Quants
  BY <1>2, Finished, Facts, InputTypes DEF Quants, PInv
<1>4. plan[k].tensor = qweight_order[k] /\ plan[k].scales = i
  <2>1. /\ plan[k].tensor = qweight_order[k]
        /\ plan[k].scales = idx_of([model_tensors[plan[k].tensor].name EXCEPT !.suf = ".scales"])
    BY <1>3, SuffixOf, Zenon
  <2>2. s = ".scales"
    BY <1>2
  <2> QED BY <1>2, <2>1, <2>2
<1>5. ASSUME NEW j \in Users(i)
      PROVE  j = k
  <2> DEFINE a == model_tensors[plan[j].tensor].name
             b == model_tensors[plan[k].tensor].name
  <2>1. j \in DOMAIN plan /\ (plan[j].tensor = i \/ plan[j].scales = i) /\ i # 0
    BY <1>5, InputTypes DEF Users, PInv
  <2>2. plan[j].tensor # i
    BY <2>1, SuffixOf
  <2>3. j <= Quants
    BY <2>1, <2>2, SuffixOf
  <2>4. /\ model_tensors[i].name = [a EXCEPT !.suf = ".scales"]
        /\ a.suf = ".qweight" /\ plan[j].name = QuantName(a)
    BY <2>1, <2>2, <2>3, SuffixOf
  <2>5. /\ model_tensors[i].name = [b EXCEPT !.suf = ".scales"]
        /\ b.suf = ".qweight" /\ plan[k].name = QuantName(b)
    BY <1>3, <1>4, SuffixOf
  <2>6. a \in Named /\ b \in Named
    BY <1>3, <2>1, InBlock
  <2> HIDE DEF a, b
  <2>7. a = b
    <3>1. [a EXCEPT !.suf = ".scales"] = [b EXCEPT !.suf = ".scales"]
      BY <2>4, <2>5
    <3>2. /\ a.at = b.at /\ a.blk = b.blk /\ a.tail = b.tail /\ a.lang = b.lang
      <4>1. \A x \in Named : /\ [x EXCEPT !.suf = ".scales"].at = x.at
                             /\ [x EXCEPT !.suf = ".scales"].blk = x.blk
                             /\ [x EXCEPT !.suf = ".scales"].tail = x.tail
                             /\ [x EXCEPT !.suf = ".scales"].lang = x.lang
        BY DEF Named
      <4> QED BY <2>6, <3>1, <4>1
    <3> QED BY <2>4, <2>5, <2>6, <3>2 DEF Named
  <2> QED BY <1>3, <2>1, <2>4, <2>5, <2>7, Finished
<1>6. k \in Users(i)
  BY <1>3, <1>4 DEF Users
<1> QED BY <1>5, <1>6

\* What is not part of a quantized module is the data of one tensor.
LEMMA PlainOnce ==
  ASSUME PInv, pc = "ok", NEW i \in DOMAIN model_tensors,
         model_tensors[i].name.suf \notin SplitSuffixes
  PROVE  \E k : Users(i) = {k}
<1>1. i \notin consumed
  <2> SUFFICES ASSUME i \in consumed
               PROVE  FALSE
    OBVIOUS
  <2>1. \E k \in 1..Quants, s \in SplitSuffixes : model_tensors[i].name.suf = s
    BY Finished, CompanionOf
  <2> QED BY <2>1
<1>2. PICK k \in DOMAIN plan : plan[k].tensor = i
  BY <1>1, Finished, Facts DEF Covered
<1>3. ~(k <= Quants)
  BY <1>2, SuffixOf DEF SplitSuffixes
<1>4. ASSUME NEW j \in Users(i)
      PROVE  j = k
  <2>1. j \in DOMAIN plan /\ (plan[j].tensor = i \/ plan[j].scales = i) /\ i # 0
    BY <1>4, InputTypes DEF Users, PInv
  <2>2. ".scales" \in SplitSuffixes /\ ".qweight" \in SplitSuffixes
    BY DEF SplitSuffixes
  <2>3. ~(j <= Quants) /\ plan[j].scales # i
    <3>1. CASE j <= Quants
      <4>1. /\ model_tensors[plan[j].tensor].name.suf = ".qweight"
            /\ model_tensors[plan[j].scales].name.suf = ".scales"
        BY <2>1, <3>1, SuffixOf
      <4> QED BY <2>1, <2>2, <4>1
    <3>2. CASE ~(j <= Quants)
      BY <2>1, <3>2, SuffixOf
    <3> QED BY <3>1, <3>2
  <2>4. j \in Nat /\ k \in Nat /\ Quants \in Nat /\ i \in Nat
    <3>1. j \in Nat /\ k \in Nat /\ Quants \in Nat
      BY <1>2, <2>1, SuffixOf
    <3> QED BY <3>1, InputTypes DEF PInv
  <2>5. ~(j < k) /\ ~(k < j)
    BY <1>2, <1>3, <2>1, <2>3, <2>4 DEF PInv, PlanInv
  <2> QED BY <2>4, <2>5
<1>5. k \in Users(i)
  BY <1>2 DEF Users
<1> QED BY <1>4, <1>5

\* What phase A drops, it drops with a module that is in the file.
LEMMA DroppedWithModule ==
  ASSUME PInv, pc = "ok", NEW i \in DOMAIN model_tensors, NEW name,
         name = model_tensors[i].name, name.suf \in {".qzeros", ".g_idx"}
  PROVE  /\ Users(i) = {}
         /\ \E j \in DOMAIN plan : Module(model_tensors[plan[j].tensor].name) = Module(name)
<1>1. \A j \in DOMAIN plan : plan[j].tensor # i /\ plan[j].scales # i
  <2> SUFFICES ASSUME NEW j \in DOMAIN plan
               PROVE  plan[j].tensor # i /\ plan[j].scales # i
    OBVIOUS
  <2>1. i # 0
    BY InputTypes DEF PInv
  <2>2. CASE j <= Quants
    <3>1. /\ model_tensors[plan[j].tensor].name.suf = ".qweight"
          /\ model_tensors[plan[j].scales].name.suf = ".scales"
      BY <2>2, SuffixOf, Zenon
    <3> QED BY <3>1
  <2>3. CASE ~(j <= Quants)
    <3>1. /\ model_tensors[plan[j].tensor].name.suf \in {".weight", ".bias", ""}
          /\ plan[j].scales = 0
      BY <2>3, SuffixOf, Zenon
    <3> QED BY <2>1, <3>1
  <2> QED BY <2>2, <2>3
<1>2. i \in consumed
  BY <1>1, Finished, Facts DEF Covered
<1>3. PICK k \in 1..Quants, s \in SplitSuffixes :
        /\ qweight_order[k] \in DOMAIN model_tensors
        /\ i = idx_of([model_tensors[qweight_order[k]].name EXCEPT !.suf = s])
        /\ model_tensors[i].name
             = [model_tensors[qweight_order[k]].name EXCEPT !.suf = s]
        /\ model_tensors[i].name.suf = s
  BY <1>2, Finished, CompanionOf
<1> DEFINE n == model_tensors[plan[k].tensor].name
<1>4. k \in DOMAIN plan /\ k <= Quants
  BY <1>3, Finished, Facts, InputTypes DEF Quants, PInv
<1>5. plan[k].tensor = qweight_order[k] /\ n.suf = ".qweight"
  BY <1>4, SuffixOf
<1>6. n \in Named
  BY <1>4, InBlock
<1>7. name = [n EXCEPT !.suf = s] /\ name.suf = s
  BY <1>3, <1>5
<1> HIDE DEF n
<1>8. Module(n) = [n EXCEPT !.suf = ".weight"]
  BY <1>5, <1>6 DEF Module, SplitSuffixes, Named
<1>9. Module(name) = [n EXCEPT !.suf = ".weight"]
  <2>1. Module(name) = [name EXCEPT !.suf = ".weight"]
    BY <1>7 DEF Module
  <2> QED BY <1>6, <1>7, <2>1 DEF Named
<1>10. Users(i) = {}
  BY <1>1 DEF Users
<1> QED BY <1>4, <1>8, <1>9, <1>10 DEF n

\* In a finished file no tensor of the checkpoint is missing or doubled:
\* EachTensorOnce.
THEOREM EachTensorOnceCorrect == Spec => []EachTensorOnce
<1>1. RInv => EachTensorOnce
  <2> SUFFICES ASSUME RInv, pc = "ok", NEW i \in DOMAIN model_tensors
               PROVE  IF model_tensors[i].name.suf \in {".qzeros", ".g_idx"}
                      THEN /\ Users(i) = {}
                           /\ \E j \in DOMAIN plan :
                                 Module(model_tensors[plan[j].tensor].name)
                                   = Module(model_tensors[i].name)
                      ELSE Cardinality(Users(i)) = 1
    BY DEF EachTensorOnce, Users
  <2>1. PInv
    BY DEF RInv
  <2>2. CASE model_tensors[i].name.suf \in {".qzeros", ".g_idx"}
    BY <2>1, <2>2, DroppedWithModule
  <2>3. CASE model_tensors[i].name.suf \notin {".qzeros", ".g_idx"}
    <3>1. PICK k : Users(i) = {k}
      BY <2>1, <2>3, QweightOnce, ScalesOnce, PlainOnce DEF SplitSuffixes
    <3> QED BY <2>3, <3>1, OneUser
  <2> QED BY <2>2, <2>3
<1> QED BY <1>1, RemixCorrect, PTL

-----------------------------------------------------------------------------
(* One order of the V heads.  A permutation of rows, of columns and of whole *)
(* heads moves the heads alike.                                            *)

\* Where the grouped V head of position p is in the checkpoint.
GroupedHead(topology, p) ==
  (p % topology.num_k) * (topology.num_v \div topology.num_k) + p \div topology.num_k

\* Where v_reorder_perm takes the first element of the head at a position.
LEMMA HeadOfPosition ==
  ASSUME NEW t \in Topology, t.num_k > 0, NEW h \in Nat \ {0}, NEW p \in Indices(t.num_v)
  PROVE  /\ p * h \in Indices(t.num_v * h) /\ p * h \in Nat
         /\ v_reorder_perm(t.num_k, t.num_v, h)[p * h] = GroupedHead(t, p) * h
         /\ (GroupedHead(t, p) * h) \div h = GroupedHead(t, p)
         /\ GroupedHead(t, p) * h \in Nat
<1> DEFINE k == t.num_k
           v == t.num_v
           x == GroupedHead(t, p)
<1>1. k \in Nat \ {0} /\ v \in Nat /\ p \in Nat /\ p < v
  BY DEF Topology, Indices
<1>2. v \div k \in Nat /\ p \div k \in Nat /\ p % k \in Nat
  BY <1>1
<1>3. x \in Nat
  <2> HIDE DEF k, v
  <2>1. \A a, b, c \in Nat : a * b + c \in Nat
    OBVIOUS
  <2>2. x = (p % k) * (v \div k) + p \div k
    BY DEF GroupedHead, k, v
  <2> QED BY <1>2, <2>1, <2>2
<1> HIDE DEF k, v, x
<1>4. p * h \in Nat /\ p * h < v * h /\ v * h \in Nat
  <2>1. PICK e \in Nat : v = p + 1 + e
    <3>1. v - p - 1 \in Nat /\ v = p + 1 + (v - p - 1)
      BY <1>1
    <3> QED BY <3>1
  <2>2. v * h = p * h + h + e * h /\ e * h \in Nat /\ p * h \in Nat
    BY <1>1, <2>1
  <2> QED BY <2>2
<1>5. p * h \in Indices(v * h)
  BY <1>4 DEF Indices
<1>6. (p * h) \div (k * h) = p \div k /\ (p * h) \div h = p /\ (p * h) % h = 0
  BY <1>1, ScaledDivision
<1>7. (x * h) \div h = x /\ x * h \in Nat
  BY <1>1, <1>3, ScaledDivision
<1>8. v_reorder_perm(k, v, h)[p * h] = ((p % k) * (v \div k) + p \div k) * h + 0
  BY <1>5, <1>6, Zenon DEF v_reorder_perm
<1>9. v_reorder_perm(k, v, h)[p * h] = x * h
  <2>1. x = (p % k) * (v \div k) + p \div k
    BY DEF GroupedHead, k, v, x
  <2> QED BY <1>7, <1>8, <2>1
<1> QED BY <1>4, <1>5, <1>7, <1>9 DEF k, v, x

\* The sources whose emission moves V heads.
VSources == {"Bf16ToF16RowPerm", "F32NegExp", "F32PlainPerm", "F32Conv1d",
             "QuantVRowQkv", "QuantVRowZ", "QuantVCol"}

\* They all move them alike.
LEMMA SameHeads ==
  ASSUME topo \in Topology, topo.num_k > 0, NEW src \in VSources
  PROVE  HeadsOf(src) = [p \in Indices(topo.num_v) |-> GroupedHead(topo, p)]
<1> DEFINE at_p(p) ==
      CASE src \in {"Bf16ToF16RowPerm", "F32NegExp", "F32PlainPerm"} -> perm48[p]
        [] src \in {"QuantVRowZ", "QuantVCol"} ->
             perm_v(topo)[p * topo.head_v] \div topo.head_v
        [] src \in {"QuantVRowQkv", "F32Conv1d"} ->
             (full_perm_qkv(topo)[qk_rows(topo) + p * topo.head_v] - qk_rows(topo))
               \div topo.head_v
        [] OTHER -> p
<1>1. HeadsOf(src) = [p \in Indices(topo.num_v) |-> at_p(p)]
  BY Zenon DEF HeadsOf
<1>2. ASSUME NEW p \in Indices(topo.num_v)
      PROVE  at_p(p) = GroupedHead(topo, p)
  <2> DEFINE h == topo.head_v
             qk == qk_rows(topo)
             x == GroupedHead(topo, p)
  <2>1. h \in Nat \ {0} /\ qk \in Nat /\ topo.num_v \in Nat /\ p \in Nat
    <3>1. /\ topo.head_v \in Nat \ {0} /\ topo.head_k \in Nat /\ topo.num_k \in Nat
          /\ topo.num_v \in Nat
      BY DEF Topology
    <3>2. \A a, b \in Nat : a * b * 2 \in Nat
      OBVIOUS
    <3> QED BY <3>1, <3>2 DEF qk_rows, Indices
  <2>2. perm48[p] = x
    <3>1. perm48[p * 1] = x * 1 /\ x * 1 \in Nat /\ (x * 1) \div 1 = x
      BY HeadOfPosition DEF perm48
    <3>2. x \in Nat
      <4>1. \A a \in Nat : a \div 1 \in Nat
        OBVIOUS
      <4> QED BY <3>1, <4>1
    <3> HIDE DEF x
    <3>3. p * 1 = p /\ x * 1 = x
      BY <2>1, <3>2
    <3> QED BY <3>1, <3>3
  <2>3. /\ p * h \in Indices(topo.num_v * h) /\ p * h \in Nat
        /\ perm_v(topo)[p * h] = x * h
        /\ (x * h) \div h = x /\ x * h \in Nat
    BY <2>1, HeadOfPosition DEF perm_v
  <2>4. full_perm_qkv(topo)[qk + p * h] - qk = x * h
    <3> DEFINE n == qk + p * h
               m == p * h
               y == x * h
    <3>1. n \in Indices(qk + topo.num_v * h)
      <4> DEFINE w == topo.num_v * h
      <4>1. m \in Nat /\ m \in Indices(w) /\ w \in Nat
        <5>1. \A a, b \in Nat : a * b \in Nat
          OBVIOUS
        <5> QED BY <2>1, <2>3, <5>1
      <4> HIDE DEF m, w, qk
      <4> QED BY <2>1, <4>1 DEF Indices, m, w
    <3>2. full_perm_qkv(topo)[n] = IF n < qk THEN n ELSE qk + perm_v(topo)[n - qk]
      BY <3>1, Zenon DEF full_perm_qkv
    <3>3. m \in Nat /\ y \in Nat /\ perm_v(topo)[m] = y
      BY <2>3
    <3> HIDE DEF m, y, qk
    <3>4. n = qk + m
      BY DEF m
    <3>5. n - qk = m /\ ~(n < qk) /\ (qk + y) - qk = y
      BY <2>1, <3>3, <3>4
    <3>6. full_perm_qkv(topo)[n] - qk = y
      BY <3>2, <3>3, <3>5
    <3> QED BY <3>6 DEF y
  <2>5. CASE src \in {"Bf16ToF16RowPerm", "F32NegExp", "F32PlainPerm"}
    BY <2>2, <2>5
  <2>6. CASE src \in {"QuantVRowZ", "QuantVCol"}
    BY <2>3, <2>6
  <2>7. CASE src \in {"QuantVRowQkv", "F32Conv1d"}
    BY <2>3, <2>4, <2>7
  <2> QED BY <2>5, <2>6, <2>7 DEF VSources
<1> HIDE DEF at_p
<1> QED BY <1>1, <1>2

\* The family's quantized projections and plain gates have such a source.
LEMMA VSourceOf ==
  ASSUME PInv, NEW k \in DOMAIN plan, NEW name, name = model_tensors[plan[k].tensor].name,
         HasVHeads(name),
         name.tail \in VProjections => name.suf \in SplitSuffixes,
         name.tail \in VGates => name.suf \notin SplitSuffixes
  PROVE  plan[k].src \in VSources
<1> DEFINE i == plan[k].tensor
           t == model_tensors[i]
<1>1. /\ i \in DOMAIN model_tensors /\ k \in Nat /\ Quants \in Nat
      /\ k <= Quants => QuantEntry(plan[k], i) /\ name.suf = ".qweight"
      /\ ~(k <= Quants) => PlainEntry(plan[k], i) /\ name.suf \in {".weight", ".bias", ""}
  BY EntryOf, SuffixOf DEF PInv
<1>2. name \in Named /\ name.at # "visual" /\ job \in Job
  BY InBlock, Facts DEF PInv
<1>3. CASE name.tail \in VProjections
  <2>1. name.suf = ".qweight"
    BY <1>3 DEF HasVHeads, SplitSuffixes, VProjections, VGates, DtBias
  <2>2. plan[k].src = Kind(name)
    BY <1>1, <2>1 DEF QuantEntry
  <2> QED BY <1>3, <2>2 DEF Kind, VProjections, VSources
<1>4. CASE name.tail \notin VProjections
  <2>1. \/ name.tail \in VGates /\ name.suf = ".weight"
        \/ name.tail \in {"linear_attn.A_log", DtBias} /\ name.suf = ""
    BY <1>4 DEF HasVHeads, SplitSuffixes
  <2>2. PlainEntry(plan[k], i)
    BY <1>1, <2>1
  <2>3. plan[k].src = SourceOf(remap_mtp(name), t.shape) /\ ~UnknownMtp(name)
    BY <2>2 DEF PlainEntry
  <2>4. name.tail \notin DOMAIN MtpMap
    BY <2>1 DEF VGates, DtBias, MtpMap
  <2>5. name.at # "mtp"
    BY <2>3, <2>4 DEF UnknownMtp
  <2> DEFINE r == remap_mtp(name)
  <2>6. r.tail = name.tail /\ r.suf = name.suf
    BY <1>2, <2>3, <2>5, Renamed
  <2> HIDE DEF r, t
  <2>7. plan[k].src = SourceOf(r, t.shape)
    BY <2>3 DEF r
  <2>8. SourceOf(r, t.shape)
          \in {"Bf16ToF16RowPerm", "F32NegExp", "F32PlainPerm", "F32Conv1d"}
    BY <2>1, <2>6 DEF SourceOf, VGates, GatedInputs, DtBias, NormTails
  <2> QED BY <2>7, <2>8 DEF VSources
<1> QED BY <1>3, <1>4

\* Quantized projections, plain gates, decay and convolution of a layer come out
\* with their V heads in one order, for every topology: VHeadsAgreeIfQuantized.
THEOREM VHeadsAgreeCorrect == Spec => []VHeadsAgreeIfQuantized
<1>1. RInv => VHeadsAgreeIfQuantized
  <2> SUFFICES ASSUME RInv, pc = "ok",
                      \A i \in DOMAIN model_tensors :
                         LET name == model_tensors[i].name
                         IN  /\ name.tail \in VProjections => name.suf \in SplitSuffixes
                             /\ name.tail \in VGates => name.suf \notin SplitSuffixes,
                      NEW i \in DOMAIN plan, NEW j \in DOMAIN plan,
                      HasVHeads(model_tensors[plan[i].tensor].name),
                      HasVHeads(model_tensors[plan[j].tensor].name)
               PROVE  heads[i] = heads[j]
    BY DEF VHeadsAgreeIfQuantized, VHeadsAgree
  <2>1. PInv /\ Orders /\ HeadsDivide
    BY Finished DEF RInv
  <2>2. topo \in Topology /\ topo.num_k > 0
    BY <2>1, Facts DEF topo, Job, HeadsDivide
  <2>3. DOMAIN heads = DOMAIN plan
    <3>1. Len(heads) = next_tensor /\ next_tensor = Len(plan)
      BY <2>1 DEF Orders, PInv, Stages
    <3>2. DOMAIN heads = 1..Len(heads) /\ DOMAIN plan = 1..Len(plan)
      BY <2>1, Facts, LenProperties DEF Orders
    <3> QED BY <3>1, <3>2
  <2>4. ASSUME NEW k \in DOMAIN plan, HasVHeads(model_tensors[plan[k].tensor].name)
        PROVE  heads[k] = [p \in Indices(topo.num_v) |-> GroupedHead(topo, p)]
    <3>1. plan[k].tensor \in DOMAIN model_tensors
      BY <2>1, InBlock
    <3>2. plan[k].src \in VSources
      BY <2>1, <2>4, <3>1, VSourceOf
    <3>3. heads[k] = HeadsOf(plan[k].src)
      BY <2>1, <2>3 DEF Orders
    <3> QED BY <2>2, <3>2, <3>3, SameHeads
  <2> QED BY <2>4
<1> QED BY <1>1, RemixCorrect, PTL

-----------------------------------------------------------------------------
(* Regular checkpoints convert: the tables of names.                         *)

\* The table of a layer has one row for each tail, and one for each name.
LEMMA OneRow ==
  ASSUME NEW r \in LayerTable, NEW s \in LayerTable
  PROVE  r[1] = s[1] <=> r[2] = s[2]
BY DEF LayerTable

\* The map of a layer reads its table.
LEMMA LayerMapIs ==
  /\ \A r \in LayerTable : r[1] \in DOMAIN LayerMap /\ LayerMap[r[1]] = r[2]
  /\ \A t \in DOMAIN LayerMap : \E r \in LayerTable : r[1] = t /\ LayerMap[t] = r[2]
<1>1. ASSUME NEW r \in LayerTable
      PROVE  r[1] \in DOMAIN LayerMap /\ LayerMap[r[1]] = r[2]
  <2> DEFINE c == CHOOSE row \in LayerTable : row[1] = r[1]
  <2>1. c \in LayerTable /\ c[1] = r[1]
    BY <1>1
  <2>2. LayerMap[r[1]] = c[2]
    BY <1>1, Zenon DEF LayerMap
  <2> HIDE DEF c
  <2>3. c[2] = r[2]
    BY <2>1, OneRow
  <2>4. r[1] \in DOMAIN LayerMap
    BY <1>1, Zenon DEF LayerMap
  <2> QED BY <2>2, <2>3, <2>4, Zenon
<1>2. ASSUME NEW t \in DOMAIN LayerMap
      PROVE  \E r \in LayerTable : r[1] = t
  BY Zenon DEF LayerMap
<1> QED BY <1>1, <1>2, Zenon

\* No two tails have one name, in a layer, outside of the layers, or in the MTP head.
LEMMA NamesApart ==
  /\ \A s, t \in DOMAIN LayerMap : LayerMap[s] = LayerMap[t] => s = t
  /\ \A s, t \in DOMAIN TopMap : TopMap[s] = TopMap[t] => s = t
  /\ \A s, t \in DOMAIN MtpMap : MtpMap[s] = MtpMap[t] => s = t
  /\ \A s \in DOMAIN MtpMap : MtpMap[s] \in DOMAIN LayerMap /\ MtpMap[s] \notin LayerTails
  /\ LayerTails \subseteq DOMAIN LayerMap
  /\ DtBias \notin DOMAIN LayerMap
  /\ {"linear_attn.dt_proj", "linear_attn.A_log", "linear_attn.conv1d"} \subseteq LayerTails
<1>1. \A s, t \in DOMAIN LayerMap : LayerMap[s] = LayerMap[t] => s = t
  BY LayerMapIs, OneRow
<1>2. \A s, t \in DOMAIN TopMap : TopMap[s] = TopMap[t] => s = t
  BY DEF TopMap
<1>3. \A s, t \in DOMAIN MtpMap : MtpMap[s] = MtpMap[t] => s = t
  BY DEF MtpMap
<1>4. \A s \in DOMAIN MtpMap : MtpMap[s] \in DOMAIN LayerMap
  BY LayerMapIs DEF MtpMap, LayerTable
<1>5. \A s \in DOMAIN MtpMap : MtpMap[s] \notin LayerTails
  BY DEF LayerTails, Range
<1>6. DtBias \notin DOMAIN LayerMap
  BY LayerMapIs DEF DtBias, LayerTable
<1>7. {"linear_attn.dt_proj", "linear_attn.A_log", "linear_attn.conv1d"} \subseteq LayerTails
  <2>1. {"linear_attn.dt_proj", "linear_attn.A_log", "linear_attn.conv1d"} \subseteq DOMAIN LayerMap
    BY LayerMapIs DEF LayerTable
  <2>2. \A s \in Range(MtpMap) : s \in {"eh_proj", "enorm", "hnorm", "shared_head.norm"}
    BY DEF MtpMap, Range
  <2> QED BY <2>1, <2>2 DEF LayerTails
<1> QED BY <1>1, <1>2, <1>3, <1>4, <1>5, <1>6, <1>7 DEF LayerTails

\* The tails whose names have a type of their own.
LEMMA NamesOfNorms ==
  /\ \A t \in DOMAIN LayerMap : LayerMap[t] \in NormOut => t \in NormTails
  /\ \A t \in DOMAIN TopMap : TopMap[t] \in NormOut => t \in NormTails
  /\ \A t \in DOMAIN LayerMap : LayerMap[t] = "ssm_conv1d" <=> t = "linear_attn.conv1d"
  /\ \A t \in DOMAIN TopMap : TopMap[t] # "ssm_conv1d"
<1>1. \A r \in LayerTable : r[2] \in NormOut => r[1] \in NormTails
  BY DEF LayerTable, NormOut, NormTails
<1>2. \A r \in LayerTable : r[2] = "ssm_conv1d" <=> r[1] = "linear_attn.conv1d"
  BY DEF LayerTable
<1>3. \A t \in DOMAIN TopMap : TopMap[t] \in NormOut => t \in NormTails
  BY DEF TopMap, NormOut, NormTails
<1>4. \A t \in DOMAIN TopMap : TopMap[t] # "ssm_conv1d"
  BY DEF TopMap
<1> QED BY <1>1, <1>2, <1>3, <1>4, LayerMapIs

-----------------------------------------------------------------------------
(* Regular checkpoints convert: the shapes.                                  *)

\* The product of the dimensions, for the numbers of dimensions that occur.
LEMMA ProductIs ==
  ASSUME NEW shape \in Seq(Nat), Len(shape) \in 1..3
  PROVE  /\ shape[1] \in Nat
         /\ Len(shape) >= 2 => shape[2] \in Nat
         /\ Len(shape) = 3 => shape[3] \in Nat
         /\ Product(shape) \in Nat
         /\ Len(shape) = 1 => Product(shape) = shape[1]
         /\ Len(shape) = 2 => Product(shape) = shape[1] * shape[2]
         /\ Len(shape) = 3 => Product(shape) = shape[1] * shape[2] * shape[3]
<1> DEFINE L == Len(shape)
           Def(f) == f = [n \in 0..L |-> IF n = 0 THEN 1 ELSE f[n - 1] * shape[n]]
           u == CHOOSE f : Def(f)
           f0 == [n \in 0..L |-> IF n = 0 THEN 1
                                 ELSE IF n = 1 THEN 1 * shape[1]
                                 ELSE IF n = 2 THEN 1 * shape[1] * shape[2]
                                 ELSE 1 * shape[1] * shape[2] * shape[3]]
<1>1. shape \in [1..L -> Nat] /\ L \in 1..3
  BY LenProperties
<1>2. f0 = [n \in 0..L |-> IF n = 0 THEN 1 ELSE f0[n - 1] * shape[n]]
  <2>1. ASSUME NEW n \in 0..L
        PROVE  f0[n] = IF n = 0 THEN 1 ELSE f0[n - 1] * shape[n]
    <3>1. CASE n = 0
      BY <3>1
    <3>2. CASE n = 1
      <4>1. f0[0] = 1 /\ f0[1] = 1 * shape[1]
        BY <1>1, <3>2
      <4> QED BY <3>2, <4>1
    <3>3. CASE n = 2
      <4>1. f0[1] = 1 * shape[1] /\ f0[2] = 1 * shape[1] * shape[2]
        BY <1>1, <3>3
      <4> QED BY <3>3, <4>1
    <3>4. CASE n = 3
      <4>1. f0[2] = 1 * shape[1] * shape[2] /\ f0[3] = 1 * shape[1] * shape[2] * shape[3]
        BY <1>1, <3>4
      <4> QED BY <3>4, <4>1
    <3>5. n \in {0, 1, 2, 3}
      BY <1>1
    <3> QED BY <3>1, <3>2, <3>3, <3>4, <3>5, Zenon
  <2> QED BY <2>1, Zenon
<1>3. Def(u)
  <2>1. Def(f0)
    BY <1>2, Zenon
  <2> HIDE DEF Def, f0
  <2> QED BY <2>1, Zenon
<1>4. Product(shape) = u[L]
  BY Zenon DEF Product
<1>5. u = [n \in 0..L |-> IF n = 0 THEN 1 ELSE u[n - 1] * shape[n]]
  BY <1>3, Zenon
<1> HIDE DEF u
<1>6. \A n \in 0..L : u[n] = IF n = 0 THEN 1 ELSE u[n - 1] * shape[n]
  BY <1>5, Zenon
<1> HIDE DEF L
<1>7. u[0] = 1 /\ u[1] = u[0] * shape[1]
  BY <1>1, <1>6
<1>8. L >= 2 => u[2] = u[1] * shape[2]
  BY <1>1, <1>6
<1>9. L >= 3 => u[3] = u[2] * shape[3]
  <2> SUFFICES ASSUME L >= 3 PROVE u[3] = u[2] * shape[3]
    OBVIOUS
  <2>1. 3 \in 0..L /\ 3 # 0 /\ 3 - 1 = 2
    BY <1>1
  <2>2. u[3] = IF 3 = 0 THEN 1 ELSE u[3 - 1] * shape[3]
    BY <1>6, <2>1, Zenon
  <2> QED BY <2>1, <2>2
<1>10. shape[1] \in Nat /\ (L >= 2 => shape[2] \in Nat) /\ (L = 3 => shape[3] \in Nat)
  BY <1>1
<1>11. u[1] = shape[1]
  BY <1>7, <1>10
<1>12. L >= 2 => u[2] = shape[1] * shape[2] /\ u[2] \in Nat
  <2>1. \A a, b \in Nat : a * b \in Nat
    OBVIOUS
  <2> QED BY <1>8, <1>10, <1>11, <2>1
<1>13. L = 3 => u[3] = shape[1] * shape[2] * shape[3] /\ u[3] \in Nat
  <2>1. \A a, b \in Nat : a * b \in Nat
    OBVIOUS
  <2>2. L = 3 => u[3] = u[2] * shape[3] /\ u[2] = shape[1] * shape[2] /\ u[2] \in Nat
    BY <1>9, <1>12
  <2> QED BY <1>10, <2>1, <2>2
<1>14. /\ L = 1 => Product(shape) = shape[1]
       /\ L = 2 => Product(shape) = shape[1] * shape[2]
       /\ L = 3 => Product(shape) = shape[1] * shape[2] * shape[3]
       /\ Product(shape) \in Nat
  <2>1. L = 1 \/ L = 2 \/ L = 3
    BY <1>1
  <2>2. L = 2 => u[2] = shape[1] * shape[2] /\ u[2] \in Nat
    BY <1>12
  <2> QED BY <1>4, <1>10, <1>11, <1>13, <2>1, <2>2, Zenon
<1> QED BY <1>10, <1>14, Zenon DEF L

\* What RegularPlain says of a tensor, of its name after plan_standard's renaming.
Routed(name, shape) ==
  /\ \/ name.at = "top" /\ name.tail \in DOMAIN TopMap
     \/ name.at = "layers" /\ name.tail \in DOMAIN LayerMap \cup {DtBias}
  /\ name.suf = IF name.tail \in {"linear_attn.A_log", DtBias} THEN "" ELSE ".weight"
  /\ name.tail \in GatedInputs => Len(shape) = 2 /\ shape[1] = topo.num_v
  /\ name.tail \in {"linear_attn.A_log", DtBias} => shape = <<topo.num_v>>
  /\ name.tail = "linear_attn.conv1d" => /\ Len(shape) = 3 /\ shape[2] = 1
                                        /\ shape[1] = qk_rows(topo) + VDim
  /\ name.tail \in NormTails => Len(shape) = 1
  /\ name.tail \notin GatedInputs \cup NormTails
                     \cup {"linear_attn.A_log", DtBias, "linear_attn.conv1d"} => Len(shape) = 2

\* The shape of a tensor is what its route indexes.
FitsSource(src, shape) ==
  /\ Len(shape) \in 1..3 /\ HasDims(src, shape)
  /\ src = "Bf16ToF16RowPerm" => Len(shape) = 2 /\ shape[1] = topo.num_v
  /\ src \in {"F32NegExp", "F32PlainPerm"} => shape = <<topo.num_v>>
  /\ src = "F32Conv1d" => /\ Len(shape) = 3 /\ shape[2] = 1
                          /\ shape[1] = qk_rows(topo) + VDim

\* The check of the route passes if the two sides agree on F32.
LEMMA Mismatch ==
  ASSUME NEW src, NEW g, NEW sq
  PROVE  /\ is_f32(g, sq) /\ src \notin F16Sources => ~RoutingMismatch(src, g, sq)
         /\ ~is_f32(g, sq) /\ src \in F16Sources => ~RoutingMismatch(src, g, sq)
<1> DEFINE f == src \in F16Sources
<1>1. ASSUME is_f32(g, sq), ~f
      PROVE  ~RoutingMismatch(src, g, sq)
  <2>1. is_f32(g, sq) = TRUE
    BY <1>1, Zenon DEF is_f32
  <2> HIDE DEF f
  <2>2. f # TRUE
    BY <1>1, Zenon
  <2>3. RoutingMismatch(src, g, sq) <=> f = TRUE
    BY <2>1, Zenon DEF RoutingMismatch, f
  <2> QED BY <2>2, <2>3, Zenon
<1>2. ASSUME ~is_f32(g, sq), f
      PROVE  ~RoutingMismatch(src, g, sq)
  <2>1. is_f32(g, sq) = FALSE
    BY <1>2, Zenon DEF is_f32
  <2>2. f # FALSE
    BY <1>2, Zenon
  <2>3. RoutingMismatch(src, g, sq) <=> f = FALSE
    BY <2>1, Zenon DEF RoutingMismatch, f
  <2> QED BY <2>2, <2>3, Zenon
<1> QED BY <1>1, <1>2, Zenon

\* The name it gets has the type of its route.
LEMMA RouteAgrees ==
  ASSUME NEW name \in Named, NEW shape \in Seq(Nat), Routed(name, shape),
         NEW src, src = SourceOf(name, shape),
         NEW sq, sq = Squeezed(src, shape),
         NEW o, o = out_name(name), NEW g, g = map_with_suffix(o)
  PROVE  /\ g # NoName /\ FitsSource(src, shape) /\ ~RoutingMismatch(src, g, sq)
         /\ is_f32(g, sq) <=> src \notin F16Sources
         /\ o.at = name.at /\ o.blk = name.blk
         /\ o.tail = IF name.tail = DtBias THEN "linear_attn.dt_proj" ELSE name.tail
         /\ o.suf = IF name.tail = DtBias THEN ".bias" ELSE name.suf
<1> DEFINE tail == name.tail
<1>0. tail = DtBias => name.at = "layers"
  BY DEF Routed, DtBias, TopMap
<1>1. tail # DtBias => o = name
  BY DEF out_name
<1>2. tail = DtBias => /\ o = [name EXCEPT !.tail = "linear_attn.dt_proj", !.suf = ".bias"]
                       /\ o.at = "layers" /\ o.blk = name.blk
                       /\ o.tail = "linear_attn.dt_proj" /\ o.suf = ".bias"
  <2>1. tail = DtBias => name.suf = ""
    BY DEF Routed
  <2> QED BY <1>0, <2>1 DEF out_name, Named
<1>3. /\ g.blk # -2 /\ g.suf = o.suf
      /\ g.tail = IF o.at = "layers" THEN LayerMap[o.tail] ELSE TopMap[o.tail]
      /\ \/ o.at = "top" /\ o.tail \in DOMAIN TopMap
         \/ o.at = "layers" /\ o.tail \in DOMAIN LayerMap
  <2>1. o.suf \in {".weight", ".bias", ""}
    BY <1>1, <1>2 DEF Routed
  <2>2. \/ o.at = "top" /\ o.tail \in DOMAIN TopMap
        \/ o.at = "layers" /\ o.tail \in DOMAIN LayerMap
    BY <1>1, <1>2, NamesApart DEF Routed
  <2>3. o.blk \in Nat
    BY <1>1, <1>2 DEF Named
  <2>4. g = IF o.at = "top"
            THEN [blk |-> -1, tail |-> TopMap[o.tail], suf |-> o.suf]
            ELSE [blk |-> o.blk, tail |-> LayerMap[o.tail], suf |-> o.suf]
    BY <2>1, <2>2 DEF map_with_suffix
  <2>5. /\ g.suf = o.suf /\ g.blk = IF o.at = "top" THEN -1 ELSE o.blk
        /\ g.tail = IF o.at = "layers" THEN LayerMap[o.tail] ELSE TopMap[o.tail]
    BY <2>2, <2>4
  <2>6. g.blk # -2
    BY <2>3, <2>5
  <2> QED BY <2>2, <2>5, <2>6, Zenon
<1>4. g # NoName
  <2>1. NoName.blk = -2
    BY DEF NoName
  <2> QED BY <1>3, <2>1, Zenon
<1>5. g.tail \in NormOut => tail \in NormTails \/ tail = DtBias
  BY <1>1, <1>2, <1>3, NamesOfNorms
<1>6. g.tail = "ssm_conv1d" <=> tail = "linear_attn.conv1d"
  <2>1. "linear_attn.dt_proj" # "linear_attn.conv1d" /\ DtBias # "linear_attn.conv1d"
    BY DEF DtBias
  <2>2. name.at = "top" => tail # "linear_attn.conv1d"
    BY DEF Routed, TopMap
  <2> QED BY <1>1, <1>2, <1>3, <2>1, <2>2, NamesOfNorms
<1>7. g.suf = IF tail = DtBias THEN ".bias" ELSE name.suf
  BY <1>1, <1>2, <1>3
<1>8. /\ o.at = name.at /\ o.blk = name.blk
      /\ o.tail = IF tail = DtBias THEN "linear_attn.dt_proj" ELSE tail
      /\ o.suf = IF tail = DtBias THEN ".bias" ELSE name.suf
  <2>1. CASE tail = DtBias
    BY <1>0, <1>2, <2>1
  <2>2. CASE tail # DtBias
    <3>1. o = name
      BY <1>1, <2>2, Zenon
    <3> QED BY <2>2, <3>1, Zenon
  <2> QED BY <2>1, <2>2, Zenon
<1>9. CASE tail \in GatedInputs
  <2>1. name.suf = ".weight" /\ Len(shape) = 2 /\ shape[1] = topo.num_v
    BY <1>9 DEF Routed, DtBias, GatedInputs
  <2>2. src = "Bf16ToF16RowPerm" /\ sq = shape
    BY <1>9, <2>1 DEF SourceOf, GatedInputs, NormTails, DtBias, Squeezed
  <2>3. ~is_f32(g, sq)
    BY <1>5, <1>6, <1>7, <1>9, <2>1, <2>2 DEF is_f32, NormTails, DtBias, GatedInputs
  <2>4. FitsSource(src, shape)
    BY <2>1, <2>2 DEF FitsSource, HasDims
  <2>5. src \in F16Sources
    BY <2>2 DEF F16Sources
  <2> QED BY <1>4, <1>8, <2>3, <2>4, <2>5, Mismatch, Zenon
<1>10. CASE tail \in {"linear_attn.A_log", DtBias}
  <2>1. name.suf = "" /\ shape = <<topo.num_v>> /\ Len(shape) = 1
    BY <1>10 DEF Routed, DtBias
  <2>2. src \in {"F32NegExp", "F32PlainPerm"} /\ sq = shape
    BY <1>10, <2>1 DEF SourceOf, GatedInputs, DtBias, Squeezed
  <2>3. is_f32(g, sq)
    <3>1. Len(sq) = 1
      BY <2>1, <2>2, Zenon
    <3>2. 1 <= 1
      OBVIOUS
    <3> QED BY <3>1, <3>2, Zenon DEF is_f32
  <2>4. FitsSource(src, shape)
    <3>1. Len(shape) \in 1..3
      <4>1. Len(shape) = 1
        BY <2>1, Zenon
      <4>2. 1 \in 1..3
        OBVIOUS
      <4> QED BY <4>1, <4>2, Zenon
    <3>2. HasDims(src, shape)
      BY <2>2 DEF HasDims
    <3> QED BY <2>1, <2>2, <3>1, <3>2 DEF FitsSource
  <2>5. src \notin F16Sources
    BY <2>2 DEF F16Sources
  <2> QED BY <1>4, <1>8, <2>3, <2>4, <2>5, Mismatch, Zenon
<1>11. CASE tail = "linear_attn.conv1d"
  <2>1. /\ name.suf = ".weight" /\ Len(shape) = 3 /\ shape[2] = 1
        /\ shape[1] = qk_rows(topo) + VDim
    BY <1>11 DEF Routed, DtBias
  <2>2. src = "F32Conv1d"
    BY <1>11, <2>1 DEF SourceOf, GatedInputs, DtBias, NormTails
  <2>3. is_f32(g, sq)
    BY <1>6, <1>7, <1>11, <2>1 DEF is_f32, DtBias
  <2>4. FitsSource(src, shape)
    BY <2>1, <2>2 DEF FitsSource, HasDims
  <2>5. src \notin F16Sources
    BY <2>2 DEF F16Sources
  <2> QED BY <1>4, <1>8, <2>3, <2>4, <2>5, Mismatch, Zenon
<1>12. CASE tail \in NormTails
  <2>1. name.suf = ".weight" /\ Len(shape) = 1
    BY <1>12 DEF Routed, DtBias, NormTails
  <2>2. src \in {"F32PlusOne", "F32Plain"} /\ sq = shape
    BY <1>12, <2>1 DEF SourceOf, GatedInputs, DtBias, NormTails, Squeezed
  <2>3. is_f32(g, sq)
    <3>1. Len(sq) = 1
      BY <2>1, <2>2, Zenon
    <3>2. 1 <= 1
      OBVIOUS
    <3> QED BY <3>1, <3>2, Zenon DEF is_f32
  <2>4. FitsSource(src, shape)
    BY <2>1, <2>2 DEF FitsSource, HasDims
  <2>5. src \notin F16Sources
    BY <2>2 DEF F16Sources
  <2> QED BY <1>4, <1>8, <2>3, <2>4, <2>5, Mismatch, Zenon
<1>13. CASE tail \notin GatedInputs \cup NormTails
                          \cup {"linear_attn.A_log", DtBias, "linear_attn.conv1d"}
  <2>1. name.suf = ".weight" /\ Len(shape) = 2
    BY <1>13 DEF Routed
  <2>2. src = "Bf16ToF16" /\ sq = shape
    BY <1>13, <2>1 DEF SourceOf, GatedInputs, NormTails, Squeezed
  <2>3. ~is_f32(g, sq)
    BY <1>5, <1>6, <1>7, <1>13, <2>1, <2>2 DEF is_f32
  <2>4. FitsSource(src, shape)
    BY <2>1, <2>2 DEF FitsSource, HasDims
  <2>5. src \in F16Sources
    BY <2>2 DEF F16Sources
  <2> QED BY <1>4, <1>8, <2>3, <2>4, <2>5, Mismatch, Zenon
<1> QED BY <1>9, <1>10, <1>11, <1>12, <1>13

\* The tail that a plain tensor of the checkpoint has in its layer.
TailOf(name) == IF name.at = "mtp" THEN MtpMap[name.tail] ELSE name.tail

\* A regular tensor of phase B is routed.
LEMMA PlainRouted ==
  ASSUME job \in Job, NEW t \in Entry, t.name.at # "visual", RegularPlain(t),
         NEW name, name = remap_mtp(t.name)
  PROVE  /\ t.dtype = "BF16" /\ t.bytes = 2 * Product(t.shape) /\ ~UnknownMtp(t.name)
         /\ name \in Named /\ name.tail = TailOf(t.name) /\ name.suf = t.name.suf
         /\ name.at = IF t.name.at = "top" THEN "top" ELSE "layers"
         /\ name.at = "layers" => name.blk = BlockOf(t.name)
         /\ t.name.at = "mtp" => t.name.tail \in DOMAIN MtpMap
         /\ t.name.at \in {"layers", "mtp.layers"} => t.name.tail \in LayerTails \cup {DtBias}
         /\ Routed(name, t.shape)
<1> DEFINE tail == TailOf(t.name)
           ab == {"linear_attn.in_proj_a", "linear_attn.in_proj_b"}
           ad == {"linear_attn.A_log", DtBias}
           c1 == Len(t.shape) = 2 /\ t.shape[1] = topo.num_v
           c2 == t.shape = <<topo.num_v>>
           c3 == /\ Len(t.shape) = 3 /\ t.shape[2] = 1
                 /\ t.shape[1] = qk_rows(topo) + VDim
           c4 == Len(t.shape) = 1
           c5 == Len(t.shape) = 2
<1>1. t.name \in Named
  BY NameNamed DEF Entry
<1>2. /\ t.dtype = "BF16" /\ t.bytes = 2 * Product(t.shape)
      /\ \/ t.name.at = "top" /\ t.name.tail \in DOMAIN TopMap
         \/ t.name.at = "mtp" /\ t.name.tail \in DOMAIN MtpMap
         \/ t.name.at \in {"layers", "mtp.layers"} /\ t.name.tail \in LayerTails \cup {DtBias}
      /\ t.name.suf = IF t.name.tail \in ad THEN "" ELSE ".weight"
      /\ (CASE tail \in ab -> c1
            [] tail \in ad -> c2
            [] tail = "linear_attn.conv1d" -> c3
            [] tail \in NormTails -> c4
            [] OTHER -> c5)
  BY Zenon DEF RegularPlain, TailOf
<1>3. /\ t.name.at = "mtp" => t.name.tail \notin ad /\ tail \notin ad
                              /\ tail \in DOMAIN LayerMap
      /\ t.name.at # "mtp" => tail = t.name.tail
  <2>1. \A x \in DOMAIN MtpMap : x \notin ad /\ MtpMap[x] \notin ad
    BY DEF MtpMap, DtBias
  <2>2. t.name.at = "mtp" => t.name.tail \in DOMAIN MtpMap
    BY <1>2
  <2> QED BY <2>1, <2>2, NamesApart DEF TailOf
<1>4. ~UnknownMtp(t.name)
  <2>1. t.name.at = "mtp" => t.name.tail \in DOMAIN MtpMap /\ t.name.suf = ".weight"
    BY <1>2, <1>3
  <2> QED BY <2>1, Zenon DEF UnknownMtp
<1>5. /\ name \in Named /\ name.suf = t.name.suf
      /\ name.tail = tail
      /\ name.at = IF t.name.at = "top" THEN "top" ELSE "layers"
      /\ name.at = "layers" => name.blk = BlockOf(t.name)
  BY <1>1, <1>4, Renamed DEF TailOf
<1>6. \/ name.at = "top" /\ name.tail \in DOMAIN TopMap
      \/ name.at = "layers" /\ name.tail \in DOMAIN LayerMap \cup {DtBias}
  BY <1>2, <1>3, <1>5, NamesApart
<1>7. name.suf = IF name.tail \in ad THEN "" ELSE ".weight"
  BY <1>2, <1>3, <1>5, Zenon
<1> HIDE DEF c1, c2, c3, c4, c5
<1>8. /\ tail \in GatedInputs => c1
      /\ tail \in ad => c2
      /\ tail = "linear_attn.conv1d" => c3
      /\ tail \in NormTails => c4
      /\ tail \notin GatedInputs \cup NormTails \cup ad \cup {"linear_attn.conv1d"} => c5
  <2> HIDE DEF tail
  <2>1. (CASE tail \in ab -> c1
           [] tail \in ad -> c2
           [] tail = "linear_attn.conv1d" -> c3
           [] tail \in NormTails -> c4
           [] OTHER -> c5)
    BY <1>2, Zenon
  <2> QED BY <2>1 DEF GatedInputs, NormTails, DtBias
<1>9. Routed(name, t.shape)
  <2> HIDE DEF tail
  <2> QED BY <1>5, <1>6, <1>7, <1>8 DEF Routed, c1, c2, c3, c4, c5
<1> QED BY <1>2, <1>4, <1>5, <1>9

\* A regular tensor of phase A has a name in its layer.
LEMMA QuantNamed ==
  ASSUME job \in Job, NEW t \in Entry, t.name.at # "visual", t.name.suf = ".qweight",
         \/ t.name.at = "layers"
         \/ t.name.at = "mtp.layers" /\ Kind(t.name) = "QuantTrunk",
         t.name.tail \in LayerTails,
         NEW g, g = QuantName(t.name)
  PROVE  /\ g = [blk |-> BlockOf(t.name), tail |-> LayerMap[t.name.tail], suf |-> ".weight"]
         /\ g # NoName /\ BlockOf(t.name) \in Nat
<1> DEFINE weight == [t.name EXCEPT !.suf = ".weight"]
           r == IF Kind(t.name) = "QuantTrunk" THEN remap_mtp_layers(weight) ELSE weight
<1>1. t.name \in Named /\ topo.n_layer \in Nat
  BY NameNamed DEF Entry, topo, Job, Topology
<1>2. /\ weight \in Named /\ weight.suf = ".weight" /\ weight.at = t.name.at
      /\ weight.blk = t.name.blk /\ weight.tail = t.name.tail
  BY <1>1 DEF Named, Text
<1> HIDE DEF weight
<1>3. /\ r.at = "layers" /\ r.tail = t.name.tail /\ r.suf = ".weight"
      /\ r.blk = BlockOf(t.name) /\ r.blk \in Nat
  <2>1. CASE t.name.at = "layers"
    <3>1. r = weight
      BY <1>2, <2>1 DEF remap_mtp_layers
    <3> HIDE DEF r
    <3> QED BY <1>2, <2>1, <3>1 DEF BlockOf, Named
  <2>2. CASE t.name.at = "mtp.layers" /\ Kind(t.name) = "QuantTrunk"
    <3>1. PICK n \in Nat : n = weight.blk + topo.n_layer
      BY <1>1, <1>2 DEF Named
    <3>2. r = [weight EXCEPT !.at = "layers", !.blk = n]
      BY <1>2, <2>2, <3>1 DEF remap_mtp_layers
    <3>3. BlockOf(t.name) = n
      BY <1>2, <2>2, <3>1 DEF BlockOf
    <3> HIDE DEF r
    <3> QED BY <1>2, <3>2, <3>3 DEF Named
  <2> QED BY <2>1, <2>2
<1>4. g = map_with_suffix(r)
  BY DEF QuantName, weight
<1> HIDE DEF r
<1>5. r.tail \in DOMAIN LayerMap
  BY <1>3, NamesApart
<1>6. g = [blk |-> r.blk, tail |-> LayerMap[r.tail], suf |-> r.suf]
  BY <1>3, <1>4, <1>5 DEF map_with_suffix
<1>7. g = [blk |-> BlockOf(t.name), tail |-> LayerMap[t.name.tail], suf |-> ".weight"]
  BY <1>3, <1>6, Zenon
<1>8. g # NoName
  <2>1. g.blk = r.blk /\ NoName.blk = -2 /\ r.blk \in Nat
    BY <1>3, <1>6 DEF NoName
  <2> QED BY <2>1
<1> QED BY <1>3, <1>7, <1>8

-----------------------------------------------------------------------------
(* What Regular says, tensor by tensor.                                      *)

\* The topology, and the order of the heads, pass what is asserted of them.
LEMMA RegularTopology ==
  ASSUME job \in Job, Regular
  PROVE  /\ topo \in Topology /\ Divided(topo) /\ VDim = Elements(topo) /\ HeadsDivide
         /\ topo.num_v \in Nat /\ topo.num_k \in Nat \ {0} /\ topo.num_v % topo.num_k = 0
         /\ aligned_chunks(perm_v(topo))
<1>1. topo \in Topology
  BY DEF topo, Job
<1>2. HeadsDivide /\ VDim % 16 = 0
      /\ (topo.head_v % 16 = 0 \/ topo.num_k \in {1, topo.num_v})
  BY DEF Regular, AR_BLOCK
<1>3. Divided(topo)
  BY <1>1, <1>2 DEF Divided, HeadsDivide, Topology
<1>4. VDim = Elements(topo)
  BY DEF VDim, Elements
<1>5. aligned_chunks(perm_v(topo))
  BY <1>2, <1>3, <1>4, ChunksStay
<1> QED BY <1>1, <1>2, <1>3, <1>4, <1>5 DEF Divided

\* No two tensors have one name, and what each of them is.
LEMMA RegularTensor ==
  ASSUME Regular, NEW i \in DOMAIN model_tensors, NEW t, t = model_tensors[i]
  PROVE  /\ \A j \in DOMAIN model_tensors : model_tensors[j].name = t.name => j = i
         /\ \A j \in DOMAIN model_tensors :
              Module(model_tensors[j].name) = Module(t.name)
                => j = i \/ (/\ t.name.suf \in SplitSuffixes
                             /\ model_tensors[j].name.suf \in SplitSuffixes)
         /\ t.name.at = "layers" => t.name.blk < topo.n_layer
         /\ t.name.suf = ".qweight" => RegularQuant(t)
         /\ t.name.suf \in SplitSuffixes \ {".qweight"}
              => idx_of([t.name EXCEPT !.suf = ".qweight"]) # 0
         /\ t.name.suf \notin SplitSuffixes => RegularPlain(t)
<1> DEFINE A == t.name.suf = ".qweight"
           B == t.name.suf \in SplitSuffixes \ {".qweight"}
           C == RegularQuant(t)
           D == idx_of([t.name EXCEPT !.suf = ".qweight"]) # 0
           E == RegularPlain(t)
<1>1. \A j \in DOMAIN model_tensors :
         /\ t.name = model_tensors[j].name => i = j
         /\ Module(t.name) = Module(model_tensors[j].name)
              => \/ t.name = model_tensors[j].name
                 \/ {t.name.suf, model_tensors[j].name.suf} \subseteq SplitSuffixes
  BY Zenon DEF Regular
<1>2. /\ t.name.at = "layers" => t.name.blk < topo.n_layer
      /\ (CASE A -> C [] B -> D [] OTHER -> E)
  BY Zenon DEF Regular
<1>3. ".qweight" \in SplitSuffixes
  BY DEF SplitSuffixes
<1>4. (A => C) /\ (B => D) /\ (~A /\ ~B => E)
  <2>1. ~(A /\ B)
    OBVIOUS
  <2> HIDE DEF A, B, C, D, E
  <2> QED BY <1>2, <2>1
<1>5. t.name.suf \notin SplitSuffixes => ~A /\ ~B
  BY <1>3
<1> HIDE DEF C, D, E
<1>6. \A j \in DOMAIN model_tensors :
        Module(model_tensors[j].name) = Module(t.name)
          => j = i \/ (/\ t.name.suf \in SplitSuffixes
                       /\ model_tensors[j].name.suf \in SplitSuffixes)
  BY <1>1
<1>7. \A j \in DOMAIN model_tensors : model_tensors[j].name = t.name => j = i
  BY <1>1
<1> QED BY <1>2, <1>4, <1>5, <1>6, <1>7 DEF C, D, E

\* idx_of finds that one.
LEMMA FoundAt ==
  ASSUME Inputs, Regular, NEW i \in DOMAIN model_tensors
  PROVE  idx_of(model_tensors[i].name) = i
<1>1. /\ idx_of(model_tensors[i].name) \in DOMAIN model_tensors \cup {0}
      /\ idx_of(model_tensors[i].name) # 0
      /\ model_tensors[idx_of(model_tensors[i].name)].name = model_tensors[i].name
  BY IdxOf
<1> QED BY <1>1, RegularTensor

\* The parts of a quantized module that phase A reads.
LEMMA QuantParts ==
  ASSUME Inputs, Regular, NEW i \in DOMAIN model_tensors, NEW t, t = model_tensors[i],
         t.name.suf = ".qweight",
         NEW si, si = idx_of([t.name EXCEPT !.suf = ".scales"])
  PROVE  /\ t.dtype = "I32" /\ Len(t.shape) = 2
         /\ t.shape[1] \in Nat /\ t.shape[2] \in Nat
         /\ t.bytes = 4 * (t.shape[1] * t.shape[2]) /\ (t.shape[1] * 8) % 128 = 0
         /\ \/ t.name.at = "layers"
            \/ t.name.at = "mtp.layers" /\ Kind(t.name) = "QuantTrunk"
         /\ t.name.tail \in LayerTails
         /\ si # 0 /\ si \in DOMAIN model_tensors
         /\ model_tensors[si].shape = <<(t.shape[1] * 8) \div 128, t.shape[2]>>
         /\ model_tensors[si].bytes = 2 * (((t.shape[1] * 8) \div 128) * t.shape[2])
         /\ Kind(t.name) = "QuantVRowQkv" => t.shape[2] = qk_rows(topo) + VDim
         /\ Kind(t.name) = "QuantVRowZ" => t.shape[2] = VDim
         /\ Kind(t.name) = "QuantVCol" => t.shape[1] * 8 = VDim
<1> DEFINE c1 == t.name.tail = "linear_attn.in_proj_qkv"
           c2 == t.name.tail = "linear_attn.in_proj_z"
           c3 == t.name.tail = "linear_attn.out_proj"
           d1 == t.shape[2] = qk_rows(topo) + VDim
           d2 == t.shape[2] = VDim
           d3 == t.shape[1] * 8 = VDim
<1>1. t \in Entry /\ t.shape \in Seq(Nat)
  BY InputTypes DEF Comes, Entry
<1>2. RegularQuant(t)
  BY RegularTensor
<1>3. /\ t.dtype = "I32" /\ Len(t.shape) = 2 /\ t.bytes = 4 * Product(t.shape)
      /\ (t.shape[1] * 8) % 128 = 0
      /\ \/ t.name.at = "layers"
         \/ t.name.at = "mtp.layers" /\ Kind(t.name) = "QuantTrunk"
      /\ t.name.tail \in LayerTails
      /\ \E j \in DOMAIN model_tensors :
            /\ model_tensors[j].name = [t.name EXCEPT !.suf = ".scales"]
            /\ model_tensors[j].shape = <<(t.shape[1] * 8) \div 128, t.shape[2]>>
            /\ model_tensors[j].bytes = 2 * Product(model_tensors[j].shape)
      /\ (CASE c1 -> d1 [] c2 -> d2 [] c3 -> d3 [] OTHER -> TRUE)
  BY <1>2, Zenon DEF RegularQuant, WORD, GROUP_SIZE
<1>4. t.shape[1] \in Nat /\ t.shape[2] \in Nat /\ Product(t.shape) = t.shape[1] * t.shape[2]
  <2>1. Len(t.shape) \in 1..3 /\ Len(t.shape) >= 2
    BY <1>3
  <2> QED BY <1>1, <1>3, <2>1, ProductIs
<1>5. PICK j \in DOMAIN model_tensors :
            /\ model_tensors[j].name = [t.name EXCEPT !.suf = ".scales"]
            /\ model_tensors[j].shape = <<(t.shape[1] * 8) \div 128, t.shape[2]>>
            /\ model_tensors[j].bytes = 2 * Product(model_tensors[j].shape)
  BY <1>3
<1>6. si = j /\ j # 0
  <2>1. si = j
    BY <1>5, FoundAt
  <2>2. 0 \notin DOMAIN model_tensors
    BY InputTypes
  <2> QED BY <2>1, <2>2
<1>7. Product(model_tensors[j].shape) = ((t.shape[1] * 8) \div 128) * t.shape[2]
  <2> DEFINE g == (t.shape[1] * 8) \div 128
             o == t.shape[2]
  <2>1. g \in Nat /\ o \in Nat
    BY <1>4
  <2> HIDE DEF g, o
  <2>2. <<g, o>> \in Seq(Nat) /\ Len(<<g, o>>) = 2 /\ <<g, o>>[1] = g /\ <<g, o>>[2] = o
    BY <2>1
  <2>3. Len(<<g, o>>) \in 1..3
    BY <2>2
  <2>4. Product(<<g, o>>) = g * o
    BY <2>2, <2>3, ProductIs
  <2>5. model_tensors[j].shape = <<g, o>>
    BY <1>5 DEF g, o
  <2> QED BY <2>4, <2>5 DEF g, o
<1>8. /\ Kind(t.name) = "QuantVRowQkv" => c1
      /\ Kind(t.name) = "QuantVRowZ" => c2
      /\ Kind(t.name) = "QuantVCol" => c3
  BY DEF Kind
<1>9. /\ c1 => d1
      /\ c2 => d2
      /\ c3 => d3
  <2>1. ~(c1 /\ c2) /\ ~(c1 /\ c3) /\ ~(c2 /\ c3)
    OBVIOUS
  <2> HIDE DEF c1, c2, c3, d1, d2, d3
  <2> QED BY <1>3, <2>1
<1>10. t.bytes = 4 * (t.shape[1] * t.shape[2])
  BY <1>3, <1>4
<1>11. model_tensors[si].bytes = 2 * (((t.shape[1] * 8) \div 128) * t.shape[2])
       /\ model_tensors[si].shape = <<(t.shape[1] * 8) \div 128, t.shape[2]>>
  BY <1>5, <1>6, <1>7, Zenon
<1> HIDE DEF c1, c2, c3
<1> QED BY <1>3, <1>4, <1>6, <1>8, <1>9, <1>10, <1>11, Zenon DEF d1, d2, d3

-----------------------------------------------------------------------------
(* A regular tensor is emitted in a buffer of the planned length.            *)

\* A slice of w * n bytes has n elements of w bytes.
LEMMA SliceIs ==
  ASSUME NEW t, NEW n \in Nat, NEW w \in {2, 4}, t.bytes = w * n
  PROVE  Size(Slice(t, w)) = n
<1>1. t.bytes \div w = n
  <2>1. CASE w = 2
    BY <2>1
  <2>2. CASE w = 4
    BY <2>2
  <2> QED BY <2>1, <2>2
<1>2. DOMAIN Slice(t, w) = Indices(n)
  BY <1>1 DEF Slice
<1> QED BY <1>2, SizeIs

\* A gather of rows that are all there.
LEMMA GatherIs ==
  ASSUME NEW perm, NEW R \in Nat, DOMAIN perm = Indices(R),
         \A n \in Indices(R) : perm[n] \in Indices(R),
         NEW w \in Nat, NEW t, t.bytes = 2 * (R * w), NEW elem
  PROVE  Gathered(perm, w, t, elem) = Buffer(R * w * elem)
<1>1. Size(perm) = R
  BY SizeIs
<1>2. R * w \in Nat
  BY \A a, b \in Nat : a * b \in Nat
<1>3. t.bytes \div 2 = R * w
  <2> DEFINE x == R * w
  <2>1. x \in Nat /\ t.bytes = 2 * x
    BY <1>2
  <2> HIDE DEF x
  <2>2. t.bytes \div 2 = x
    BY <2>1
  <2> QED BY <2>2 DEF x
<1>4. \A n \in DOMAIN perm : (perm[n] + 1) * w <= R * w
  <2> TAKE n \in DOMAIN perm
  <2>1. PICK x \in Nat : x = perm[n] /\ x < R
    BY DEF Indices
  <2>2. PICK e \in Nat : R = x + 1 + e
    <3>1. R - x - 1 \in Nat /\ R = x + 1 + (R - x - 1)
      BY <2>1
    <3> QED BY <3>1
  <2>3. R * w = (x + 1) * w + e * w /\ e * w \in Nat /\ (x + 1) * w \in Nat
    BY <2>2
  <2> DEFINE u == (x + 1) * w
             v == e * w
             z == R * w
  <2>4. z = u + v /\ u \in Nat /\ v \in Nat
    BY <2>3
  <2> HIDE DEF u, v, z
  <2>5. u <= z
    BY <2>4
  <2> QED BY <2>1, <2>5 DEF u, z
<1>5. GatherFits(perm, w, t)
  BY <1>3, <1>4 DEF GatherFits
<1> QED BY <1>1, <1>5 DEF Gathered

\* What phase A planned.
LEMMA QuantEmitted ==
  ASSUME Inputs, Regular, NEW i \in DOMAIN model_tensors, model_tensors[i].name.suf = ".qweight",
         NEW p, QuantEntry(p, i)
  PROVE  Emitted(p) = Buffer(p.nbytes)
<1> DEFINE t == model_tensors[i]
           si == idx_of([t.name EXCEPT !.suf = ".scales"])
           u == model_tensors[si]
           q == [shape |-> t.shape, words |-> Slice(t, 4)]
           s == [shape |-> u.shape, elems |-> Slice(u, 2)]
           a == t.shape[1]
           b == t.shape[2]
           G == (a * 8) \div 128
           K == Kind(t.name)
<1>1. /\ Len(t.shape) = 2 /\ a \in Nat /\ b \in Nat
      /\ t.bytes = 4 * (a * b) /\ (a * 8) % 128 = 0 /\ si # 0
      /\ u.shape = <<G, b>> /\ u.bytes = 2 * (G * b)
      /\ K = "QuantVRowQkv" => b = qk_rows(topo) + VDim
      /\ K = "QuantVRowZ" => b = VDim
      /\ K = "QuantVCol" => a * 8 = VDim
  BY QuantParts
<1>2. /\ p.tensor = i /\ p.scales = si /\ p.src = K /\ K \in QuantKinds
      /\ p.nbytes = QuantBytes(K, a * 8, b)
  BY KindType DEF QuantEntry, WORD
<1>3. job \in Job /\ Divided(topo) /\ VDim = Elements(topo)
  BY InputTypes, RegularTopology
<1>4. InF(q) = a * 8 /\ OutF(q) = b /\ NGroups(q) = G
  BY DEF InF, OutF, NGroups, WORD, GROUP_SIZE
<1>5. Size(q.words) = q.shape[1] * OutF(q)
  <2>1. a * b \in Nat
    BY <1>1, \A x, y \in Nat : x * y \in Nat
  <2>2. Size(Slice(t, 4)) = a * b
    BY <1>1, <2>1, SliceIs
  <2> QED BY <1>4, <2>2
<1>6. Size(s.elems) = NGroups(q) * OutF(q)
  <2>1. G \in Nat
    BY <1>1
  <2>2. G * b \in Nat
    BY <1>1, <2>1, \A x, y \in Nat : x * y \in Nat
  <2>3. Size(Slice(u, 2)) = G * b
    BY <1>1, <2>2, SliceIs
  <2> QED BY <1>4, <2>3
<1>7. s.shape = <<NGroups(q), OutF(q)>>
  BY <1>1, <1>4
<1>8. InF(q) \in Nat /\ OutF(q) \in Nat /\ InF(q) % 128 = 0
  BY <1>1, <1>4
<1>9. Emitted(p) = EmitQuantized(p, t)
  BY <1>2 DEF Emitted, QuantKinds
<1> HIDE DEF q, s, K
<1>10. Converts(K, topo, q, s)
  <2>1. /\ K = "QuantVRowQkv" => OutF(q) = qk_rows(topo) + Elements(topo)
        /\ K = "QuantVRowZ" => OutF(q) = Elements(topo)
        /\ K = "QuantVCol" => InF(q) = Elements(topo)
    BY <1>1, <1>3, <1>4
  <2> QED BY <1>2, <1>3, <1>5, <1>6, <1>8, <2>1, FittingConverts
<1>11. EmitQuantized(p, t) = Buffer(QuantBytes(K, InF(q), OutF(q)))
  <2>1. ~ScalesMismatch(q, s)
    BY <1>7 DEF ScalesMismatch
  <2>2. EmitQuantized(p, t)
          = IF ScalesMismatch(q, s) THEN Broken("err")
            ELSE IF ~Converts(p.src, topo, q, s) THEN Broken("panic")
            ELSE Buffer(QuantBytes(p.src, InF(q), OutF(q)))
    BY <1>2 DEF EmitQuantized, q, s
  <2> QED BY <1>2, <1>10, <2>1, <2>2
<1> QED BY <1>2, <1>4, <1>9, <1>11

\* What phase B planned, but for what is streamed.
LEMMA PlainEmitted ==
  ASSUME Inputs, Regular, NEW i \in DOMAIN model_tensors,
         RegularPlain(model_tensors[i]), NEW p, PlainEntry(p, i), p.src # "Bf16ToF16"
  PROVE  Emitted(p) = Buffer(p.nbytes)
<1> DEFINE t == model_tensors[i]
           name == remap_mtp(t.name)
           shape == t.shape
           sq == Squeezed(p.src, shape)
<1>1. t \in Entry /\ t.name.at # "visual" /\ shape \in Seq(Nat) /\ job \in Job
  BY InputTypes DEF Comes, Entry
<1>2. t.bytes = 2 * Product(shape) /\ name \in Named /\ Routed(name, shape)
  BY <1>1, PlainRouted
<1>3. /\ p.tensor = i /\ p.src = SourceOf(name, shape)
      /\ p.name = map_with_suffix(out_name(name))
      /\ p.nbytes = Product(sq) * (IF is_f32(p.name, sq) THEN 4 ELSE 2)
  BY DEF PlainEntry
<1>4. FitsSource(p.src, shape) /\ (is_f32(p.name, sq) <=> p.src \notin F16Sources)
  <2> HIDE DEF t, name, shape
  <2> QED BY <1>1, <1>2, <1>3, RouteAgrees DEF shape
<1>5. p.nbytes = Product(sq) * (IF p.src \in F16Sources THEN 2 ELSE 4)
  <2> DEFINE f == is_f32(p.name, sq)
             h == p.src \in F16Sources
  <2>1. (IF f THEN 4 ELSE 2) = (IF h THEN 2 ELSE 4)
    <3>1. f <=> ~h
      BY <1>4, Zenon
    <3> HIDE DEF f, h
    <3> QED BY <3>1, Zenon
  <2> QED BY <1>3, <2>1, Zenon
<1>6. Divided(topo) /\ VDim = Elements(topo)
      /\ topo.num_v \in Nat /\ topo.num_k \in Nat \ {0} /\ topo.num_v % topo.num_k = 0
  BY <1>1, RegularTopology
<1>7. p.src \in PlainSources
  BY <1>3, SourceType
<1> HIDE DEF t, name
<1> DEFINE V == topo.num_v
<1>8. /\ DOMAIN perm48 = Indices(V) /\ \A n \in Indices(V) : perm48[n] \in Indices(V)
  <2>1. V * 1 = V
    BY <1>6
  <2>2. /\ DOMAIN v_reorder_perm(topo.num_k, V, 1) = Indices(V * 1)
        /\ \A n \in Indices(V * 1) :
             /\ v_reorder_perm(topo.num_k, V, 1)[n] = ElementAt(topo.num_k, V, 1, n)
             /\ ElementAt(topo.num_k, V, 1, n) \in Indices(V * 1)
    <3>1. 1 \in Nat \ {0}
      OBVIOUS
    <3> HIDE DEF V
    <3>2. V \in Nat /\ V % topo.num_k = 0
      BY <1>6 DEF V
    <3> QED BY <1>6, <3>1, <3>2, ReorderIs
  <2> QED BY <2>1, <2>2 DEF perm48
<1>9. CASE p.src = "Bf16ToF16RowPerm"
  <2>1. Len(shape) = 2 /\ shape[1] = V /\ Len(shape) \in 1..3
    BY <1>4, <1>9 DEF FitsSource
  <2>2. Product(shape) = V * shape[2] /\ shape[2] \in Nat /\ sq = shape
    <3>1. Len(shape) >= 2
      BY <2>1
    <3> QED BY <1>1, <1>9, <2>1, <3>1, ProductIs DEF Squeezed
  <2>3. Emitted(p) = Gathered(perm48, shape[2], t, 2)
    BY <1>3, <1>9 DEF Emitted, QuantKinds, t
  <2>4. Gathered(perm48, shape[2], t, 2) = Buffer(V * shape[2] * 2)
    BY <1>2, <1>6, <1>8, <2>2, GatherIs
  <2>5. p.nbytes = V * shape[2] * 2
    BY <1>5, <1>9, <2>2 DEF F16Sources
  <2> QED BY <2>3, <2>4, <2>5
<1>10. CASE p.src \in {"F32NegExp", "F32PlainPerm"}
  <2>1. shape = <<V>> /\ sq = shape
    BY <1>4, <1>10 DEF FitsSource, Squeezed
  <2>2. Product(shape) = V
    <3>1. Len(shape) = 1 /\ shape[1] = V /\ Len(shape) \in 1..3
      BY <2>1
    <3> QED BY <1>1, <3>1, ProductIs
  <2>3. Emitted(p) = Gathered(perm48, 1, t, 4)
    BY <1>3, <1>10 DEF Emitted, QuantKinds, t
  <2>4. Gathered(perm48, 1, t, 4) = Buffer(V * 1 * 4)
    <3>1. t.bytes = 2 * (V * 1)
      BY <1>2, <1>6, <2>2
    <3> QED BY <1>6, <1>8, <3>1, GatherIs
  <2>5. p.nbytes = V * 1 * 4
    <3>1. p.nbytes = V * 4
      BY <1>5, <1>10, <2>1, <2>2 DEF F16Sources
    <3> QED BY <1>6, <3>1
  <2> QED BY <2>3, <2>4, <2>5
<1>11. CASE p.src = "F32Conv1d"
  <2> DEFINE R == qk_rows(topo) + Elements(topo)
  <2>1. Len(shape) = 3 /\ shape[2] = 1 /\ shape[1] = R /\ sq = <<shape[1], shape[3]>>
        /\ Len(shape) \in 1..3
    BY <1>4, <1>6, <1>11 DEF FitsSource, Squeezed
  <2>2. R \in Nat /\ DOMAIN full_perm_qkv(topo) = Indices(R)
        /\ \A n \in Indices(R) : full_perm_qkv(topo)[n] \in Indices(R)
    <3>1. Elements(topo) \in Nat
      BY <1>6, VPermIs
    <3> QED BY <1>6, <3>1, FusedPermIs
  <2> HIDE DEF R
  <2>3. shape[3] \in Nat /\ Product(shape) = R * shape[3]
    <3>1. shape[3] \in Nat /\ Product(shape) = shape[1] * shape[2] * shape[3]
      BY <1>1, <2>1, ProductIs
    <3>2. R * 1 = R
      BY <2>2
    <3> QED BY <2>1, <3>1, <3>2
  <2>4. Product(sq) = R * shape[3]
    <3> DEFINE c == shape[3]
    <3>1. c \in Nat
      BY <2>3
    <3> HIDE DEF c
    <3>2. <<R, c>> \in Seq(Nat) /\ Len(<<R, c>>) = 2 /\ <<R, c>>[1] = R /\ <<R, c>>[2] = c
      BY <2>2, <3>1
    <3>3. Len(<<R, c>>) \in 1..3
      BY <3>2
    <3>4. Product(<<R, c>>) = R * c
      BY <3>2, <3>3, ProductIs
    <3> QED BY <2>1, <3>4 DEF c
  <2>5. Emitted(p) = Gathered(full_perm_qkv(topo), shape[3], t, 4)
    BY <1>3, <1>11 DEF Emitted, QuantKinds, t
  <2>6. Gathered(full_perm_qkv(topo), shape[3], t, 4) = Buffer(R * shape[3] * 4)
    BY <1>2, <2>2, <2>3, GatherIs
  <2>7. p.nbytes = R * shape[3] * 4
    BY <1>5, <1>11, <2>4 DEF F16Sources
  <2> QED BY <2>5, <2>6, <2>7
<1>12. CASE p.src \in {"F32Plain", "F32PlusOne"}
  <2>1. sq = shape /\ Product(shape) \in Nat
    <3>1. Len(shape) \in 1..3
      BY <1>4 DEF FitsSource
    <3> QED BY <1>1, <1>12, <3>1, ProductIs DEF Squeezed
  <2>2. Emitted(p) = Buffer((t.bytes \div 2) * 4)
    BY <1>3, <1>12 DEF Emitted, QuantKinds, t
  <2>3. p.nbytes = Product(shape) * 4
    BY <1>5, <1>12, <2>1 DEF F16Sources
  <2>4. t.bytes \div 2 = Product(shape)
    BY <1>2, <2>1
  <2> QED BY <2>2, <2>3, <2>4
<1> QED BY <1>7, <1>9, <1>10, <1>11, <1>12 DEF PlainSources

-----------------------------------------------------------------------------
(* Planning a regular checkpoint comes to its end.                           *)

\* A module of a regular checkpoint is planned.
LEMMA PlanQuantGoes ==
  ASSUME Inputs, Regular, at \in Nat, PlanQuant
  PROVE  pc' = pc /\ cause' = cause
<1> DEFINE qi == qweight_order[at + 1]
           t  == model_tensors[qi]
           si == idx_of([t.name EXCEPT !.suf = ".scales"])
           g  == QuantName(t.name)
           p  == [name |-> g, tensor |-> qi, scales |-> si, src |-> Kind(t.name),
                  nbytes |-> QuantBytes(Kind(t.name), t.shape[1] * WORD, t.shape[2])]
           c1 == si = 0
           c2 == si # 0 /\ t.dtype # "I32"
           c3 == si # 0 /\ t.dtype = "I32" /\ Len(t.shape) < 2
           c4 == si # 0 /\ t.dtype = "I32" /\ Len(t.shape) >= 2 /\ g = NoName
           uses == Companions(t.name)
<1>1. qi \in DOMAIN model_tensors /\ t.name.suf = ".qweight"
  <2>1. at < Quants
    BY DEF PlanQuant, Quants
  <2>2. at + 1 \in DOMAIN qweight_order
    BY <2>1, InputTypes DEF Quants
  <2> QED BY <2>2, InputTypes
<1>2. (CASE c1 -> Fail("missing scales")
         [] c2 -> Fail("not I32")
         [] c3 -> Abort
         [] c4 -> IF Kind(t.name) = "QuantTrunk" THEN Fail("cannot map") ELSE Abort
         [] OTHER -> Plan(p, uses))
  BY Zenon DEF PlanQuant
<1>3. /\ t.dtype = "I32" /\ Len(t.shape) = 2 /\ si # 0 /\ t.name.tail \in LayerTails
      /\ \/ t.name.at = "layers"
         \/ t.name.at = "mtp.layers" /\ Kind(t.name) = "QuantTrunk"
  BY <1>1, QuantParts
<1>4. g # NoName
  <2>1. job \in Job /\ t \in Entry /\ t.name.at # "visual"
    BY <1>1, InputTypes DEF Comes
  <2> HIDE DEF t
  <2> QED BY <1>1, <1>3, <2>1, QuantNamed
<1>5. ~c1 /\ ~c2 /\ ~c3 /\ ~c4
  BY <1>3, <1>4
<1>6. Plan(p, uses)
  <2> HIDE DEF c1, c2, c3, c4, p, uses
  <2> QED BY <1>2, <1>5
<1> QED BY <1>6 DEF Plan

\* Phase A takes every part of the quantized modules.
LEMMA PartsTaken ==
  ASSUME Inputs, Regular, NEW i \in DOMAIN model_tensors,
         model_tensors[i].name.suf \in SplitSuffixes
  PROVE  i \in Taken(Quants)
<1> DEFINE n == model_tensors[i].name
           w == [n EXCEPT !.suf = ".qweight"]
           q == idx_of(w)
<1>1. n \in Named /\ i # 0
  <2>1. model_tensors[i] \in Entry
    BY InputTypes DEF Comes
  <2> QED BY <2>1, NameNamed, InputTypes DEF Entry
<1>2. q # 0
  <2>1. CASE n.suf = ".qweight"
    <3>1. w = n
      BY <1>1, <2>1 DEF Named
    <3> QED BY <1>1, <3>1, FoundAt
  <2>2. CASE n.suf # ".qweight"
    BY <2>2, RegularTensor
  <2> QED BY <2>1, <2>2
<1>3. q \in DOMAIN model_tensors /\ model_tensors[q].name = w
  BY <1>2, IdxOf
<1>4. w.suf = ".qweight" /\ \A s : [w EXCEPT !.suf = s] = [n EXCEPT !.suf = s]
  BY <1>1 DEF Named
<1>5. PICK k \in DOMAIN qweight_order : qweight_order[k] = q
  BY <1>3, <1>4, InputTypes
<1>6. k \in 1..Quants
  BY <1>5, InputTypes DEF Quants
<1>7. idx_of([w EXCEPT !.suf = n.suf]) = i
  <2>1. [w EXCEPT !.suf = n.suf] = n
    <3>1. [n EXCEPT !.suf = n.suf] = n
      BY <1>1 DEF Named
    <3> QED BY <1>4, <3>1
  <2> QED BY <2>1, FoundAt
<1>8. i \in Companions(w)
  <2> HIDE DEF w, n
  <2> QED BY <1>1, <1>7 DEF Companions, SplitSuffixes, n
<1> QED BY <1>3, <1>5, <1>6, <1>8 DEF Taken

\* What it leaves is plain.
LEMMA PlainLeft ==
  ASSUME Inputs, Regular, NEW i \in DOMAIN model_tensors, i \notin Taken(Quants)
  PROVE  RegularPlain(model_tensors[i]) /\ model_tensors[i].name.suf \notin SplitSuffixes
BY PartsTaken, RegularTensor

\* So is a plain tensor of it.
LEMMA PlanStandardGoes ==
  ASSUME Inputs, Regular, Progress, PlanStandard
  PROVE  pc' = pc /\ cause' = cause
<1> DEFINE t     == model_tensors[at + 1]
           name  == remap_mtp(t.name)
           src   == SourceOf(name, t.shape)
           shape == Squeezed(src, t.shape)
           g     == map_with_suffix(out_name(name))
           w     == IF is_f32(g, shape) THEN 4 ELSE 2
           p     == [name |-> g, tensor |-> at + 1, scales |-> 0, src |-> src,
                     nbytes |-> Product(shape) * w]
<1>1. pc = "phaseB" /\ at < Len(model_tensors) /\ at + 1 \notin consumed /\ at \in Nat
  BY DEF PlanStandard, Progress
<1>2. at + 1 \in DOMAIN model_tensors /\ at + 1 \notin Taken(Quants)
  BY <1>1, InputTypes DEF Progress
<1>3. IF t.dtype # "BF16" THEN Fail("not BF16")
      ELSE IF UnknownMtp(t.name) THEN Fail("unknown mtp tensor")
      ELSE IF ~HasDims(src, t.shape) THEN Abort
      ELSE IF g = NoName THEN Fail("cannot map")
      ELSE IF RoutingMismatch(src, g, shape) THEN Fail("dtype routing mismatch")
      ELSE Plan(p, {})
  BY Zenon DEF PlanStandard
<1>4. t \in Entry /\ t.name.at # "visual" /\ t.shape \in Seq(Nat) /\ job \in Job
      /\ RegularPlain(t)
  BY <1>2, PlainLeft, InputTypes DEF Comes, Entry
<1>5. t.dtype = "BF16" /\ ~UnknownMtp(t.name) /\ name \in Named /\ Routed(name, t.shape)
  <2> HIDE DEF t
  <2> QED BY <1>4, PlainRouted
<1>6. HasDims(src, t.shape) /\ g # NoName /\ ~RoutingMismatch(src, g, shape)
  <2> HIDE DEF t, name
  <2>1. g # NoName /\ FitsSource(src, t.shape) /\ ~RoutingMismatch(src, g, shape)
    BY <1>4, <1>5, RouteAgrees
  <2> QED BY <2>1 DEF FitsSource
<1>7. Plan(p, {})
  <2> HIDE DEF p, g, shape, src, name, t
  <2> QED BY <1>3, <1>5, <1>6, Zenon
<1> QED BY <1>7 DEF Plan

-----------------------------------------------------------------------------
(* No two tensors of a regular checkpoint get one name.                      *)

\* The infix is gone, and only layers have a number.
LEMMA KeptName ==
  ASSUME Inputs, NEW i \in DOMAIN model_tensors, NEW n, n = model_tensors[i].name
  PROVE  /\ n \in Named /\ n.lang = FALSE /\ n.at # "visual"
         /\ n.at \in {"top", "mtp"} => n.blk = 0
<1>1. job \in Job /\ model_tensors[i] \in Entry /\ n.at # "visual"
  BY InputTypes DEF Comes
<1>2. n \in Name
  BY <1>1 DEF Entry
<1>3. n.at \in {"top", "mtp"} => n.blk = 0
  BY <1>2 DEF Name
<1>4. n.lang = FALSE
  <2>1. CASE model_tensors = <<>>
    <3>1. DOMAIN model_tensors = {}
      BY <2>1, EmptySeq
    <3> QED BY <3>1
  <2>2. CASE model_tensors = filtered(job.ckpt)
    <3> DEFINE s == job.ckpt
               kept == Only(s, {t \in Range(s) : Keeps(t.name)})
    <3>1. filtered(s) = [x \in DOMAIN kept |-> [kept[x] EXCEPT !.name = filter_name(@)]]
      BY DEF filtered
    <3>2. s \in Seq(Entry) /\ Len(s) \in Nat
      BY <1>1, LenProperties DEF Job
    <3>3. \A x \in DOMAIN kept : kept[x] \in Entry
      <4>1. kept \in Seq(Entry \cap {t \in Range(s) : Keeps(t.name)})
        BY <3>2, OnlySeq
      <4> HIDE DEF kept
      <4> QED BY <4>1, LenProperties, ElementOfSeq
    <3> HIDE DEF kept, s
    <3>4. model_tensors = [x \in DOMAIN kept |-> [kept[x] EXCEPT !.name = filter_name(@)]]
      BY <2>2, <3>1 DEF s
    <3>5. i \in DOMAIN kept /\ model_tensors[i] = [kept[i] EXCEPT !.name = filter_name(@)]
      BY <3>4
    <3>6. kept[i] \in Entry /\ kept[i].name \in Name
      BY <3>3, <3>5 DEF Entry
    <3>7. n = filter_name(kept[i].name)
      BY <3>5, <3>6 DEF Entry
    <3>8. filter_name(kept[i].name).lang = FALSE
      BY <3>6 DEF filter_name, Name
    <3> QED BY <3>7, <3>8
  <2> QED BY <2>1, <2>2 DEF Inputs
<1> QED BY <1>1, <1>2, <1>3, <1>4, NameNamed

\* The tail that a tensor of a layer has when it is looked up.
OutTail(n) == IF TailOf(n) = DtBias THEN "linear_attn.dt_proj" ELSE TailOf(n)

\* The name that a planned tensor gets, and the suffix of its module.
Target(n, g) ==
  /\ n.at # "top" => /\ g.blk = BlockOf(n)
                     /\ OutTail(n) \in DOMAIN LayerMap /\ g.tail = LayerMap[OutTail(n)]
  /\ n.at = "top" => /\ g.blk = -1
                     /\ n.tail \in DOMAIN TopMap /\ g.tail = TopMap[n.tail]
                     /\ TailOf(n) # DtBias
  /\ n.at = "mtp" => n.tail \in DOMAIN MtpMap /\ TailOf(n) # DtBias
  /\ n.at \in {"layers", "mtp.layers"} => n.tail \in LayerTails \cup {DtBias}
  /\ g.suf = ".bias" <=> TailOf(n) = DtBias
  /\ Module(n).suf = IF g.suf = ".bias" THEN "" ELSE g.suf

\* The name that all parts of a module share.
LEMMA ModuleIs ==
  ASSUME NEW n \in Named
  PROVE  Module(n) = [at |-> n.at, blk |-> n.blk, tail |-> n.tail,
                      suf |-> IF n.suf \in SplitSuffixes THEN ".weight" ELSE n.suf,
                      lang |-> n.lang]
BY DEF Module, Named

\* Its fields.
LEMMA ModuleFields ==
  ASSUME NEW n \in Named
  PROVE  /\ Module(n).at = n.at /\ Module(n).blk = n.blk /\ Module(n).tail = n.tail
         /\ Module(n).suf = IF n.suf \in SplitSuffixes THEN ".weight" ELSE n.suf
         /\ Module(n).lang = n.lang
         /\ Module(n) = [at |-> n.at, blk |-> n.blk, tail |-> n.tail,
                         suf |-> Module(n).suf, lang |-> n.lang]
<1> DEFINE s == IF n.suf \in SplitSuffixes THEN ".weight" ELSE n.suf
<1>1. Module(n) = [at |-> n.at, blk |-> n.blk, tail |-> n.tail, suf |-> s, lang |-> n.lang]
  BY ModuleIs, Zenon
<1> HIDE DEF s
<1>2. /\ Module(n).at = n.at /\ Module(n).blk = n.blk /\ Module(n).tail = n.tail
      /\ Module(n).suf = s /\ Module(n).lang = n.lang
  BY <1>1
<1>3. Module(n) = [at |-> n.at, blk |-> n.blk, tail |-> n.tail,
                   suf |-> Module(n).suf, lang |-> n.lang]
  BY <1>1, <1>2, Zenon
<1> QED BY <1>2, <1>3, Zenon DEF s

\* The name that a quantized module gets.
LEMMA QuantTarget ==
  ASSUME Inputs, Regular, NEW i \in DOMAIN model_tensors, NEW n, n = model_tensors[i].name,
         n.suf = ".qweight", NEW g, g = QuantName(n)
  PROVE  Target(n, g)
<1>1. /\ n \in Named /\ n.at # "visual" /\ job \in Job /\ model_tensors[i] \in Entry
  BY InputTypes, KeptName DEF Comes
<1>2. /\ n.at = "layers" \/ (n.at = "mtp.layers" /\ Kind(n) = "QuantTrunk")
      /\ n.tail \in LayerTails
  <2> PICK t : t = model_tensors[i]
    OBVIOUS
  <2> PICK si : si = idx_of([t.name EXCEPT !.suf = ".scales"])
    OBVIOUS
  <2>1. t.name = n
    OBVIOUS
  <2>2. t.name.suf = ".qweight"
    BY <2>1
  <2>3. /\ t.name.at = "layers" \/ (t.name.at = "mtp.layers" /\ Kind(t.name) = "QuantTrunk")
        /\ t.name.tail \in LayerTails
    BY <2>2, QuantParts
  <2> QED BY <2>1, <2>3, Zenon
<1>3. g = [blk |-> BlockOf(n), tail |-> LayerMap[n.tail], suf |-> ".weight"]
  BY <1>1, <1>2, QuantNamed
<1>4. g.blk = BlockOf(n) /\ g.tail = LayerMap[n.tail] /\ g.suf = ".weight"
  BY <1>3
<1>5. Module(n).suf = ".weight"
  BY <1>1, ModuleFields DEF SplitSuffixes
<1>6. TailOf(n) = n.tail /\ n.tail # DtBias /\ n.tail \in DOMAIN LayerMap
  BY <1>2, NamesApart DEF TailOf
<1> HIDE DEF Module
<1> QED BY <1>2, <1>4, <1>5, <1>6 DEF Target, OutTail

\* The name that a plain tensor gets.
LEMMA PlainTarget ==
  ASSUME Inputs, Regular, NEW i \in DOMAIN model_tensors, NEW n, n = model_tensors[i].name,
         RegularPlain(model_tensors[i]), n.suf \notin SplitSuffixes,
         NEW g, g = map_with_suffix(out_name(remap_mtp(n)))
  PROVE  Target(n, g)
<1> DEFINE t == model_tensors[i]
           name == remap_mtp(n)
           o == out_name(name)
           src == SourceOf(name, t.shape)
           sq == Squeezed(src, t.shape)
<1>1. /\ n \in Named /\ n.at # "visual" /\ job \in Job /\ t \in Entry /\ t.shape \in Seq(Nat)
  BY InputTypes, KeptName DEF Comes, Entry
<1>2. /\ name \in Named /\ name.tail = TailOf(n) /\ name.suf = n.suf
      /\ name.at = IF n.at = "top" THEN "top" ELSE "layers"
      /\ name.at = "layers" => name.blk = BlockOf(n)
      /\ n.at = "mtp" => n.tail \in DOMAIN MtpMap
      /\ n.at \in {"layers", "mtp.layers"} => n.tail \in LayerTails \cup {DtBias}
      /\ Routed(name, t.shape)
  <2> HIDE DEF t
  <2>1. t.name = n
    BY DEF t
  <2> QED BY <1>1, <2>1, PlainRouted DEF t
<1> HIDE DEF t, name, src, sq
<1>3. /\ g # NoName
      /\ o.at = name.at /\ o.blk = name.blk
      /\ o.tail = IF name.tail = DtBias THEN "linear_attn.dt_proj" ELSE name.tail
      /\ o.suf = IF name.tail = DtBias THEN ".bias" ELSE name.suf
  BY <1>1, <1>2, RouteAgrees DEF src, sq, name
<1>4. o \in Named /\ g = map_with_suffix(o)
  BY <1>2, OutNamed DEF name
<1> HIDE DEF o
<1>5. /\ g.blk = IF o.at = "layers" THEN o.blk ELSE -1
      /\ g.tail = IF o.at = "layers" THEN LayerMap[o.tail] ELSE TopMap[o.tail]
      /\ g.suf = o.suf
  BY <1>3, <1>4, MapsTo, Zenon
<1>6. /\ name.at = "top" => name.tail \in DOMAIN TopMap
      /\ name.at = "layers" => name.tail \in DOMAIN LayerMap \cup {DtBias}
      /\ name.suf = IF name.tail \in {"linear_attn.A_log", DtBias} THEN "" ELSE ".weight"
  BY <1>2 DEF Routed
<1>7. /\ name.at = "top" => name.tail # DtBias
      /\ n.at = "mtp" => TailOf(n) # DtBias
  <2>1. DtBias \notin DOMAIN TopMap
    BY DEF TopMap, DtBias
  <2>2. n.at = "mtp" => TailOf(n) \in DOMAIN LayerMap
    BY <1>2, NamesApart, Zenon DEF TailOf
  <2>3. DtBias \notin DOMAIN LayerMap
    BY NamesApart, Zenon
  <2> QED BY <1>6, <2>1, <2>2, <2>3, Zenon
<1>8. Module(n).suf = n.suf
  BY <1>1, ModuleFields, Zenon
<1>9. n.at = "top" => TailOf(n) = n.tail
  BY DEF TailOf
<1>10. OutTail(n) = o.tail /\ (n.at # "top" => o.tail \in DOMAIN LayerMap)
  BY <1>2, <1>3, <1>6, NamesApart DEF OutTail
<1>11. /\ g.suf = ".bias" <=> TailOf(n) = DtBias
       /\ n.suf = IF g.suf = ".bias" THEN "" ELSE g.suf
  <2>1. name.suf # ".bias" /\ (name.tail = DtBias => name.suf = "")
    BY <1>6
  <2> QED BY <1>2, <1>3, <1>5, <2>1
<1> HIDE DEF Module
<1>12. n.at # "top" => g.blk = BlockOf(n) /\ g.tail = LayerMap[OutTail(n)]
  BY <1>2, <1>3, <1>5, <1>10
<1>13. n.at = "top" => /\ g.blk = -1 /\ n.tail \in DOMAIN TopMap /\ g.tail = TopMap[n.tail]
                       /\ TailOf(n) # DtBias
  BY <1>2, <1>3, <1>5, <1>6, <1>7, <1>9
<1> QED BY <1>2, <1>7, <1>8, <1>10, <1>11, <1>12, <1>13 DEF Target

\* Tensors whose names would meet are parts of one module.
LEMMA TargetsApart ==
  ASSUME Inputs, Regular,
         NEW i \in DOMAIN model_tensors, NEW a, a = model_tensors[i].name,
         NEW j \in DOMAIN model_tensors, NEW b, b = model_tensors[j].name,
         NEW g, Target(a, g), Target(b, g)
  PROVE  Module(a) = Module(b)
<1>1. /\ a \in Named /\ a.lang = FALSE /\ a.at # "visual" /\ (a.at \in {"top", "mtp"} => a.blk = 0)
      /\ b \in Named /\ b.lang = FALSE /\ b.at # "visual" /\ (b.at \in {"top", "mtp"} => b.blk = 0)
  BY KeptName
<1>2. /\ a.at = "layers" => a.blk < topo.n_layer
      /\ b.at = "layers" => b.blk < topo.n_layer
  BY RegularTensor
<1>3. topo.n_layer \in Nat
  BY InputTypes DEF topo, Job, Topology
<1>4. Module(a).suf = Module(b).suf
  BY DEF Target
<1>5. a.at \in {"top", "layers", "mtp", "mtp.layers"} /\ a.blk \in Nat
      /\ b.at \in {"top", "layers", "mtp", "mtp.layers"} /\ b.blk \in Nat
  BY <1>1 DEF Named
<1>6. /\ a.at = "top" => g.blk = -1
      /\ a.at = "layers" => g.blk = a.blk
      /\ a.at = "mtp.layers" => g.blk = a.blk + topo.n_layer
      /\ a.at = "mtp" => g.blk = topo.n_layer
      /\ b.at = "top" => g.blk = -1
      /\ b.at = "layers" => g.blk = b.blk
      /\ b.at = "mtp.layers" => g.blk = b.blk + topo.n_layer
      /\ b.at = "mtp" => g.blk = topo.n_layer
  BY DEF Target, BlockOf
<1>7. \/ a.at = b.at
      \/ a.at = "mtp" /\ b.at = "mtp.layers"
      \/ a.at = "mtp.layers" /\ b.at = "mtp"
  BY <1>2, <1>3, <1>5, <1>6
<1>8. a.at # "top" /\ b.at # "top" => OutTail(a) = OutTail(b)
  BY NamesApart DEF Target
<1>9. TailOf(a) = DtBias <=> TailOf(b) = DtBias
  BY DEF Target
<1>10. a.at # "top" /\ b.at # "top" => TailOf(a) = TailOf(b)
  BY <1>8, <1>9 DEF OutTail
<1>11. ASSUME NEW x \in Named, x.at = "mtp", Target(x, g),
              NEW y \in Named, y.at = "mtp.layers", Target(y, g), TailOf(x) = TailOf(y)
       PROVE  FALSE
  <2>1. TailOf(x) = MtpMap[x.tail] /\ x.tail \in DOMAIN MtpMap /\ TailOf(x) # DtBias
    BY <1>11 DEF TailOf, Target
  <2>2. TailOf(y) = y.tail /\ y.tail \in LayerTails \cup {DtBias}
    BY <1>11 DEF TailOf, Target
  <2> QED BY <1>11, <2>1, <2>2, NamesApart
<1>12. a.at = b.at
  BY <1>1, <1>7, <1>10, <1>11
<1>13. a.blk = b.blk
  BY <1>1, <1>3, <1>5, <1>6, <1>12
<1>14. a.tail = b.tail
  <2>1. CASE a.at = "top"
    <3>1. TopMap[a.tail] = TopMap[b.tail] /\ {a.tail, b.tail} \subseteq DOMAIN TopMap
      BY <1>12, <2>1 DEF Target
    <3> QED BY <3>1, NamesApart
  <2>2. CASE a.at = "mtp"
    <3>1. MtpMap[a.tail] = MtpMap[b.tail] /\ {a.tail, b.tail} \subseteq DOMAIN MtpMap
      BY <1>10, <1>12, <2>2 DEF Target, TailOf
    <3> QED BY <3>1, NamesApart
  <2>3. CASE a.at \in {"layers", "mtp.layers"}
    BY <1>10, <1>12, <2>3 DEF TailOf
  <2> QED BY <1>5, <2>1, <2>2, <2>3
<1> QED
  <2>1. Module(a) = [at |-> a.at, blk |-> a.blk, tail |-> a.tail,
                     suf |-> Module(a).suf, lang |-> a.lang]
    BY <1>1, ModuleFields, Zenon
  <2>2. Module(b) = [at |-> b.at, blk |-> b.blk, tail |-> b.tail,
                     suf |-> Module(b).suf, lang |-> b.lang]
    BY <1>1, ModuleFields, Zenon
  <2>3. a.lang = b.lang
    BY <1>1
  <2> QED BY <1>4, <1>12, <1>13, <1>14, <2>1, <2>2, <2>3, Zenon

\* A tensor has one place in the plan.
LEMMA OnePlace ==
  ASSUME PInv, NEW j \in DOMAIN plan, NEW k \in DOMAIN plan,
         plan[j].tensor = plan[k].tensor
  PROVE  j = k
<1>1. j \in Nat /\ k \in Nat /\ Quants \in Nat
  BY SuffixOf
<1>2. CASE j <= Quants
  <2>1. model_tensors[plan[j].tensor].name.suf = ".qweight"
    BY <1>2, SuffixOf
  <2>2. k <= Quants
    BY <2>1, SuffixOf
  <2>3. /\ j \in DOMAIN qweight_order /\ plan[j].tensor = qweight_order[j]
        /\ k \in DOMAIN qweight_order /\ plan[k].tensor = qweight_order[k]
    BY <1>2, <2>2, SuffixOf
  <2> QED BY <2>3, InputTypes DEF PInv
<1>3. CASE ~(j <= Quants)
  <2>1. ~(k <= Quants)
    <3>1. ASSUME k <= Quants
          PROVE  FALSE
      <4>1. model_tensors[plan[k].tensor].name.suf = ".qweight"
        BY <3>1, SuffixOf
      <4>2. model_tensors[plan[j].tensor].name.suf \in {".weight", ".bias", ""}
        BY <1>3, SuffixOf
      <4> QED BY <4>1, <4>2
    <3> QED BY <3>1
  <2>2. Quants < j /\ Quants < k
    BY <1>1, <1>3, <2>1
  <2>3. plan[j].tensor \in Nat
    BY Facts DEF Planned
  <2>4. ~(j < k) /\ ~(k < j)
    BY <2>2, <2>3 DEF PInv, PlanInv
  <2> QED BY <1>1, <2>4
<1> QED BY <1>2, <1>3

\* What an entry of the plan of a regular checkpoint is.
LEMMA RegularEntry ==
  ASSUME PInv, Regular, consumed = Taken(Quants), NEW k \in DOMAIN plan,
         NEW i, i = plan[k].tensor
  PROVE  /\ i \in DOMAIN model_tensors
         /\ Target(model_tensors[i].name, plan[k].name)
         /\ \/ model_tensors[i].name.suf = ".qweight" /\ QuantEntry(plan[k], i)
            \/ /\ RegularPlain(model_tensors[i]) /\ PlainEntry(plan[k], i)
               /\ model_tensors[i].name.suf \notin SplitSuffixes
<1>1. /\ i \in DOMAIN model_tensors
      /\ k <= Quants => QuantEntry(plan[k], i)
      /\ ~(k <= Quants) => i \notin consumed /\ PlainEntry(plan[k], i)
  BY EntryOf DEF PInv
<1>2. CASE k <= Quants
  <2>1. model_tensors[i].name.suf = ".qweight" /\ plan[k].name = QuantName(model_tensors[i].name)
    BY <1>2, SuffixOf
  <2>2. Target(model_tensors[i].name, plan[k].name)
    BY <1>1, <2>1, QuantTarget DEF PInv
  <2> QED BY <1>1, <1>2, <2>1, <2>2
<1>3. CASE ~(k <= Quants)
  <2>1. RegularPlain(model_tensors[i]) /\ model_tensors[i].name.suf \notin SplitSuffixes
    BY <1>1, <1>3, PlainLeft DEF PInv
  <2>2. plan[k].name = map_with_suffix(out_name(remap_mtp(model_tensors[i].name)))
    BY <1>1, <1>3 DEF PlainEntry
  <2>3. Target(model_tensors[i].name, plan[k].name)
    BY <1>1, <2>1, <2>2, PlainTarget DEF PInv
  <2> QED BY <1>1, <1>3, <2>1, <2>3
<1> QED BY <1>2, <1>3

\* Its name is no other entry's.
LEMMA NamesDiffer ==
  ASSUME PInv, Regular, consumed = Taken(Quants),
         NEW j \in DOMAIN plan, NEW k \in DOMAIN plan, plan[j].name = plan[k].name
  PROVE  j = k
<1> DEFINE p == plan[j].tensor
           q == plan[k].tensor
           a == model_tensors[p].name
           b == model_tensors[q].name
<1>1. /\ p \in DOMAIN model_tensors /\ Target(a, plan[j].name)
      /\ a.suf = ".qweight" \/ a.suf \notin SplitSuffixes
  BY RegularEntry
<1>2. /\ q \in DOMAIN model_tensors /\ Target(b, plan[j].name)
      /\ b.suf = ".qweight" \/ b.suf \notin SplitSuffixes
  BY RegularEntry
<1>3. Module(a) = Module(b) /\ a \in Named /\ b \in Named
  BY <1>1, <1>2, TargetsApart, KeptName DEF PInv
<1>4. q = p \/ (a.suf \in SplitSuffixes /\ b.suf \in SplitSuffixes)
  <2>1. \A x \in DOMAIN model_tensors :
           Module(model_tensors[x].name) = Module(model_tensors[p].name)
             => x = p \/ (/\ model_tensors[p].name.suf \in SplitSuffixes
                         /\ model_tensors[x].name.suf \in SplitSuffixes)
    <3> PICK i \in DOMAIN model_tensors : i = p
      BY <1>1
    <3> PICK t : t = model_tensors[i]
      OBVIOUS
    <3>1. \A x \in DOMAIN model_tensors :
             Module(model_tensors[x].name) = Module(t.name)
               => x = i \/ (/\ t.name.suf \in SplitSuffixes
                           /\ model_tensors[x].name.suf \in SplitSuffixes)
      <4> HIDE DEF p, q, a, b
      <4> QED BY RegularTensor, Zenon
    <3> QED BY <3>1, Zenon
  <2> QED BY <1>2, <1>3, <2>1, Zenon
<1>5. q = p
  <2>1. CASE a.suf = ".qweight" /\ b.suf = ".qweight"
    <3> HIDE DEF a, b
    <3>1. a.at = b.at /\ a.blk = b.blk /\ a.tail = b.tail /\ a.lang = b.lang
      <4>1. /\ Module(a).at = a.at /\ Module(a).blk = a.blk /\ Module(a).tail = a.tail
            /\ Module(a).lang = a.lang
        BY <1>3, ModuleFields, Zenon
      <4>2. /\ Module(b).at = b.at /\ Module(b).blk = b.blk /\ Module(b).tail = b.tail
            /\ Module(b).lang = b.lang
        BY <1>3, ModuleFields, Zenon
      <4> QED BY <1>3, <4>1, <4>2
    <3>2. a = b
      BY <1>3, <2>1, <3>1 DEF Named
    <3> QED BY <1>1, <1>2, <3>2, RegularTensor DEF a, b
  <2> QED BY <1>1, <1>2, <1>4, <2>1
<1> QED BY <1>5, OnePlace

-----------------------------------------------------------------------------
(* A regular checkpoint converts.                                            *)

\* The header is written between the declarations and the data, once; until then
\* the keys are those of the job, in its order.
Headed ==
  /\ pc \in {"open", "phaseA", "phaseB", "create", "kvs", "header"} => header_written = FALSE
  /\ pc \in {"perm", "emit", "stream"} => header_written = TRUE
  /\ pc = "kvs" => \A i \in DOMAIN kvs : kvs[i] = job.meta[i]

\* Nothing is written at first.
LEMMA HeadedInit == Init => Headed
BY DEF Init, WInit, Headed

\* The key that is added, and where.
LEMMA KvAdded ==
  ASSUME PInv, DeclareKv, NEW key, key = job.meta[at + 1],
         key \notin {"unsupported", "missing"}, AddKv(key), ~Panic
  PROVE  /\ kvs' = Append(kvs, key) /\ kvs \in Seq(Keys) /\ key \in Keys
         /\ Len(kvs) = at /\ at \in Nat
         /\ DOMAIN kvs = 1..at /\ DOMAIN kvs' = 1..(at + 1) /\ kvs'[at + 1] = key
         /\ \A i \in 1..at : kvs'[i] = kvs[i]
<1>1. pc = "kvs" /\ at < Len(job.meta) /\ at \in Nat /\ Len(job.meta) \in Nat
      /\ Len(kvs) = at
  BY Facts DEF DeclareKv, PInv, Stages
<1>2. at + 1 \in 1..Len(job.meta)
  BY <1>1
<1>3. key \in Keys /\ kvs \in Seq(Keys)
  BY <1>2, Facts DEF PInv, TInv, TypeOK
<1>4. kvs' = Append(kvs, key)
  BY DEF AddKv
<1>5. /\ DOMAIN kvs' = 1..(Len(kvs) + 1) /\ kvs'[Len(kvs) + 1] = key
      /\ \A i \in 1..Len(kvs) : kvs'[i] = kvs[i]
  BY <1>3, <1>4, Appended
<1>6. DOMAIN kvs = 1..Len(kvs)
  BY <1>3, LenProperties
<1> QED BY <1>1, <1>3, <1>4, <1>5, <1>6

\* Each step leaves the header, and the keys before it, in their place.
LEMMA HeadedStep ==
  ASSUME PInv, Headed, [Next]_vars
  PROVE  Headed'
<1> USE DEF Headed
<1>1. CASE Open \/ PlanQuant \/ PlanStandard
  <2>1. /\ pc \in {"open", "phaseA", "phaseB"} /\ pc' \in {"phaseA", "phaseB", "err", "panicked"}
        /\ UNCHANGED wvars
    BY <1>1, PlanningStep
  <2> QED BY <2>1 DEF wvars, head
<1>2. CASE UNCHANGED vars
  BY <1>2 DEF vars, xvars, input, wvars, decl, head
<1>3. CASE IoErr \/ Crash
  BY <1>3 DEF IoErr, Crash, Fail
<1>4. CASE EndPhaseA \/ SkipConsumed \/ EndPhaseB
  BY <1>4 DEF EndPhaseA, SkipConsumed, EndPhaseB, Abort, wvars, head
<1>5. CASE Create
  <2>1. pc = "create" /\ pc' = "kvs" /\ UNCHANGED <<kvs, header_written>>
    BY <1>5 DEF Create, New, decl, head
  <2>2. kvs = <<>>
    BY <2>1 DEF PInv, Stages, Progress
  <2>3. DOMAIN kvs = {}
    BY <2>2, EmptySeq
  <2> QED BY <2>1, <2>3
<1>6. CASE DeclareKv
  <2> DEFINE key == job.meta[at + 1]
  <2>1. pc = "kvs" /\ header_written = FALSE /\ \A i \in DOMAIN kvs : kvs[i] = job.meta[i]
    BY <1>6 DEF DeclareKv
  <2>2. CASE Fail("unsupported metadata") \/ Abort
    BY <2>2 DEF Fail, Abort
  <2>3. CASE key \notin {"unsupported", "missing"} /\ AddKv(key) /\ AfterWriter("kvs")
    <3>1. CASE Panic
      <4>1. pc' = "panicked"
        BY <2>3, <3>1, AfterCall DEF Panic
      <4> QED BY <4>1
    <3>2. CASE ~Panic
      <4>1. UNCHANGED <<wstate, header_written, job>>
        BY <2>3, <3>2 DEF AddKv, AfterWriter, input, head
      <4>2. pc' \in {"kvs", "panicked", "err"}
        BY <2>3, AfterCall
      <4>3. /\ DOMAIN kvs = 1..at /\ DOMAIN kvs' = 1..(at + 1) /\ kvs'[at + 1] = key
            /\ \A i \in 1..at : kvs'[i] = kvs[i]
            /\ at \in Nat
        BY <1>6, <2>3, <3>2, KvAdded
      <4>4. \A i \in DOMAIN kvs' : kvs'[i] = job.meta[i]
        BY <2>1, <4>3
      <4> QED BY <2>1, <4>1, <4>2, <4>4
    <3> QED BY <3>1, <3>2
  <2> QED BY <1>6, <2>2, <2>3 DEF DeclareKv
<1>7. CASE DeclareTensor
  <2> DEFINE n == Len(tensors) + 1
  <2>1. pc = "kvs"
    BY <1>7 DEF DeclareTensor
  <2>2. CASE AddTensorInfo(plan[n].name, plan[n].nbytes) /\ AfterWriter("kvs")
    <3>1. pc' \in {"kvs", "panicked", "err"} /\ UNCHANGED <<kvs, header_written, job>>
      BY <2>2, AfterCall DEF AddTensorInfo, Panic, AfterWriter, input, decl, head
    <3> QED BY <2>1, <3>1
  <2>3. CASE BeginHeader /\ AfterWriter("header")
    <3>1. pc' \in {"header", "panicked", "err"} /\ UNCHANGED header_written
      BY <2>3, AfterCall DEF BeginHeader, Panic, head
    <3> QED BY <2>1, <3>1
  <2> QED BY <1>7, <2>2, <2>3 DEF DeclareTensor
<1>8. CASE Header
  <2>1. pc = "header"
    BY <1>8 DEF Header
  <2>2. CASE EncodeInfo /\ AfterWriter("header")
    <3>1. pc' \in {"header", "panicked", "err"} /\ UNCHANGED header_written
      BY <2>2, AfterCall DEF EncodeInfo
    <3> QED BY <2>1, <3>1
  <2>3. CASE (\E h \in HeaderLens : EmitHeader(h)) /\ AfterWriter("perm")
    <3>1. pc' \in {"perm", "panicked", "err"} /\ header_written' = TRUE
      BY <2>3, AfterCall DEF EmitHeader
    <3> QED BY <3>1
  <2>4. CASE (\E h \in HeaderLens, k \in TornAt : EmitHeaderErr(h, k)) /\ AfterWriter("perm")
    <3>1. pc' = "err"
      BY <2>4, AfterCall DEF EmitHeaderErr
    <3> QED BY <3>1
  <2> QED BY <1>8, <2>2, <2>3, <2>4 DEF Header
<1>9. CASE CheckPerm
  BY <1>9 DEF CheckPerm, Abort, wvars, head
<1>10. CASE EmitTensor
  <2> DEFINE p == plan[next_tensor + 1]
  <2>1. /\ pc = "emit"
        /\ \/ Fail("scales shape")
           \/ Abort
           \/ \E len : /\ \/ WriteTensorData(len)
                          \/ \E k \in TornAt : WriteTensorDataErr(len, k)
                       /\ AfterWriter("emit")
    BY <1>10, EmitTensorCases DEF PInv
  <2>2. CASE Fail("scales shape") \/ Abort
    BY <2>2 DEF Fail, Abort
  <2>3. ASSUME NEW len, AfterWriter("emit"),
               \/ WriteTensorData(len)
               \/ \E k \in TornAt : WriteTensorDataErr(len, k)
        PROVE  Headed'
    <3>1. pc' \in {"emit", "panicked", "err"} /\ UNCHANGED header_written
      BY <2>3, AfterCall DEF WriteTensorData, WriteTensorDataErr, Panic, head
    <3> QED BY <2>1, <3>1
  <2> QED BY <2>1, <2>2, <2>3
<1>11. CASE BeginStream
  <2>1. pc = "emit" /\ pc' \in {"stream", "panicked", "err"} /\ UNCHANGED header_written
    BY <1>11, AfterCall DEF BeginStream, BeginTensor, Panic, head
  <2> QED BY <2>1
<1>12. CASE StreamChunk
  <2>1. pc = "stream" /\ pc' \in {"stream", "emit", "panicked", "err"}
    BY <1>12, AfterCall DEF StreamChunk
  <2>2. UNCHANGED header_written
    BY <1>12 DEF StreamChunk, WriteChunk, WriteChunkErr, EndTensor, EndTensorErr, head
  <2> QED BY <2>1, <2>2
<1>13. CASE FinishFile
  <2>1. pc' \in {"sync", "panicked", "err"}
    BY <1>13, AfterCall DEF FinishFile
  <2> QED BY <2>1
<1>14. CASE Sync
  BY <1>14 DEF Sync
<1> QED BY <1>1, <1>2, <1>3, <1>4, <1>5, <1>6, <1>7, <1>8, <1>9, <1>10, <1>11, <1>12,
           <1>13, <1>14 DEF Next, Run

\* What a checkpoint is does not change.
LEMMA SameRegular ==
  ASSUME UNCHANGED input
  PROVE  Regular' = Regular
BY DEF input, Regular, RegularQuant, RegularPlain, HeadsDivide, VDim, topo, idx_of

\* A run that has come so far, of a regular checkpoint.
Fine == pc # "panicked" /\ cause \in {"none", "io"}

\* A call of the writer that trips no assertion of its.
LEMMA CallFine ==
  ASSUME Fine, NEW next, next # "panicked", AfterWriter(next), wstate' # "panicked"
  PROVE  Fine'
BY AfterCall DEF Fine

\* Opening it and planning.
LEMMA PlanningFine ==
  ASSUME PInv, Regular', Regular \/ Open, Open \/ PlanQuant \/ PlanStandard, Fine,
         [Next]_vars
  PROVE  Fine'
<1>1. CASE Open
  <2>1. job' = job
    BY InputsStep DEF PInv
  <2>2. job.config = "supported"
    BY <2>1 DEF Regular
  <2>3. pc' = "phaseA" /\ cause' = cause
    BY <1>1, <2>2 DEF Open
  <2> QED BY <2>3 DEF Fine
<1>2. CASE PlanQuant
  <2>1. Regular
    <3>1. pc = "phaseA"
      BY <1>2 DEF PlanQuant
    <3>2. Open => pc = "open"
      BY DEF Open
    <3> QED BY <3>1, <3>2
  <2> QED BY <1>2, <2>1, PlanQuantGoes DEF PInv, Progress, Fine
<1>3. CASE PlanStandard
  <2>1. Regular
    <3>1. pc = "phaseB"
      BY <1>3 DEF PlanStandard
    <3>2. Open => pc = "open"
      BY DEF Open
    <3> QED BY <3>1, <3>2
  <2> QED BY <1>3, <2>1, PlanStandardGoes DEF PInv, Fine
<1> QED BY <1>1, <1>2, <1>3

\* Declaring: no key is there twice, and no name.
LEMMA DeclaringFine ==
  ASSUME PInv, Headed, Regular, Fine, DeclareKv \/ DeclareTensor
  PROVE  Fine'
<1>0. pc = "kvs" /\ wstate = "open" /\ header_written = FALSE
  BY DEF DeclareKv, DeclareTensor, Headed, PInv, Stages
<1>1. CASE DeclareKv
  <2> DEFINE key == job.meta[at + 1]
  <2>1. at < Len(job.meta) /\ at \in Nat /\ Len(job.meta) \in Nat /\ Len(kvs) = at
    BY <1>0, <1>1, Facts DEF DeclareKv, PInv, Stages
  <2>2. DOMAIN job.meta = 1..Len(job.meta) /\ DOMAIN kvs = 1..at
    <3>1. job.meta \in Seq(STRING) /\ kvs \in Seq(Keys)
      BY Facts DEF Job, PInv, TInv, TypeOK
    <3> QED BY <2>1, <3>1, LenProperties
  <2>3. at + 1 \in DOMAIN job.meta
    BY <2>1, <2>2
  <2>4. key \notin {"unsupported", "missing"}
    BY <2>3 DEF Regular
  <2>5. \A i \in DOMAIN kvs : kvs[i] # key
    <3> SUFFICES ASSUME NEW i \in DOMAIN kvs, kvs[i] = key
                 PROVE  FALSE
      OBVIOUS
    <3>1. i \in DOMAIN job.meta /\ i # at + 1 /\ job.meta[i] = job.meta[at + 1]
      BY <1>0, <2>1, <2>2 DEF Headed
    <3> QED BY <2>3, <3>1 DEF Regular
  <2>6. AddKv(key) /\ AfterWriter("kvs")
    BY <1>1, <2>4 DEF DeclareKv
  <2> HIDE DEF key
  <2>7. wstate' = "open"
    BY <1>0, <2>5, <2>6 DEF AddKv
  <2> QED BY <2>6, <2>7, CallFine
<1>2. CASE DeclareTensor
  <2> DEFINE n == Len(tensors) + 1
  <2>1. CASE Len(tensors) < Len(plan) /\ AddTensorInfo(plan[n].name, plan[n].nbytes)
             /\ AfterWriter("kvs")
    <3>1. /\ n \in DOMAIN plan /\ DOMAIN tensors = 1..Len(tensors) /\ DOMAIN plan = 1..Len(plan)
          /\ Len(tensors) \in Nat /\ Len(plan) \in Nat
      BY <2>1, Facts
    <3>2. consumed = Taken(Quants)
      BY <1>0 DEF PInv, Progress, Whole, Writing
    <3>3. \A i \in DOMAIN tensors : tensors[i].name # plan[n].name
      <4> SUFFICES ASSUME NEW i \in DOMAIN tensors, tensors[i].name = plan[n].name
                   PROVE  FALSE
        OBVIOUS
      <4>1. i \in DOMAIN plan /\ i # n /\ plan[i].name = plan[n].name
        BY <2>1, <3>1 DEF PInv, Declares
      <4> QED BY <3>1, <3>2, <4>1, NamesDiffer
    <3> HIDE DEF n
    <3>4. wstate' = "open"
      BY <1>0, <2>1, <3>3 DEF AddTensorInfo
    <3> QED BY <2>1, <3>4, CallFine
  <2>2. CASE BeginHeader /\ AfterWriter("header")
    <3>1. wstate' = "encoding"
      BY <1>0, <2>2 DEF BeginHeader
    <3> QED BY <2>2, <3>1, CallFine
  <2> QED BY <1>2, <2>1, <2>2 DEF DeclareTensor
<1> QED BY <1>1, <1>2

\* Emitting: each tensor comes to a buffer of the length that was declared.
LEMMA EmittingFine ==
  ASSUME PInv, Headed, Regular, Fine, EmitTensor \/ BeginStream \/ FinishFile
  PROVE  Fine'
<1>1. /\ pc = "emit" /\ wstate = "open" /\ header_written = TRUE
      /\ Len(tensors) = Len(plan) /\ consumed = Taken(Quants)
      /\ next_tensor \in Nat /\ Len(plan) \in Nat
      /\ DOMAIN plan = 1..Len(plan) /\ DOMAIN tensors = 1..Len(tensors)
  <2>1. pc = "emit"
    BY DEF EmitTensor, BeginStream, FinishFile
  <2>2. wstate = "open" /\ header_written = TRUE /\ Len(tensors) = Len(plan)
    BY <2>1 DEF Headed, PInv, Stages, AtWriter
  <2>3. consumed = Taken(Quants)
    BY <2>1 DEF PInv, Progress, Whole, Writing
  <2> QED BY <2>1, <2>2, <2>3, Facts
<1>2. CASE FinishFile
  <2>1. next_tensor = Len(tensors) /\ Finish /\ AfterWriter("sync")
    BY <1>1, <1>2 DEF FinishFile
  <2>2. wstate' # "panicked"
    BY <2>1 DEF Finish
  <2> QED BY <2>1, <2>2, CallFine
<1>3. CASE BeginStream
  <2> DEFINE src == 2 * (model_tensors[plan[next_tensor + 1].tensor].bytes \div 2)
  <2>1. next_tensor < Len(tensors) /\ BeginTensor(src) /\ AfterWriter("stream")
    BY <1>1, <1>3 DEF BeginStream
  <2> HIDE DEF src
  <2>2. wstate' = "streaming"
    BY <1>1, <2>1 DEF BeginTensor, CanStart
  <2> QED BY <2>1, <2>2, CallFine
<1>4. CASE EmitTensor
  <2> DEFINE k == next_tensor + 1
             p == plan[k]
             e == Emitted(p)
             i == p.tensor
             A == /\ \/ WriteTensorData(e.len)
                     \/ \E j \in TornAt : WriteTensorDataErr(e.len, j)
                  /\ AfterWriter("emit")
                  /\ heads' = Append(heads, HeadsOf(p.src))
                  /\ UNCHANGED <<at, disk>>
  <2>1. next_tensor < Len(plan) /\ p.src # "Bf16ToF16"
    BY <1>4 DEF EmitTensor
  <2>2. k \in DOMAIN plan /\ k \in DOMAIN tensors /\ CanStart
    BY <1>1, <2>1 DEF CanStart
  <2>3. e = Buffer(p.nbytes)
    <3>1. /\ i \in DOMAIN model_tensors
          /\ \/ model_tensors[i].name.suf = ".qweight" /\ QuantEntry(p, i)
             \/ RegularPlain(model_tensors[i]) /\ PlainEntry(p, i)
      BY <1>1, <2>2, RegularEntry
    <3> HIDE DEF i, p
    <3> QED BY <2>1, <3>1, QuantEmitted, PlainEmitted DEF PInv
  <2>4. e.tag = "ok" /\ e.len = p.nbytes
    BY <2>3 DEF Buffer
  <2>5. (CASE e.tag = "err"   -> Fail("scales shape")
           [] e.tag = "panic" -> Abort
           [] e.tag = "ok"    -> A)
    BY <1>4, Zenon DEF EmitTensor
  <2>6. p.nbytes = Declared
    BY <2>2 DEF PInv, Declares, Declared
  <2> HIDE DEF e, A
  <2>7. A
    BY <2>4, <2>5
  <2>8. wstate' # "panicked" /\ AfterWriter("emit")
    <3>1. Accepts(e.len)
      BY <2>2, <2>4, <2>6 DEF Accepts
    <3>2. /\ WriteTensorData(e.len) \/ \E j \in TornAt : WriteTensorDataErr(e.len, j)
          /\ AfterWriter("emit")
      BY <2>7 DEF A
    <3>3. WriteTensorData(e.len) => wstate' = wstate
      BY <3>1 DEF WriteTensorData
    <3>4. (\E j \in TornAt : WriteTensorDataErr(e.len, j)) => wstate' = "failed"
      BY DEF WriteTensorDataErr
    <3> QED BY <1>1, <3>2, <3>3, <3>4
  <2> QED BY <2>8, CallFine
<1> QED BY <1>2, <1>3, <1>4

\* No step of a regular run ends in an error or an abort of its own.
LEMMA RegularStep ==
  ASSUME PInv, Headed, RegularSucceeds, [Next]_vars
  PROVE  RegularSucceeds'
<1> SUFFICES ASSUME Regular'
             PROVE  Fine'
  BY DEF RegularSucceeds, Fine
<1>1. Open \/ UNCHANGED input
  BY InputsStep DEF PInv
<1>2. CASE Open
  <2>1. Fine
    BY <1>2 DEF Open, PInv, Stages, Fine
  <2> QED BY <1>2, <2>1, PlanningFine
<1>3. CASE ~Open
  <2>1. Regular /\ Fine
    BY <1>1, <1>3, SameRegular DEF RegularSucceeds, Fine
  <2>2. CASE PlanQuant \/ PlanStandard
    BY <2>1, <2>2, PlanningFine
  <2>3. CASE DeclareKv \/ DeclareTensor
    BY <2>1, <2>3, DeclaringFine
  <2>4. CASE EmitTensor \/ BeginStream \/ FinishFile
    BY <2>1, <2>4, EmittingFine
  <2>5. CASE UNCHANGED vars
    BY <2>1, <2>5 DEF Fine, vars, xvars
  <2>6. CASE IoErr \/ Crash \/ Sync \/ Create
    BY <2>1, <2>6 DEF Fine, IoErr, Crash, Sync, Create, Fail
  <2>7. CASE SkipConsumed \/ EndPhaseB
    BY <2>1, <2>7 DEF Fine, SkipConsumed, EndPhaseB
  <2>8. CASE EndPhaseA
    <3>1. HeadsDivide
      BY <2>1 DEF Regular
    <3> QED BY <2>1, <2>8, <3>1 DEF Fine, EndPhaseA
  <2>9. CASE CheckPerm
    <3>1. aligned_chunks(perm_v(topo))
      BY <2>1, RegularTopology, Facts
    <3> QED BY <2>1, <2>9, <3>1 DEF Fine, CheckPerm
  <2>10. CASE Header
    <3>1. wstate' # "panicked" /\ (AfterWriter("header") \/ AfterWriter("perm"))
      BY <2>10 DEF Header, EncodeInfo, EmitHeader, EmitHeaderErr, PInv, Stages
    <3> QED BY <2>1, <3>1, CallFine
  <2>11. CASE StreamChunk
    <3>1. wstate' # "panicked" /\ (AfterWriter("stream") \/ AfterWriter("emit"))
      BY <2>11 DEF StreamChunk, WriteChunk, WriteChunkErr, EndTensor, EndTensorErr
    <3> QED BY <2>1, <3>1, CallFine
  <2> QED BY <1>3, <2>2, <2>3, <2>4, <2>5, <2>6, <2>7, <2>8, <2>9, <2>10, <2>11 DEF Next, Run
<1> QED BY <1>2, <1>3

\* A checkpoint of the family converts: no order of its tensors, no mixture of
\* quantized and plain ones, no topology and no failing write runs into an error of
\* remix or of the writer, other than that of the file itself, or into an assertion.
THEOREM RegularSucceedsCorrect == Spec => []RegularSucceeds
<1>1. Init => PInv /\ Headed /\ RegularSucceeds
  BY RemixInit, HeadedInit DEF RInv, RegularSucceeds, Init
<1>2. RInv /\ [Next]_vars => RInv'
  BY RemixStep
<1>3. Init => RInv
  BY RemixInit
<1>4. RInv /\ Headed /\ RegularSucceeds /\ [Next]_vars => Headed' /\ RegularSucceeds'
  BY HeadedStep, RegularStep DEF RInv
<1> QED BY <1>1, <1>2, <1>3, <1>4, PTL DEF Spec
=============================================================================
