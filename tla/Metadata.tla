------------------------------ MODULE Metadata ------------------------------
(***************************************************************************)
(* build_kvs of src/remix/mod.rs: the KV section of a remixed file, from   *)
(* the model card, generation_config.json, the names of the model, its     *)
(* configuration and its tokenizer.  In Remix this is the sequence of keys *)
(* called meta; here is where it comes from and how it may fail.  One      *)
(* action per block of the function; a key that is added twice is a panic  *)
(* of the writer's.                                                        *)
(***************************************************************************)
EXTENDS ModelId, Vocab

CONSTANT
  Dirs  \* [card, gen, path, name, missing, rope, sections, theta, mtp, family, size,
        \*  tok]: the model card; the sampling keys of generation_config.json; the
        \* ids in _name_or_path and in the directory's name; the hparam that is
        \* missing or "none"; the kind of rope scaling and which of its entries
        \* there are; the MTP layers; whether the model_type is known; vocab_size
        \* and the tokenizer

ASSUME DirsAssumption ==
  \A d \in Dirs :
     /\ {d.path.parts, d.name.parts} \subseteq Seq(Part)
     /\ d.card.tag = "map" =>
          /\ d.card.bases \in Seq(Range(d.card.bases))
          /\ \A k \in DOMAIN d.card.bases : d.card.bases[k].parts \in Seq(Part)
     /\ d.size \in Nat
     /\ d.tok.added \in Seq(Range(d.tok.added))
     /\ \A n \in DOMAIN d.tok.added : d.tok.added[n].id \in Nat

VARIABLES
  pc,       \* the block that is next
  dir,      \* the model directory
  keys,     \* the keys added, as tuples: <<name>> or <<stem, k, name>>
  read,     \* the ids taken apart and what for
  tokens,   \* the token list, from 0
  special   \* the special ids, <<type, id>>

vars == <<pc, dir, keys, read, tokens, special>>

Ends == {"done", "err", "panicked"}

card == dir.card
tok == dir.tok

Init == /\ pc = "card" /\ dir \in Dirs
        /\ keys = <<<<"general.architecture">>, <<"general.type">>>>
        /\ read = <<>> /\ tokens = <<>> /\ special = <<>>

Fail == pc' = "err" /\ UNCHANGED <<dir, keys, read, tokens, special>>
Panic == pc' = "panicked" /\ UNCHANGED <<dir, keys, read, tokens, special>>

\* Adds the keys ks in turn, which the writer takes once each.
Add(ks, next) ==
  IF IsInjective(keys \o ks)
  THEN pc' = next /\ keys' = keys \o ks /\ UNCHANGED dir
  ELSE pc' = "panicked" /\ UNCHANGED <<dir, keys>>

-----------------------------------------------------------------------------
(* The model card and what it may leave open.                              *)

\* Front matter that is no map counts as no card.
LoadCard == /\ pc = "card"
            /\ \/ card.tag = "bad" /\ Fail
               \/ /\ card.tag # "bad"
                  /\ pc' = "sampling"
                  /\ UNCHANGED <<dir, keys, read, tokens, special>>

SamplingKeys == <<"sequence", "top_k", "top_p", "min_p", "xtc_probability", "xtc_threshold",
                  "temp", "penalty_last_n", "penalty_repeat", "mirostat", "mirostat_tau",
                  "mirostat_eta">>

Sampling ==
  /\ pc = "sampling"
  /\ LET given == Only(SamplingKeys, dir.gen)
     IN  Add([i \in DOMAIN given |-> <<"general.sampling", given[i]>>], "naming")
  /\ UNCHANGED <<read, tokens, special>>

IdOf(id) == [id |-> id, comps |-> get_model_id_components(id)]

\* _name_or_path counts if it is not empty and no deep path.
Paths == IF dir.path.usable THEN <<IdOf(dir.path)>> ELSE <<>>
ReadIds == Append(Paths, IdOf(dir.name))

\* A name that is not empty; an owner.
HasName(r) == r.id.blank \/ r.id.parts # <<>>
HasOrg(r) == r.id.org /\ ~r.id.blank

CardFields == <<"name", "author", "version", "organization", "finetune", "basename",
                "description", "size_label">>

\* The card's value, which suppresses the others even if it is empty and added
\* as nothing, then the ids' values, of names the first id's even if it is
\* empty; a size can always be computed.
HasValue(field) ==
  IF card.tag = "map" /\ card.has[field] # "absent" THEN card.has[field] = "value"
  ELSE CASE field = "name"         -> HasName(ReadIds[1])
         [] field = "size_label"   -> TRUE
         [] field = "organization" -> \E i \in DOMAIN ReadIds : HasOrg(ReadIds[i])
         [] field \in Fields \ {"size_label"} ->
              \E i \in DOMAIN ReadIds : ReadIds[i].comps[field] # {}
         [] OTHER                  -> FALSE

Naming ==
  /\ pc = "naming"
  /\ LET given == Only(CardFields, {f \in Range(CardFields) : HasValue(f)})
     IN  Add([i \in DOMAIN given |-> <<"general", given[i]>>], "card_kvs")
  /\ read' = ReadIds
  /\ UNCHANGED <<tokens, special>>

BaseFields == <<"name", "version", "organization", "repo_url">>

\* The keys of the card's k-th base model, the first being 0.
BaseKeys(k) ==
  LET r == IdOf(card.bases[k + 1])
      names == {n \in Range(BaseFields) :
                  CASE n = "name"    -> HasName(r)
                    [] n = "version" -> r.comps["version"] # {}
                    [] OTHER         -> HasOrg(r)}
      given == Only(BaseFields, names)
  IN  [i \in DOMAIN given |-> <<"general.base_model", k, given[i]>>]

\* Those of the first n base models, per n.
BaseKeysUpTo ==
  LET upTo[n \in 0..Len(card.bases)] ==
        IF n = 0 THEN <<>> ELSE upTo[n - 1] \o BaseKeys(n - 1)
  IN  upTo

\* Those of the card's other keys that it has.
CardKeys(names) ==
  LET given == Only(names, card.single)
  IN  [i \in DOMAIN given |-> <<"general", given[i]>>]

\* Base models given as URLs and data sets are refused, the former when their
\* turn comes.
CardKvs ==
  /\ pc = "card_kvs"
  /\ IF card.tag # "map" THEN Add(<<>>, "hparams") /\ UNCHANGED <<read, tokens, special>>
     ELSE IF card.dataset \/ \E k \in DOMAIN card.bases : card.bases[k].url THEN Fail
     ELSE /\ Add(CardKeys(<<"license", "license_name", "license_link">>)
                 \o (IF card.listed THEN <<<<"general.base_model", "count">>>> ELSE <<>>)
                 \o BaseKeysUpTo[Len(card.bases)]
                 \o CardKeys(<<"tags", "languages">>), "hparams")
          /\ read' = read \o [k \in DOMAIN card.bases |-> IdOf(card.bases[k])]
          /\ UNCHANGED <<tokens, special>>

-----------------------------------------------------------------------------
(* Configuration.                                                          *)

BeforeRope == {"max_position_embeddings", "hidden_size", "intermediate_size",
               "num_attention_heads", "num_key_value_heads"}
AfterRope == {"rms_norm_eps", "head_dim", "linear_conv_kernel_dim"}

Hparams ==
  <<"block_count", "context_length", "embedding_length", "feed_forward_length",
    "attention.head_count", "attention.head_count_kv", "rope.dimension_sections",
    "rope.freq_base", "attention.layer_norm_rms_epsilon", "attention.key_length",
    "attention.value_length", "file_type", "ssm.conv_kernel", "ssm.state_size",
    "ssm.group_count", "ssm.time_step_rank", "ssm.inner_size",
    "full_attention_interval", "rope.dimension_count", "nextn_predict_layers",
    "quantization_version">>

HparamKeys ==
  LET skipped == {h \in Range(Hparams) :
                    \/ h = "rope.dimension_sections" /\ ~dir.sections
                    \/ h = "rope.freq_base" /\ ~dir.theta
                    \/ h = "nextn_predict_layers" /\ dir.mtp = 0}
  IN  Only(Hparams, Range(Hparams) \ skipped)

GeneralKeys == {"file_type", "quantization_version"}

SetParameters ==
  /\ pc = "hparams"
  /\ IF dir.missing \in BeforeRope THEN Panic
     ELSE IF dir.rope \in {"linear", "yarn", "su", "longrope"} THEN Fail
     ELSE IF dir.missing \in AfterRope THEN Panic
     ELSE /\ Add([i \in DOMAIN HparamKeys |->
                   <<IF HparamKeys[i] \in GeneralKeys THEN "general" ELSE "qwen35",
                     HparamKeys[i]>>], "vocab")
          /\ UNCHANGED <<read, tokens, special>>

-----------------------------------------------------------------------------
(* Tokenizer.                                                              *)

TokenKeys == <<<<"model">>, <<"pre">>, <<"tokens">>, <<"token_type">>, <<"merges">>>>

SetVocab ==
  /\ pc = "vocab"
  /\ IF ~dir.family THEN Fail
     ELSE IF dir.missing = "vocab_size" THEN Panic
     ELSE IF tok.merges = "other" THEN Fail
     ELSE /\ tokens' \in load_vocab(tok, dir.size)
          /\ Add(TokenKeys, "special")
          /\ UNCHANGED <<read, special>>

SetSpecial ==
  /\ pc = "special"
  /\ special' = special_token_ids(tok)
  /\ Add([i \in DOMAIN special' |-> <<"token_id", special'[i][1]>>], "template")
  /\ UNCHANGED <<read, tokens>>

SetTemplate ==
  /\ pc = "template"
  /\ IF chat_template(tok) = "refused" THEN Fail
     ELSE /\ Add(IF chat_template(tok) = "found" THEN <<<<"chat_template">>>> ELSE <<>>, "done")
          /\ UNCHANGED <<read, tokens, special>>

Next == \/ LoadCard \/ Sampling \/ Naming \/ CardKvs \/ SetParameters
        \/ SetVocab \/ SetSpecial \/ SetTemplate

Spec == Init /\ [][Next]_vars

-----------------------------------------------------------------------------
(* Properties.                                                             *)

Repeated(r, i) ==
  \E j \in r.comps["size_label"] : j < i /\ r.id.parts[j].text = r.id.parts[i].text

\* A version that only versions follow.
Trailing(r, i) == \A j \in i..Len(r.id.parts) : r.id.parts[j].class = "version"

Unsaid(r) ==
  /\ \A f \in Fields : r.comps[f] = {}
  /\ \A i \in DOMAIN r.id.parts : i > 1 => r.id.parts[i].class \notin Sizes \cup {"tune"}

TakenOnce(r) ==
  \A i \in DOMAIN r.id.parts :
     LET meanings == {f \in Fields : i \in r.comps[f]}
     IN  /\ IF meanings = {} THEN r.id.parts[i].class = "type" \/ Repeated(r, i)
            ELSE \E f \in Fields : meanings = {f}
         /\ i \in r.comps["basename"] => 1..i \subseteq r.comps["basename"]
         /\ Trailing(r, i) => i \in r.comps["version"]

\* The four passes take each part of an id for one thing: no part ends up in two
\* components, none is lost but a storage type and a size said twice, the
\* basename is what the id begins with, and versions at the end are the model's.
\* Or nothing is said of the id, which then has neither size nor tuning behind
\* its first part.
OneMeaning ==
  \A n \in DOMAIN read : ~read[n].id.blank => Unsaid(read[n]) \/ TakenOnce(read[n])

\* The added tokens have ids of their own within the vocabulary.
AddedInRange ==
  \A m, n \in DOMAIN tok.added :
     tok.added[m].id < dir.size /\ (tok.added[m].id = tok.added[n].id => m = n)

\* The id written for a special token that tokenizer_config.json names is where
\* the token list has that token: two scans of the added tokens, one by content
\* and one by id, and two sources of ids agree.
SpecialIdNamesItsToken ==
  pc = "done" /\ AddedInRange =>
     \A n \in DOMAIN special :
        LET typ == special[n][1]
            id  == special[n][2]
            named == {c \in tok.names[typ] :
                        \E k \in DOMAIN tok.added : tok.added[k].content = c}
        IN  named # {} =>
               /\ id \in DOMAIN tokens
               /\ \E c \in named : tokens[id].content.text = c.text

\* Whatever the files say, no key is added twice: only a missing hparam panics.
PanicsOnlyWithoutHparam == pc = "panicked" => dir.missing # "none"
=============================================================================
