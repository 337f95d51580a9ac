-------------------------------- MODULE Vocab --------------------------------
(***************************************************************************)
(* src/remix/vocab.rs: the tokens of tokenizer.json, the ids of the        *)
(* special tokens, and the chat template.                                  *)
(*                                                                         *)
(* A tokenizer is                                                          *)
(*   vocab     pairs <<id, content>> of the model's vocabulary             *)
(*   added     the sequence of added tokens [id, content, special]         *)
(*   merges    "string" or "pair", the form of its merges, or "other"      *)
(*   config    whether there is a tokenizer_config.json                    *)
(*   names     its content per type                                        *)
(*   root, text  config.json's id per type, at its root and in text_config *)
(*   template  which chat template there is                                *)
(* where names, root and text are sets of at most one element.  A content  *)
(* is [text, marks, look]: whether its blanks are written as word marks,   *)
(* and whether it looks like a special token.                              *)
(***************************************************************************)
EXTENDS Naturals, Sequences, Functions, Selection

TYPES == <<"bos", "eos", "unk", "sep", "pad", "cls", "mask">>

Pad == [text |-> "[PAD]", marks |-> FALSE, look |-> FALSE]

\* The last of the added tokens with id i, if there is one.
LastAdded(tok, i) ==
  LET same == {n \in DOMAIN tok.added : tok.added[n].id = i}
  IN  {tok.added[n] : n \in {n \in same : \A k \in same : k <= n}}

\* Marks are kept in what the tokenizer treats as special only.
AddedEntry(a) ==
  IF a.special \/ a.content.look
  THEN [content |-> a.content, type |-> "CONTROL"]
  ELSE [content |-> [a.content EXCEPT !.marks = FALSE], type |-> "USER_DEFINED"]

\* Variant: the vocabulary's entry hides the added token.
EntriesOwn(tok, i) ==
  LET added == {AddedEntry(a) : a \in LastAdded(tok, i)}
      own   == {[content |-> v[2], type |-> "NORMAL"] : v \in {v \in tok.vocab : v[1] = i}}
  IN  IF own # {} THEN own
      ELSE IF added # {} THEN added
      ELSE {[content |-> Pad, type |-> "UNUSED"]}

\* What may be at id i: an added token hides the vocabulary's; of two entries of
\* the vocabulary with one id, the order of a hash map decides.
EntriesAt(tok, i) ==
  LET added == {AddedEntry(a) : a \in LastAdded(tok, i)}
      own   == {[content |-> v[2], type |-> "NORMAL"] : v \in {v \in tok.vocab : v[1] = i}}
  IN  IF added # {} THEN added
      ELSE IF own # {} THEN own
      ELSE {[content |-> Pad, type |-> "UNUSED"]}

\* The lists load_vocab may return for ids 0..vocab_size - 1; ids beyond are
\* left out.
load_vocab(tok, vocab_size) ==
  LET ids == 0..(vocab_size - 1)
  IN  {v \in [ids -> UNION {EntriesAt(tok, i) : i \in ids}] :
         \A i \in ids : v[i] \in EntriesAt(tok, i)}

-----------------------------------------------------------------------------
(* Special tokens.                                                         *)

\* The id of the first added token whose content the type names.
NamedId(tok, typ) ==
  LET found == {n \in DOMAIN tok.added : tok.added[n].content \in tok.names[typ]}
  IN  {tok.added[n].id : n \in {n \in found : \A k \in found : n <= k}}

\* The root of config.json comes before its text_config.
ConfigId(tok, typ) == IF tok.root[typ] # {} THEN tok.root[typ] ELSE tok.text[typ]

\* Variant: a later assignment is kept as well.
AssignedAgain(ids, id) ==
  LET new == Only(TYPES, {t \in Range(TYPES) : id[t] # {}})
  IN  ids \o [n \in DOMAIN new |-> <<new[n], CHOOSE i \in id[new[n]] : TRUE>>]

\* One loop over the types: `set` passes on those with an id that ids has not got,
\* the first assignment to a type wins.
Assigned(ids, id) ==
  LET free == {t \in Range(TYPES) : id[t] # {} /\ \A n \in DOMAIN ids : ids[n][1] # t}
      new  == Only(TYPES, free)
  IN  ids \o [n \in DOMAIN new |-> <<new[n], CHOOSE i \in id[new[n]] : TRUE>>]

special_token_ids(tok) ==
  LET named == Assigned(<<>>, [t \in Range(TYPES) |-> NamedId(tok, t)])
  IN  Assigned(named, [t \in Range(TYPES) |-> ConfigId(tok, t)])

\* The template of tokenizer_config.json, then the two files of its own; the
\* files are not looked at if there is no tokenizer_config.json.
chat_template(tok) ==
  CASE ~tok.config \/ tok.template = "none"         -> "absent"
    [] tok.config /\ tok.template \in {"list", "additional"} -> "refused"
    [] OTHER                                        -> "found"
=============================================================================
