----------------------------- MODULE MCMetadata -----------------------------
(***************************************************************************)
(* TLC instance of build_kvs: every id of up to four parts of eight kinds, *)
(* tokenizers of up to two added tokens with every clash of ids and        *)
(* contents, and each file with one thing missing or refused.              *)
(***************************************************************************)
EXTENDS Metadata, SequencesExt

P(text, class, alpha, far) == [text |-> text, class |-> class, alpha |-> alpha, far |-> far]

Parts == {P("llama", "plain", TRUE, FALSE), P("3x", "plain", FALSE, FALSE),
          P("v2", "version", TRUE, FALSE), P("8B", "number", FALSE, FALSE),
          P("70b", "number", FALSE, TRUE), P("small", "word", TRUE, FALSE),
          P("chat", "tune", TRUE, FALSE), P("F16", "type", TRUE, FALSE)}

Id(parts) == [usable |-> TRUE, org |-> FALSE, blank |-> FALSE, parts |-> parts]
Sha == Id(<<P("abc86de", "plain", TRUE, FALSE)>>)

NoCard == [tag |-> "none"]
Card == [tag |-> "map", has |-> [f \in Range(CardFields) |-> "absent"], single |-> {},
         listed |-> FALSE, bases |-> <<>>, dataset |-> FALSE]

Base(id, url) == [url |-> url, org |-> id.org, blank |-> id.blank, parts |-> id.parts]
Owned(id) == [id EXCEPT !.org = TRUE]

\* Contents of tokens.
A == [text |-> "a", marks |-> FALSE, look |-> FALSE]
E == [text |-> "<|end|>", marks |-> FALSE, look |-> TRUE]
M == [text |-> "m m", marks |-> TRUE, look |-> FALSE]

Names(bos, eos) ==
  [t \in Range(TYPES) |-> CASE t = "bos" -> bos [] t = "eos" -> eos [] OTHER -> {}]

Tok == [vocab |-> {<<0, A>>, <<1, [A EXCEPT !.text = "x"]>>, <<1, [A EXCEPT !.text = "y"]>>},
        added |-> <<>>, merges |-> "pair", config |-> TRUE, names |-> Names({}, {}),
        root |-> Names({}, {}), text |-> Names({}, {}), template |-> "none"]

Dir == [card |-> NoCard, gen |-> {}, path |-> [Id(<<>>) EXCEPT !.usable = FALSE],
        name |-> Sha, missing |-> "none", rope |-> "default", sections |-> TRUE,
        theta |-> TRUE, mtp |-> 1, family |-> TRUE, size |-> 3, tok |-> Tok]

-----------------------------------------------------------------------------
AddedTokens == [id : 0..2, content : {A, E, M}, special : {FALSE}]
               \cup [id : 0..2, content : {M}, special : {TRUE}]

Tokenizers ==
  {[Tok EXCEPT !.added = added, !.names = Names(bos, eos),
               !.root = Names(r, {}), !.text = Names({2}, {2})] :
     added \in BoundedSeq(AddedTokens, 2), bos \in {{}, {A}, {M}}, eos \in {{}, {E}},
     r \in {{}, {1}}}

IdDirs == {[Dir EXCEPT !.path = Id(parts)] : parts \in BoundedSeq(Parts, 4)}

TokenizerDirs == {[Dir EXCEPT !.tok = t, !.size = n] : t \in Tokenizers, n \in {2, 3}}

Cards ==
  {NoCard, [tag |-> "bad"], Card, [Card EXCEPT !.dataset = TRUE],
   [Card EXCEPT !.single = {"license", "tags"}, !.listed = TRUE]}
  \cup {[Card EXCEPT !.has = [@ EXCEPT ![f] = v]] :
          f \in Range(CardFields), v \in {"empty", "value"}}
  \cup {[Card EXCEPT !.listed = TRUE, !.bases = <<Base(a, FALSE), Base(b, url)>>] :
          a \in {Owned(Sha), Id(<<>>)},
          b \in {Owned(Id(<<P("llama", "plain", TRUE, FALSE), P("v2", "version", TRUE, FALSE)>>)),
                 [Sha EXCEPT !.blank = TRUE]},
          url \in BOOLEAN}

OtherDirs ==
  {[Dir EXCEPT !.card = c, !.path = p] : c \in Cards, p \in {Dir.path, Id(<<>>), Owned(Sha)}}
  \cup {[Dir EXCEPT !.missing = h] : h \in BeforeRope \cup AfterRope \cup {"vocab_size"}}
  \cup {[Dir EXCEPT !.rope = "yarn"], [Dir EXCEPT !.family = FALSE],
        [Dir EXCEPT !.sections = FALSE, !.theta = FALSE, !.mtp = 0],
        [Dir EXCEPT !.gen = {"top_k", "temp"}], [Dir EXCEPT !.tok.merges = "other"],
        [Dir EXCEPT !.tok.config = FALSE, !.tok.template = "jinja"]}
  \cup {[Dir EXCEPT !.tok.template = t] : t \in {"string", "list", "jinja", "additional", "json"}}

MCDirs == IdDirs \cup TokenizerDirs \cup OtherDirs
=============================================================================
