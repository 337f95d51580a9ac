------------------------------- MODULE ModelId -------------------------------
(***************************************************************************)
(* src/remix/meta.rs: how a model id, such as Qwen/Qwen3.6-27B-chat, is    *)
(* split at its dashes into parts and what each part is taken for.  The    *)
(* parts are annotated in four passes, each of which looks at what the     *)
(* one before it left.                                                     *)
(*                                                                         *)
(* An id is [org, blank, parts]: whether it has an owner before a slash,   *)
(* whether it contains a blank, and the non-empty parts.  A part is        *)
(* [text, class, alpha, far]: its canonical spelling, which one of the     *)
(* patterns it matches ("version", "type", "number" and "word" for the two *)
(* kinds of size, "tune", or "plain" for none), whether it begins with a   *)
(* letter, and whether it is a number far from the model's parameter       *)
(* count.  No two of the patterns have a string in common.  (No caller     *)
(* passes a count below 0, which would turn the word lora into a type.)    *)
(***************************************************************************)
EXTENDS Naturals, Sequences, FiniteSets

Part == [text : STRING, alpha : BOOLEAN, far : BOOLEAN,
         class : {"version", "type", "number", "word", "tune", "plain"}]

Sizes == {"number", "word"}

\* First pass: each part alone.  A size or a finetune word does not count as
\* the first part.
Recognized(parts) ==
  [i \in DOMAIN parts |->
     LET p == parts[i]
     IN  CASE p.class = "version"                  -> {"version"}
           [] p.class = "type"                     -> {"typ"}
           [] i > 1 /\ p.class \in Sizes           -> IF p.far THEN {"finetune"} ELSE {"size_label"}
           [] i > 1 /\ p.class = "tune"            -> {"finetune"}
           [] OTHER                                -> {}]

\* Second pass: a size in letters gives way to a size in digits.
NumericSizesOnly(parts, ann) ==
  LET numeric == \E i \in DOMAIN parts :
                    "size_label" \in ann[i] /\ parts[i].class = "number"
  IN  [i \in DOMAIN parts |->
         IF numeric /\ parts[i].class = "word" THEN ann[i] \ {"size_label"} ELSE ann[i]]

\* What continues the name at the start of an id.
InName(part, a) == (a = {} /\ part.alpha) \/ "version" \in a

\* Third pass: the parts before the first that does not continue the name are
\* the basename; of the others what nothing recognized is a finetune.
WithBasename(parts, ann) ==
  [i \in DOMAIN parts |->
     IF \A j \in 1..i : InName(parts[j], ann[j]) THEN ann[i] \cup {"basename"}
     ELSE IF ann[i] = {} THEN {"finetune"} ELSE ann[i]]

\* Fourth pass: versions at the end of the basename are not part of it if they
\* are at the end of the id.
WithoutTrailing(ann) ==
  [i \in DOMAIN ann |->
     IF \A j \in i..Len(ann) : "basename" \in ann[j] /\ Cardinality(ann[j]) > 1
     THEN ann[i] \ {"basename"} ELSE ann[i]]

annotate(parts) ==
  WithoutTrailing(WithBasename(parts, NumericSizesOnly(parts, Recognized(parts))))

\* Variant: a version in the basename is the model's version all the same.
ComponentTwice(parts, ann, field) ==
  CASE field = "basename"   -> {i \in DOMAIN ann : "basename" \in ann[i]}
    [] field = "finetune"   -> {i \in DOMAIN ann : "finetune" \in ann[i]}
    [] field = "version"    -> {i \in DOMAIN ann : "version" \in ann[i]}
    [] field = "size_label" ->
         {i \in DOMAIN ann :
            /\ "size_label" \in ann[i]
            /\ \A j \in 1..(i - 1) :
                  "size_label" \in ann[j] => parts[j].text # parts[i].text}

\* The parts, by position, that are joined to a component; a size that was
\* named before is not repeated.
Component(parts, ann, field) ==
  CASE field = "basename"   -> {i \in DOMAIN ann : "basename" \in ann[i]}
    [] field = "finetune"   -> {i \in DOMAIN ann : "finetune" \in ann[i]}
    [] field = "version"    -> {i \in DOMAIN ann : "version" \in ann[i] /\ "basename" \notin ann[i]}
    [] field = "size_label" ->
         {i \in DOMAIN ann :
            /\ "size_label" \in ann[i]
            /\ \A j \in 1..(i - 1) :
                  "size_label" \in ann[j] => parts[j].text # parts[i].text}

Fields == {"basename", "finetune", "version", "size_label"}

\* An empty set is None.  A name that nothing follows is too ambiguous to be a
\* basename, an id with a blank has no components.
get_model_id_components(id) ==
  LET ann == annotate(id.parts)
      Of(field) == Component(id.parts, ann, field)
  IN  IF id.blank THEN [field \in Fields |-> {}]
      ELSE [field \in Fields |->
              IF field = "basename" /\ \A f \in Fields \ {"basename"} : Of(f) = {}
              THEN {} ELSE Of(field)]
=============================================================================
