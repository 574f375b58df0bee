--------------------------- MODULE CanonicalInput ---------------------------
(***************************************************************************)
(* The canonical text of a function's inputs, which is all a model reads   *)
(* of them: the typed tree of an input (a union is the first variant that  *)
(* takes the value, the members of an object are sorted by name), and the  *)
(* two ways to write the tree, exact JSON with a tag on every value        *)
(* (version 1) and compact text, in which literals, enums and unions have  *)
(* no tag and strings no quotes unless they could be mistaken (version 2). *)
(*                                                                         *)
(* A text is a sequence of tokens.  Words end where brackets, commas and   *)
(* "=" begin, and a quoted string is escaped, so tokens are read back in   *)
(* one way.  The pairs of the inputs themselves stand in the order of the  *)
(* declaration, whatever the input: here they are a function of the name.  *)
(* Host objects, cycles, surrogates and the limits are left out.           *)
(***************************************************************************)
EXTENDS InputTypes, PredicateTrees, FiniteSetsExt

Refused == <<"refused", 0>>

----------------------------------------------------------------------------
\* The types that have a canonical form, and the typed tree of a value

Primitives == {"null", "boolean", "string", "number"}

\* _validate_input_type
RECURSIVE Valid(_)
Valid(type) ==
  CASE type[1] \in Primitives -> TRUE
    [] type[1] = "literal" -> type[2][1] \in Primitives
    [] type[1] = "enum" -> type[2] # {} /\ \E kind \in {"string", "number"} :
                                             \A v \in type[2] : v[1] = kind
    [] type[1] = "array" -> Valid(type[2])
    [] type[1] = "tuple" -> \A n \in DOMAIN type[2] : Valid(type[2][n])
    [] type[1] = "object" -> \A n \in DOMAIN type[2] : Valid(type[2][n].type)
    [] type[1] = "union" -> /\ Len(type[2]) >= 2 /\ IsInjective(type[2])
                            /\ \A n \in DOMAIN type[2] : Valid(type[2][n])

Whole(kind, trees) == IF Refused \in Range(trees) THEN Refused ELSE <<kind, trees>>
SortedNames(f) == SetToSortSeq(DOMAIN f, Before)

\* _encode_object: a pair for every member that is there.
Fields(fields, members, trees) ==
  IF \/ ~(DOMAIN members \subseteq DOMAIN fields)
     \/ \E n \in DOMAIN fields \ DOMAIN members : ~fields[n].optional
     \/ Refused \in Range(trees)
  THEN Refused
  ELSE LET names == SortedNames(members)
       IN  <<"object", [n \in DOMAIN names |-> <<names[n], trees[names[n]]>>]>>

\* _encode_union: the first variant that takes the value.
FirstVariant(trees) ==
  LET taken == {n \in DOMAIN trees : trees[n] # Refused}
  IN  IF taken = {} THEN Refused ELSE <<"union", Min(taken), trees[Min(taken)]>>

\* _encode_value
RECURSIVE Encode(_, _)
Encode(type, v) ==
  CASE type[1] \in Primitives -> IF v[1] = type[1] THEN v ELSE Refused
    [] type[1] = "literal" -> IF v = type[2] THEN <<"literal", v>> ELSE Refused
    [] type[1] = "enum" ->
         IF v \in type[2]
         THEN <<"enum", CHOOSE n \in DOMAIN SetToSeq(type[2]) : SetToSeq(type[2])[n] = v, v>>
         ELSE Refused
    [] type[1] = "array" ->
         IF v[1] # "array" THEN Refused
         ELSE Whole("array", [n \in DOMAIN v[2] |-> Encode(type[2], v[2][n])])
    [] type[1] = "tuple" ->
         IF v[1] # "array" \/ Len(v[2]) # Len(type[2]) THEN Refused
         ELSE Whole("tuple", [n \in DOMAIN v[2] |-> Encode(type[2][n], v[2][n])])
    [] type[1] = "object" ->
         IF v[1] # "object" THEN Refused
         ELSE Fields(type[2], v[2], [n \in DOMAIN type[2] \cap DOMAIN v[2] |->
                                       Encode(type[2][n].type, v[2][n])])
    [] type[1] = "union" -> FirstVariant([n \in DOMAIN type[2] |-> Encode(type[2][n], v)])

----------------------------------------------------------------------------
\* The two ways to write a tree

Mark(m) == <<<<"mark", m>>>>
Word(s) == <<<<"word", s>>>>
Quoted(s) == <<<<"quoted", s>>>>
List(open, texts, close) ==
  Mark(open) \o FlattenSeq([n \in DOMAIN texts |->
                  IF n = 1 THEN texts[n] ELSE Mark(",") \o texts[n]]) \o Mark(close)

\* "true", "false" and "null"
TrueWord == <<116, 114, 117, 101>>
FalseWord == <<102, 97, 108, 115, 101>>
NullWord == <<110, 117, 108, 108>>
BooleanWord(b) == IF b THEN TrueWord ELSE FalseWord

Letters == (65..90) \cup (97..122) \cup {95}

\* _BARE_TOKEN and _RESERVED_TOKENS
Bare(s) ==
  /\ s # <<>> /\ s[1] \in Letters
  /\ \A n \in DOMAIN s : s[n] \in Letters \cup (48..57) \cup {45, 46}
  /\ s \notin {TrueWord, FalseWord, NullWord}

CompactString(s) == IF Bare(s) THEN Word(s) ELSE Quoted(s)

\* _compact_value
RECURSIVE Compact(_)
Compact(tree) ==
  CASE tree[1] = "null" -> Word(NullWord)
    [] tree[1] = "boolean" -> Word(BooleanWord(tree[2]))
    [] tree[1] = "string" -> CompactString(tree[2])
    [] tree[1] = "number" -> Word(NumberString(tree[2]))
    [] tree[1] = "literal" -> Compact(tree[2])
    [] tree[1] \in {"enum", "union"} -> Compact(tree[3])
    [] tree[1] \in {"array", "tuple"} ->
         List("[", [n \in DOMAIN tree[2] |-> Compact(tree[2][n])], "]")
    [] tree[1] = "object" ->
         List("{", [n \in DOMAIN tree[2] |->
                     CompactString(tree[2][n][1]) \o Mark("=") \o Compact(tree[2][n][2])], "}")

\* _write_exact_json.  A tag is a string that stands where no other string does; the digits
\* of a number are those of its 64 bits.
Tagged(tag, texts) == List("[", <<Mark(tag)>> \o texts, "]")
RECURSIVE Exact(_)
Exact(tree) ==
  CASE tree[1] = "null" -> Tagged("null", <<>>)
    [] tree[1] = "boolean" -> Tagged("boolean", <<Word(BooleanWord(tree[2]))>>)
    [] tree[1] = "string" -> Tagged("string", <<Quoted(tree[2])>>)
    [] tree[1] = "number" -> Tagged("number", <<Quoted(NumberString(tree[2]))>>)
    [] tree[1] = "literal" -> Tagged("literal", <<Exact(tree[2])>>)
    [] tree[1] \in {"enum", "union"} ->
         Tagged(tree[1], <<Word(NumberString(tree[2])), Exact(tree[3])>>)
    [] tree[1] \in {"array", "tuple"} ->
         Tagged(tree[1], <<List("[", [n \in DOMAIN tree[2] |-> Exact(tree[2][n])], "]")>>)
    [] tree[1] = "object" ->
         Tagged("object", <<List("[", [n \in DOMAIN tree[2] |->
                      List("[", <<Quoted(tree[2][n][1]), Exact(tree[2][n][2])>>, "]")], "]")>>)

\* serialize_canonical_inputs
Serialize(version, schema, inputs) ==
  [n \in DOMAIN schema |-> IF version = 1 THEN Exact(Encode(schema[n], inputs[n]))
                           ELSE Compact(Encode(schema[n], inputs[n]))]
=============================================================================
