--------------------------- MODULE MCVerification ---------------------------
(* Seven functions that are followed beyond the compilation, one of them with an  *)
(* example that breaks its constraint; one without an example; and the predicates *)
(* of depth two over a schema with every kind of input, which are only compiled.  *)
EXTENDS CompiledPredicates, CanonicalInput, TLC
CONSTANTS x, y

a == <<97>>
b == <<98>>
zero == <<48>>
MCStrings == {<<>>, zero}
In(name) == <<"input", name>>
Lit(v) == <<"literal", v>>
Binary(op, l, r) == <<"binary", op, l, r>>
Always(p, l) == [kind |-> "always", predicate |-> p, output |-> l]
Never(p, l) == [kind |-> "never", predicate |-> p, output |-> l]
Declare(teacher, schema, rules, input, output) ==
  [teacher |-> teacher, schema |-> schema, constraints |-> rules,
   examples |-> <<[inputs |-> input, output |-> output]>>]

\* flag: "true" | boolean
Flag == [flag |-> <<"union", <<<<"literal", String(TrueWord)>>, <<"boolean">>>>>>]

\* amount: number, vip: boolean
Purchase == [amount |-> <<"number">>, vip |-> <<"boolean">>]
Small == [amount |-> Number(0), vip |-> Boolean(FALSE)]
High == Binary(">=", In("amount"), Lit(Number(1)))
Both == Binary("&&", High, In("vip"))

\* u: {a: "a", b: number} | {a: "b", b: number}
Variant(s) == <<"object", a :> [type |-> <<"literal", String(s)>>, optional |-> FALSE]
                          @@ b :> [type |-> <<"number">>, optional |-> FALSE]>>
Union == [u |-> <<"union", <<Variant(a), Variant(b)>>>>]
First == Binary("===", <<"property", In("u"), a>>, Lit(String(a)))
Other == <<"unary", "!", First>>
Of(s, n) == [u |-> <<"object", a :> String(s) @@ b :> Number(n)>>]

MCFollowed ==
  {Declare("model", Purchase, <<Always(High, y)>>, Small, x),
   Declare("mixed", Purchase, <<Always(High, y)>>, Small, x),
   Declare("mixed", Purchase, <<>>, Small, x),
   Declare("constraints", Purchase, <<Always(Both, y), Never(<<"unary", "!", Both>>, y)>>, Small, x),
   Declare("constraints", Union, <<Always(First, y), Never(Other, y)>>, Of(b, 0), x),
   Declare("model", Flag, <<>>, [flag |-> String(TrueWord)], x),
   Declare("model", Purchase, <<Never(High, x)>>, [Small EXCEPT !.amount = Number(1)], x)}

Probe == [r |-> <<"object", a :> [type |-> <<"number">>, optional |-> FALSE]
                            @@ b :> [type |-> <<"string">>, optional |-> TRUE]>>,
          l |-> <<"array", <<"number">>>>,
          p |-> <<"tuple", <<<<"number">>, <<"boolean">>>>>>,
          k |-> <<"enum", {String(a), String(b)}>>,
          n |-> <<"number">>]
Names == {In(name) : name \in DOMAIN Probe}
Terms == Names \cup {Lit(v) : v \in {Number(0), Number(1), String(a), String(Length), String(zero),
                                      Boolean(TRUE), Null}}
Reads == {<<"property", o, name>> : o \in Names, name \in {a, b, Length}}
         \cup {<<"index", o, i>> : o \in Names, i \in Terms}
Inner == Terms \cup Reads \cup {<<"unary", op, t>> : op \in {"!", "-"}, t \in Names}
Readable == {e \in Inner : TypesOf(e, Probe) # {}}
Probes == {Binary(op, l, r) : op \in {"===", "<"}, l \in Readable \cap Reads, r \in Readable}
          \cup {Binary("<", Binary(op, l, r), Lit(Number(1))) :
                  op \in {"-", "/"}, l \in Readable, r \in Names \cup {Lit(Number(0))}}
          \cup {Binary(op, Binary("<", In("n"), Lit(Number(1))), r) : op \in {"&&", "||"}, r \in Inner}

Schemas == {Purchase, Union, Flag, Probe}
Spaces == [schema \in Schemas |-> InputsOf(schema)]
MCSpace(schema) == Spaces[schema]

MCDeclarations ==
  MCFollowed
  \cup {Declare("model", Probe, <<Always(p, x)>>, CHOOSE i \in Spaces[Probe] : TRUE, x) : p \in Probes}
  \cup {[teacher |-> "mixed", schema |-> Purchase, constraints |-> <<>>, examples |-> <<>>]}

\* Every text of an input stands for that input alone (canonical_input.py: "canonical and
\* injective over validated inputs"), in both versions.
ASSUME CanonicalIsInjective ==
  \A schema \in Schemas :
    /\ \A n \in DOMAIN schema : Valid(schema[n])
    /\ \A version \in {1, 2} :
         Cardinality({Serialize(version, schema, i) : i \in Spaces[schema]})
           = Cardinality(Spaces[schema])

\* The texts of version 2.
TextTable == [schema \in Schemas |-> [i \in Spaces[schema] |-> Serialize(2, schema, i)]]
MCCanonical(schema, i) == TextTable[schema][i]

EditTable == [schema \in {Purchase, Union, Flag} |-> [i \in Spaces[schema] |-> InputEdits(schema, i)]]
MCEdits(schema, i) == EditTable[schema][i]

\* The types of the schemas with their parts, and the expressions of a function's predicates.
RECURSIVE PartsOf(_), OperandsOf(_), HeightOf(_)
PartsOf(type) == {type} \cup UNION {PartsOf(part) : part \in Parts(type)}
OperandsOf(e) == {e} \cup UNION {OperandsOf(Operands(e)[n]) : n \in DOMAIN Operands(e)}
HeightOf(parts) == IF parts = {} THEN 0 ELSE 1 + Max({HeightOf(Parts(part)) : part \in parts})

AllTypes == UNION {UNION {PartsOf(schema[n]) : n \in DOMAIN schema} : schema \in Schemas}
System == [inputTypes |-> AllTypes,
           depth |-> [type \in AllTypes |-> HeightOf(Parts(type))],
           static |-> [type \in AllTypes |-> StaticTypes(type)],
           fits |-> UNION {{<<v, type>> : v \in ValuesOf(type)} : type \in AllTypes}]
Meaning(f) ==
  LET E == UNION {OperandsOf(f.constraints[k].predicate) : k \in DOMAIN f.constraints}
  IN  [expressions |-> E,
       depth |-> [e \in E |-> Cardinality(OperandsOf(e))],
       types |-> [e \in E |-> TypesOf(e, f.schema)],
       values |-> [i \in Spaces[f.schema] |-> [e \in E |-> Evaluate(e, i)]]]

\* What the recursion over types and expressions computes is an interpretation, as the theorem
\* about compiled predicates asks for: of the functions followed, and of those that compare what
\* they read of an input with itself.
ASSUME RecursionInterprets ==
  /\ Typed(System)
  /\ \A f \in MCFollowed \cup {g \in MCDeclarations : g.schema = Probe} :
       (f.schema = Probe => LET p == f.constraints[1].predicate IN p[2] = "===" /\ p[3] = p[4])
         => Interprets(System, Meaning(f), f)
=============================================================================
