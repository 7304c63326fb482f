---------------------------- MODULE RangeEvalMC ----------------------------
(* Expressions up to a small size over a handful of names, clusters that   *)
(* name one another, and patterns that match by symbol.                    *)
EXTENDS RangeMeaning

MCSymbol == {"a", "b", "c", "d", "e", "q", "v", "w", "x", "y", "z", "all:CLUSTER", "quote"}

Lit(n)     == [op |-> "literal", name |-> <<n>>]
Str(n)     == [op |-> "string", name |-> <<n>>]
PartsOf(ns) == [op |-> "parts", names |-> {<<n>> : n \in ns}]
Re(x)      == [op |-> "regex", regex |-> x]
Empty      == [op |-> "nothing"]
Garbage    == [op |-> "unparsable"]
Pair(o, l, r) == [op |-> o, kids |-> <<l, r>>]
Bare(l, m, r) == [op |-> "braces", kids |-> <<l, m, r>>]
NotIn(e)   == [op |-> "not", kids |-> <<e>>]
Call(f, es) == [op |-> "function", fn |-> f, kids |-> es]
Cluster(e) == Call("cluster", <<e>>)

(* A pattern is a symbol that occurs in the name, or a first symbol. *)
MCMatch(regex, n) ==
  CASE regex = "a" -> \E i \in DOMAIN n : n[i] = "a"
    [] regex = "^b" -> n # <<>> /\ n[1] = "b"
    [] regex = "all" -> TRUE
    [] OTHER -> FALSE
MCBadRegex == {"("}

MCTexts ==
  <<"all:CLUSTER">> :> Pair("union", PartsOf({"a", "b", "c"}), Cluster(Lit("x")))
    @@ <<"x">> :> Pair("diff", Pair("union", Lit("a"), Lit("d")), Re("a"))
    @@ <<"y">> :> Pair("union", Cluster(Pair("union", Lit("x"), Lit("q"))), Str("b"))
    @@ <<"z">> :> Garbage

Atoms == {Lit("a"), PartsOf({"a", "b"}), PartsOf({}), Empty, Re("a"), Re("("),
          Cluster(Lit("x")), Call("nope", <<Lit("a"), Lit("b")>>)}
Left  == Atoms \union {Str("b"), PartsOf({"b", "c", "d"}), Re("^b"), Cluster(PartsOf({"x", "y", "z"})),
          Cluster(Str("x")), Call("cluster", <<Lit("x"), Lit("y")>>)}

Pairs(L, R) == {Pair(o, l, r) : o \in {"union", "diff", "inter"}, l \in L, r \in R}
MCQueries ==
  Left \union Pairs(Left, Left)
    \union Pairs({Pair("union", Str("b"), Lit("a")), Pair("diff", PartsOf({"a", "b"}), Re("a")),
                  Pair("inter", PartsOf({"a", "b"}), Cluster(Lit("x"))), NotIn(PartsOf({"a", "d"}))}, Left)
    \union {NotIn(e) : e \in Left}
    \union {Bare(l, m, r) : l \in Atoms, m \in Left, r \in {Empty, Str("c"), PartsOf({"a", "b"})}}
    \union {Cluster(e) : e \in Left \union {Pair("union", l, Lit("y")) : l \in {Lit("x"), Str("x"), Lit("q")}}}
    \union {Cluster(Lit("v"))} \union {Pair("diff", l, Cluster(Lit("v"))) : l \in Left}

(* The cluster with nodes v; w has none.                                    *)
TwoVips == <<[name |-> <<"v">>, nodes |-> {<<"a">>, <<"e">>}], [name |-> <<"w">>, nodes |-> {}]>>
VipQueries == LET v == Cluster(Lit("v")) w == Cluster(Lit("w"))
              IN {v, w, Pair("union", v, Lit("b")), Pair("union", v, w)}

(* The expressions asked for, the texts, and all their parts. *)
PartsIn(es) == es \union UNION {{e.kids[i] : i \in DOMAIN e.kids} : e \in {d \in es : "kids" \in DOMAIN d}}
AllParts(es) == PartsIn(PartsIn(PartsIn(PartsIn(es \union {MCTexts[n] : n \in DOMAIN MCTexts} \union {AllNodes}))))
AllExpressions == AllParts(MCQueries)
VipExpressions == AllParts(VipQueries)

(* One name more, so that TLC evaluates each of these only once. *)
MCExpression == AllExpressions
VipExpressionDef == VipExpressions
QueriesDef == MCQueries
TextsDef == MCTexts
VipsDef == TwoVips

(* The first run spares the cached VIPs; the second one is of what does not. *)
ASSUME VipsSpared == SparesVips <=> Queries = QueriesDef

(* The clusters name one another, but none is below itself.                *)
ASSUME TextsEnd == NoCircles
=============================================================================
