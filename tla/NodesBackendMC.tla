--------------------------- MODULE NodesBackendMC ---------------------------
(* Small instance of NodesBackend: all files of up to three lines and some  *)
(* longer ones; three of them, that move nodes between two sections, are    *)
(* what other programs write.                                               *)
EXTENDS NodesBackend

CONSTANTS FOO, node, other

Name(n) == [kind |-> "name", name |-> n]
Dollar(s) == [kind |-> "dollar", name |-> s]
header(s) == [kind |-> "header", name |-> s]
entry(sign, t) == [kind |-> sign, text |-> t]

Include(n) == entry("INCLUDE", <<Name(n)>>)
Margin == {header(s) : s \in {CLUSTER, ALL, FOO}}
Body == {Include(node), entry("EXCLUDE", <<Name(other)>>)}
Slash == [kind |-> "slash"]
SomeLines ==
  Margin \union Body
  \union {entry("INCLUDE", <<Dollar(ALL), Slash, Dollar(FOO), Slash, Dollar(FOO)>>), [kind |-> "other"], [kind |-> "blank"]}

Short == UNION {[1..n -> SomeLines] : n \in 0..3}
Long == {<<a, x, b, y, c, z>> : a \in Margin, b \in Margin, c \in Margin, x \in Body, y \in Body, z \in Body}
          \union {<<header(UP), x, header(DOWN), x, header(KEYS), x>> : x \in Body}

Whole(lines) == [lines |-> lines, ended |-> TRUE]
ChangingDef ==
  {Whole(<<header(ALL), Include(node)>>), Whole(<<header(FOO), Include(node), header(ALL), Include(other)>>),
   Whole(<<header(ALL), Include(node), Include(other), header(FOO), Include(node)>>)}

LineDef == [lines : Short \union Long, ended : BOOLEAN] \union ChangingDef

ASSUME PlainAssumption == \A f \in Changing : Plain(f)
=============================================================================
