---------------------------- MODULE NodesFileMC ----------------------------
(* Small instance of NodesFile: all files of up to four lines, with three   *)
(* section names, and some longer ones.                                     *)
EXTENDS NodesFile

CONSTANTS FOO, node, other

Name(n) == [kind |-> "name", name |-> n]
Dollar(s) == [kind |-> "dollar", name |-> s]
Texts1 == {<<Name(node)>>, <<Dollar(ALL), Slash, Dollar(FOO), Slash, Dollar(FOO)>>}
SomeLines ==
  {header(s) : s \in {CLUSTER, ALL, FOO}} \union {entry("INCLUDE", t) : t \in Texts1}
  \union {entry("EXCLUDE", <<Name(other)>>), [kind |-> "other"], [kind |-> "blank"]}

Short == UNION {[1..n -> SomeLines] : n \in 0..4}
Margin == {header(s) : s \in {CLUSTER, ALL, FOO}}
Body == {entry("INCLUDE", <<Name(node)>>), entry("EXCLUDE", <<Name(other)>>)}
Long == {<<a, x, b, y, c, z>> : a \in Margin, b \in Margin, c \in Margin, x \in Body, y \in Body, z \in Body}
          \union {<<header(UP), x, header(DOWN), x, header(KEYS), x>> : x \in Body}

FilesDef == [lines : Short \union Long, ended : BOOLEAN] \union {Unreadable}
============================================================================
