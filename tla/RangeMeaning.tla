---------------------------- MODULE RangeMeaning ----------------------------
(***************************************************************************)
(* What the documentation says a range expression is worth (README.md,     *)
(* "Range Syntax"), and that its evaluation returns that.                  *)
(***************************************************************************)
EXTENDS RangeEval

Matching(regex, names) == {n \in names : regex \notin BadRegex /\ Match(regex, n)}
OrEmpty(names) == IF names = {} THEN {<<>>} ELSE names

VipNodes(name) == UNION {Vips[v].nodes : v \in {w \in DOMAIN Vips : Vips[w].name = name}}

LooksUp(e) == e.op = "function" /\ e.fn = "cluster" /\ Len(e.kids) = 1

(* The names a cluster stands for, if M gives what every text is worth. *)
TextOf(M, name) == IF name \in DOMAIN Texts THEN M[Texts[name]] ELSE VipNodes(name)

(* The names an expression stands for, if M gives them for its parts and   *)
(* for the texts it looks up.                                              *)
Worth(M, e) ==
  LET All == TextOf(M, <<"all:CLUSTER">>)
      Left == M[e.kids[1]]
      Right == IF RegexOperand(e) THEN Matching(e.kids[2].regex, Left) ELSE M[e.kids[2]]
  IN CASE e.op \in {"literal", "string"} -> {e.name}
       [] e.op = "parts" -> e.names
       [] e.op = "union" -> Left \union M[e.kids[2]]
       [] e.op = "diff"  -> Left \ Right
       [] e.op = "inter" -> Left \intersect Right
       [] e.op = "not"   -> All \ Left
       [] e.op = "regex" -> Matching(e.regex, All)
       [] e.op = "braces" ->
            {b[1] \o b[2] \o b[3] :
               b \in OrEmpty(Left) \X OrEmpty(M[e.kids[2]]) \X OrEmpty(M[e.kids[3]])}
       [] e.op = "function" -> IF LooksUp(e) THEN UNION {TextOf(M, n) : n \in Left} ELSE {}
       [] OTHER -> {}

Meaning[e \in Expression] == Worth(Meaning, e)

(* The expressions met when e is evaluated, if M gives those met by its    *)
(* operands and by the texts it looks up.                                  *)
Named(e) == IF LooksUp(e) THEN Meaning[e.kids[1]] ELSE {}
Meets(M, e) ==
  {e} \union (UNION {M[Operands(e)[i]] : i \in 1..Len(Operands(e))})
      \union (UNION {M[Texts[n]] : n \in Named(e) \intersect DOMAIN Texts})

Met[e \in Expression] == Meets(Met, e)

(* The texts do not go round in circles: else an evaluation does not end,  *)
(* and these definitions do not say what anything is worth.                *)
ASSUME MeaningAssumption == \A e \in Expression : Meaning[e] = Worth(Meaning, e)
ASSUME MetAssumption     == \A e \in Expression : Met[e] = Meets(Met, e)

(* Nothing is met again below itself, and what is met is finite.           *)
NoCircles ==
  \A e \in Expression :
    /\ IsFiniteSet(Met[e]) /\ IsFiniteSet(Named(e))
    /\ \A i \in 1..Len(Operands(e)) : e \notin Met[Operands(e)[i]]
    /\ \A n \in Named(e) \intersect DOMAIN Texts : e \notin Met[Texts[n]]

Patterns(e) ==
  CASE e.op = "regex" -> {e.regex}
    [] RegexOperand(e) -> {e.kids[2].regex}
    [] OTHER -> {}

(* A look-up or a pattern sees the quotes of the names it is given. *)
Quotes(e) == \E p \in Met[e] : p.op = "string"
SeesQuotes(e) == (LooksUp(e) \/ Patterns(e) # {}) /\ Quotes(Operands(e)[1])

(* What of an expression makes a result smaller. *)
Missing(e) ==
  CASE e.op = "unparsable" -> {"PARSE"}
    [] e.op = "function" /\ e.fn # "cluster" -> {"NO_FUNCTION"}
    [] Patterns(e) \intersect BadRegex # {} -> {"REGEX"}
    [] ~(Named(e) \subseteq DOMAIN Texts \union VipNames) -> {"NOCLUSTER"}
    [] OTHER -> {}
Warnings(e) == UNION {Missing(p) : p \in Met[e]}

(***************************************************************************)
(* Which expressions leave the cached VIPs alone.  The name of a VIP set   *)
(* ends in a symbol (":VIPS") that other names do not have.                *)
(***************************************************************************)
VipMarks == {Last(Vips[v].name) : v \in DOMAIN Vips}
PlainName == Seq(Symbol \ VipMarks)

(* Look-ups of one name written out, and those whose value is a cached set. *)
Direct(e) == LooksUp(e) /\ e.kids[1].op = "literal"
AsksVips(e) == Direct(e) /\ e.kids[1].name \in VipNames

Plain(e) == ~AsksVips(e) /\ (e.op = "literal" => e.name \in PlainName)

(* The VIPs of a cluster that has some are asked for by name, alone or on  *)
(* the right of a difference, and nowhere else; only there is their name   *)
(* written.                                                                *)
SparesVips ==
  /\ Quote \notin VipMarks /\ \A v \in DOMAIN Vips : Vips[v].name # <<>>
  /\ \A n \in DOMAIN Texts : Plain(Texts[n])
  /\ \A e \in Expression :
       /\ e.op = "string" => e.name \in PlainName
       /\ e.op = "parts" => e.names \subseteq PlainName
       /\ AsksVips(e) => VipNodes(e.kids[1].name) # {}
       /\ \A i \in 1..Len(Operands(e)) : \/ Plain(Operands(e)[i])
                                         \/ Direct(e)
                                         \/ e.op = "diff" /\ i = 2

Answered == stack = <<>> /\ rr_r # <<>>
Exposed == \E p \in Met[query] : SeesQuotes(p)
Value == Nodes(rr_r[1])

(* The value of an expression is what is documented, whichever operands    *)
(* were overwritten to compute it and however often a text was evaluated   *)
(* below it; except that patterns and look-ups see the quotes of quoted    *)
(* names.                                                                  *)
ResultExact == Answered /\ ~Exposed => Value = Meaning[query]

(* A request warns exactly of what made its result smaller: texts that do  *)
(* not parse, patterns that do not compile, functions and clusters that do *)
(* not exist, anywhere in the texts it went through.                       *)
WarnedExactly == Answered /\ ~Exposed => warned = Warnings(query)

(* README.md: a cluster's section is the nodes defined in its file.  The   *)
(* VIPs of a cluster are what its file said when it was read.              *)
VipsDocumented ==
  Answered /\ query.op = "function" /\ query.fn = "cluster" => Value = Meaning[query]
=============================================================================
