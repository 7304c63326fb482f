----------------------------- MODULE RangeEval -----------------------------
(***************************************************************************)
(* Evaluation of a parsed range expression: range_evaluate of ast.c with   *)
(* the range objects of range.c it builds, merges and destroys, the        *)
(* function "cluster", whose texts are evaluated by do_range_expand under  *)
(* the evaluation that asked for them, and the cached VIP sets nodescf.c   *)
(* hands out.                                                              *)
(*                                                                         *)
(* A name is a sequence of symbols, so that braces concatenate and quoting *)
(* adds symbols.  A range object is a pointer to a set and a quoted flag;  *)
(* the sets live in a heap and are destroyed there.  The C stack is        *)
(* explicit: a frame holds the ranges its subexpressions have returned.    *)
(***************************************************************************)
EXTENDS Naturals, Sequences, SequencesExt, FiniteSets

CONSTANTS
  Symbol,           \* what names are made of
  Expression,       \* syntax trees: those asked for, and their parts
  Queries,          \* the expressions a program asks for
  Texts,            \* the text, parsed, of every name "cluster" can look up
  Vips,             \* cached VIP sets: [name, nodes] each
  Match(_, _),      \* Match(regex, name): pcre_exec finds the pattern
  BadRegex          \* patterns that pcre_compile rejects

Name == Seq(Symbol)
Quote == "quote"

ASSUME SymbolAssumption == Quote \in Symbol

(* NOT and REGEX begin with cluster("all:CLUSTER"). *)
AllLiteral == [op |-> "literal", name |-> <<"all:CLUSTER">>]
AllNodes == [op |-> "function", fn |-> "cluster", kids |-> <<AllLiteral>>]

(* What the parser builds. *)
SyntaxOK(e) ==
  /\ e.op \in {"literal", "string"} => e.name \in Name
  /\ e.op = "parts" => e.names \in SUBSET Name
  /\ e.op \in {"union", "diff", "inter"} => e.kids \in [1..2 -> Expression]
  /\ e.op = "not" => e.kids \in [1..1 -> Expression]
  /\ e.op = "braces" => e.kids \in [1..3 -> Expression]
  /\ e.op = "function" => e.kids \in Seq(Expression)

ASSUME SyntaxAssumption == \A e \in Expression : SyntaxOK(e)
ASSUME TextsAssumption  == /\ {AllLiteral, AllNodes} \union Queries \subseteq Expression
                           /\ \A n \in DOMAIN Texts : Texts[n] \in Expression
ASSUME VipsAssumption   == /\ Vips \in Seq([name : Name, nodes : SUBSET Name])
                           /\ \A v \in DOMAIN Vips : /\ Vips[v].name \notin DOMAIN Texts
                                                    /\ IsFiniteSet(Vips[v].nodes)
                           /\ \A v, w \in DOMAIN Vips : Vips[v].name = Vips[w].name => v = w

VARIABLES
  nodes,    \* the sets: nodes[s] is what set s holds
  live,     \* the sets that are not destroyed
  stack,    \* the active calls, innermost last
  rr_r,     \* rr->r: <<>> or the range a do_range_expand returned last
  warned,   \* kinds of warnings the request has recorded
  query     \* the expression asked for

sets == <<nodes, live>>
vars == <<sets, stack, rr_r, warned, query>>

NoQuery == [op |-> "nothing"]

(***************************************************************************)
(* Range objects.                                                          *)
(***************************************************************************)
RangeOf(s, q) == [set |-> s, quoted |-> q]
Nodes(r)     == nodes[r.set]
Bigger(r1, r2) == Cardinality(Nodes(r1)) > Cardinality(Nodes(r2))

(* range_get_hostnames: the names of a quoted range come with the quotes. *)
Hostnames(r) == IF r.quoted THEN {<<Quote>> \o n \o <<Quote>> : n \in Nodes(r)} ELSE Nodes(r)

(* What range_from_match returns is never quoted. *)
Matches(regex, r) == IF regex \in BadRegex THEN {} ELSE {n \in Hostnames(r) : Match(regex, n)}

Destroy(ranges) == live' = live \ {r.set : r \in ranges}

(* A new set, once some are destroyed. *)
Fresh == Len(nodes) + 1
Allocate(names, ranges) ==
  /\ nodes' = Append(nodes, names)
  /\ live' = (live \ {r.set : r \in ranges}) \union {Fresh}

(* range_union_inplace(keep, drop), then range_destroy(drop). *)
Merge(keep, drop) ==
  /\ nodes' = [nodes EXCEPT ![keep.set] = @ \union Nodes(drop)]
  /\ Destroy({drop})

(***************************************************************************)
(* Frames.  A frame that evaluates the whole of a text is a                *)
(* do_range_expand, and leaves its value in rr->r.                         *)
(***************************************************************************)
Evaluation(e, root) == [at |-> "ast", expr |-> e, root |-> root, todo |-> {}, vals |-> <<>>]

Top == stack[Len(stack)]
Vals == Top.vals
WithVals(v) == [stack EXCEPT ![Len(stack)].vals = v]

Return(r) ==
  LET below == Front(stack) IN
  /\ stack' = IF below = <<>> THEN <<>>
              ELSE [below EXCEPT ![Len(below)].vals = Append(@, r)]
  /\ rr_r' = IF Top.root THEN <<r>> ELSE rr_r

ReturnNew(names, quoted, destroyed) ==
  Allocate(names, destroyed) /\ Return(RangeOf(Fresh, quoted))

Warn(kinds) == warned' = warned \union kinds

(***************************************************************************)
(* range_evaluate: which subexpressions an expression evaluates first.     *)
(***************************************************************************)
RegexOperand(e) == e.op \in {"diff", "inter"} /\ e.kids[2].op = "regex"

Operands(e) ==
  CASE e.op \in {"union", "braces", "function"} -> e.kids
    [] e.op \in {"diff", "inter"} -> IF RegexOperand(e) THEN <<e.kids[1]>> ELSE e.kids
    [] e.op = "not" -> <<AllNodes, e.kids[1]>>
    [] e.op = "regex" -> <<AllNodes>>
    [] OTHER -> <<>>

Evaluating == stack # <<>> /\ Top.at = "ast"

Descend ==
  /\ Evaluating /\ Len(Vals) < Len(Operands(Top.expr))
  /\ stack' = Append(stack, Evaluation(Operands(Top.expr)[Len(Vals) + 1], FALSE))
  /\ UNCHANGED <<sets, rr_r, warned, query>>

Ready(op) == Evaluating /\ Top.expr.op = op /\ Len(Vals) = Len(Operands(Top.expr))

Literal ==
  /\ Ready("literal") /\ ReturnNew({Top.expr.name}, FALSE, {})
  /\ UNCHANGED <<warned, query>>

NonrangeLiteral ==
  /\ Ready("string") /\ ReturnNew({Top.expr.name}, TRUE, {})
  /\ UNCHANGED <<warned, query>>

(* The names of a-b, whose padding and bounds are another module's. *)
Parts ==
  /\ Ready("parts") /\ ReturnNew(Top.expr.names, FALSE, {})
  /\ UNCHANGED <<warned, query>>

Nothing ==
  /\ Ready("nothing") /\ ReturnNew({}, FALSE, {})
  /\ UNCHANGED <<warned, query>>

(* A text that does not parse is worth nothing, with a warning. *)
Unparsable ==
  /\ Ready("unparsable") /\ ReturnNew({}, FALSE, {})
  /\ Warn({"PARSE"}) /\ UNCHANGED query

(* The bigger operand takes in the other, and is the result. *)
Union ==
  /\ Ready("union")
  /\ LET keep == IF Bigger(Vals[1], Vals[2]) THEN Vals[1] ELSE Vals[2]
         drop == IF Bigger(Vals[1], Vals[2]) THEN Vals[2] ELSE Vals[1]
     IN Merge(keep, drop) /\ Return(keep)
  /\ UNCHANGED <<warned, query>>

RegexWarning_fault == {}
RegexWarning == IF Top.expr.kids[2].regex \in BadRegex THEN {"REGEX"} ELSE {}

Diff_fault ==
  /\ Ready("diff")
  /\ IF RegexOperand(Top.expr)
     THEN /\ nodes' = [nodes EXCEPT ![Vals[1].set] = @ \ Matches(Top.expr.kids[2].regex, Vals[1])]
          /\ Warn(RegexWarning) /\ live' = live
     ELSE /\ nodes' = [nodes EXCEPT ![Vals[1].set] = @ \ Nodes(Vals[2])]
          /\ Warn({}) /\ Destroy({Vals[2]})
  /\ Return(Vals[1])
  /\ UNCHANGED query

(* The left operand is the result; the right one is not destroyed. *)
Diff ==
  /\ Ready("diff")
  /\ LET r1 == Vals[1] IN
     /\ \/ /\ RegexOperand(Top.expr) /\ Warn(RegexWarning)
           /\ LET matched == Matches(Top.expr.kids[2].regex, r1)
              IN /\ nodes' = Append([nodes EXCEPT ![r1.set] = @ \ matched], matched)
                 /\ live' = live \union {Fresh}
        \/ /\ ~RegexOperand(Top.expr) /\ Warn({})
           /\ nodes' = [nodes EXCEPT ![r1.set] = @ \ Nodes(Vals[2])]
           /\ live' = live
     /\ Return(r1)
  /\ UNCHANGED query

Inter ==
  /\ Ready("inter")
  /\ LET r1 == Vals[1] IN
     \/ /\ RegexOperand(Top.expr) /\ Warn(RegexWarning)
        /\ ReturnNew(Nodes(r1) \intersect Matches(Top.expr.kids[2].regex, r1), r1.quoted, {r1})
     \/ /\ ~RegexOperand(Top.expr) /\ Warn({})
        /\ ReturnNew(Nodes(r1) \intersect Nodes(Vals[2]), r1.quoted \/ Vals[2].quoted,
                     {r1, Vals[2]})
  /\ UNCHANGED query

Not ==
  /\ Ready("not")
  /\ nodes' = [nodes EXCEPT ![Vals[1].set] = @ \ Nodes(Vals[2])]
  /\ Destroy({Vals[2]})
  /\ Return(Vals[1])
  /\ UNCHANGED <<warned, query>>

Regex ==
  /\ Ready("regex")
  /\ ReturnNew(Matches(Top.expr.regex, Vals[1]), FALSE, {Vals[1]})
  /\ Warn(IF Top.expr.regex \in BadRegex THEN {"REGEX"} ELSE {})
  /\ UNCHANGED query

(* An empty part of a brace stands for the empty name. *)
Factor_fault(r) == Nodes(r)
Factor(r) == IF Nodes(r) = {} THEN {<<>>} ELSE Nodes(r)

Braces ==
  /\ Ready("braces")
  /\ ReturnNew({b[1] \o b[2] \o b[3] : b \in Factor(Vals[1]) \X Factor(Vals[2]) \X Factor(Vals[3])},
               Vals[1].quoted \/ Vals[2].quoted \/ Vals[3].quoted, {Vals[1], Vals[2], Vals[3]})
  /\ UNCHANGED <<warned, query>>

(***************************************************************************)
(* Functions.  "cluster" starts from an empty range; called with any other *)
(* number of arguments than one it returns that.                           *)
(***************************************************************************)
NoFunction ==
  /\ Ready("function") /\ Top.expr.fn # "cluster"
  /\ Allocate({}, {})
  /\ stack' = WithVals(Append(Vals, RangeOf(Fresh, FALSE)))
  /\ Warn({"NO_FUNCTION"}) /\ UNCHANGED <<rr_r, query>>

CallCluster ==
  /\ Ready("function") /\ Top.expr.fn = "cluster"
  /\ Allocate({}, {})
  /\ stack' = Append(stack,
       [at |-> "cluster", expr |-> Top.expr, root |-> FALSE,
        todo |-> IF Len(Vals) = 1 THEN Hostnames(Vals[1]) ELSE {},
        vals |-> <<RangeOf(Fresh, FALSE)>>])
  /\ UNCHANGED <<rr_r, warned, query>>

FunctionDone_fault ==
  /\ Evaluating /\ Top.expr.op = "function" /\ Len(Vals) = Len(Operands(Top.expr)) + 1
  /\ Destroy({Vals[i] : i \in 1..Len(Operands(Top.expr)) + 1}) /\ nodes' = nodes
  /\ Return(Vals[Len(Vals)])
  /\ UNCHANGED <<warned, query>>

(* The call has returned: its arguments are destroyed. *)
FunctionDone ==
  /\ Evaluating /\ Top.expr.op = "function" /\ Len(Vals) = Len(Operands(Top.expr)) + 1
  /\ Destroy({Vals[i] : i \in 1..Len(Operands(Top.expr))}) /\ nodes' = nodes
  /\ Return(Vals[Len(Vals)])
  /\ UNCHANGED <<warned, query>>

InCluster(n) == stack # <<>> /\ Top.at = "cluster" /\ Len(Vals) = n

Looking(name) == [stack EXCEPT ![Len(stack)].todo = @ \ {name}]

ExpandText ==
  /\ InCluster(1)
  /\ \E name \in Top.todo \intersect DOMAIN Texts :
       stack' = Append(Looking(name), Evaluation(Texts[name], TRUE))
  /\ UNCHANGED <<sets, rr_r, warned, query>>

VipNames == {Vips[v].name : v \in DOMAIN Vips}

NoCluster ==
  /\ InCluster(1)
  /\ \E name \in Top.todo \ (DOMAIN Texts \union VipNames) :
       stack' = [Looking(name) EXCEPT ![Len(stack)].vals = Append(@, RangeOf(Fresh, FALSE))]
  /\ Allocate({}, {})
  /\ Warn({"NOCLUSTER"}) /\ UNCHANGED <<rr_r, query>>

(* _cluster_vips: a new range around the set in the cache. *)
CachedVips ==
  /\ InCluster(1)
  /\ \E v \in DOMAIN Vips :
       /\ Vips[v].name \in Top.todo
       /\ stack' = [Looking(Vips[v].name) EXCEPT ![Len(stack)].vals = Append(@, RangeOf(v, FALSE))]
  /\ UNCHANGED <<sets, rr_r, warned, query>>

MergeCluster_fault ==
  /\ InCluster(2)
  /\ LET keep == IF Bigger(Vals[2], Vals[1]) THEN Vals[2] ELSE Vals[1]
     IN Merge(keep, Vals[2]) /\ stack' = WithVals(<<keep>>)
  /\ UNCHANGED <<rr_r, warned, query>>

(* ret and r1 change places when r1 is bigger; then r1 is merged into ret. *)
MergeCluster ==
  /\ InCluster(2)
  /\ LET keep == IF Bigger(Vals[2], Vals[1]) THEN Vals[2] ELSE Vals[1]
         drop == IF Bigger(Vals[2], Vals[1]) THEN Vals[1] ELSE Vals[2]
     IN Merge(keep, drop) /\ stack' = WithVals(<<keep>>)
  /\ UNCHANGED <<rr_r, warned, query>>

ClusterDone_fault == InCluster(1) /\ Top.todo = {} /\ UNCHANGED vars

ClusterDone ==
  /\ InCluster(1) /\ Top.todo = {}
  /\ Return(Vals[1])
  /\ UNCHANGED <<sets, warned, query>>

(***************************************************************************)
(* A request has a pool of its own: what earlier ones left is gone, but    *)
(* for the cache.                                                          *)
(***************************************************************************)
Ask(q) ==
  /\ stack = <<>>
  /\ nodes' = SubSeq(nodes, 1, Len(Vips)) /\ live' = live \intersect DOMAIN Vips
  /\ stack' = <<Evaluation(q, TRUE)>>
  /\ rr_r' = <<>> /\ warned' = {} /\ query' = q

Init ==
  /\ nodes = [v \in DOMAIN Vips |-> Vips[v].nodes] /\ live = DOMAIN Vips
  /\ stack = <<>> /\ rr_r = <<>> /\ warned = {} /\ query = NoQuery

Step == \/ Descend \/ Literal \/ NonrangeLiteral \/ Parts \/ Nothing \/ Unparsable
        \/ Union \/ Diff \/ Inter \/ Not \/ Regex \/ Braces
        \/ NoFunction \/ CallCluster \/ FunctionDone
        \/ ExpandText \/ NoCluster \/ CachedVips \/ MergeCluster \/ ClusterDone

Next == Step \/ \E q \in Queries : Ask(q)

Spec == Init /\ [][Next]_vars

(* An evaluation never waits for anything. *)
LiveSpec == Spec /\ WF_vars(Step)

(***************************************************************************)
(* Properties.                                                             *)
(***************************************************************************)

(* Types: operands come back one at a time, a loop of "cluster" holds its  *)
(* result and at most one more range, and every frame below the top waits  *)
(* for the one above it.                                                   *)
Returned(f) == IF f.expr.op = "function" THEN Len(Operands(f.expr)) + 1 ELSE Len(Operands(f.expr))

Frame == [at : {"ast", "cluster"}, expr : Expression, root : BOOLEAN, todo : SUBSET Name,
          vals : Seq([set : DOMAIN nodes, quoted : BOOLEAN])]

Waits(f, g) ==
  CASE f.at = "cluster" -> g.at = "ast" /\ Len(f.vals) = 1
    [] f.at = "ast" /\ g.at = "ast" -> Len(f.vals) < Len(Operands(f.expr))
    [] OTHER -> f.expr.op = "function" /\ Len(f.vals) = Len(Operands(f.expr))

TypeOK ==
  /\ nodes \in Seq(SUBSET Name) /\ live \subseteq DOMAIN nodes
  /\ stack \in Seq(Frame)
  /\ \A k \in DOMAIN stack : IF stack[k].at = "ast" THEN Len(stack[k].vals) <= Returned(stack[k])
                             ELSE Len(stack[k].vals) \in 1..2
  /\ \A k \in 1..Len(stack) - 1 : Waits(stack[k], stack[k + 1])
  /\ stack # <<>> => stack[1].at = "ast"
  /\ rr_r \in Seq([set : DOMAIN nodes, quoted : BOOLEAN])

(* A range that some call still has in hand has not been destroyed, and no *)
(* two hold the same set: so nothing is read or destroyed after it was     *)
(* destroyed, whichever operand a union or a merge keeps.                  *)
OwnedOnce ==
  \A k \in DOMAIN stack : \A i \in DOMAIN stack[k].vals :
    /\ stack[k].vals[i].set \in live
    /\ \A l \in DOMAIN stack : \A j \in DOMAIN stack[l].vals :
         stack[k].vals[i].set = stack[l].vals[j].set => k = l /\ i = j

(* rr->r dangles while inner expansions come and go, but not when the      *)
(* request's caller reads it.                                              *)
ResultLive == stack = <<>> /\ rr_r # <<>> => rr_r[1].set \in live

(* The cache of VIPs is what its file said. *)
VipsKept == \A v \in DOMAIN Vips : v \in live /\ nodes[v] = Vips[v].nodes

(* Every request ends. *)
EvaluationEnds == stack # <<>> ~> stack = <<>>
=============================================================================
