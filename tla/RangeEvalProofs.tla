--------------------------- MODULE RangeEvalProofs ---------------------------
(***************************************************************************)
(* Machine-checked proofs about RangeEval, for any expressions and texts:  *)
(* the types; and, where cached VIPs are only asked for by name, alone or  *)
(* on the right of a difference, that the cache stays what its files said, *)
(* that no range is used after it was destroyed, that a request ends with  *)
(* the value and the warnings RangeMeaning gives and that each of its      *)
(* steps leaves less to do.                                                *)
(***************************************************************************)
EXTENDS RangeMeaning, SequenceTheorems, FiniteSetTheorems, WellFoundedInduction, TLAPS

(***************************************************************************)
(* The stack, over n sets.                                                 *)
(***************************************************************************)
Ranges(n) == [set : 1..n, quoted : BOOLEAN]
FrameIn(n) == [at : {"ast", "cluster"}, expr : Expression, root : BOOLEAN, todo : SUBSET Name,
               vals : Seq(Ranges(n))]

Holds(f) == IF f.at = "ast" THEN Len(f.vals) <= Returned(f) ELSE Len(f.vals) \in 1..2

StackOK(st, n) ==
  /\ st \in Seq(FrameIn(n))
  /\ \A k \in 1..Len(st) : Holds(st[k])
  /\ \A k \in 1..Len(st) - 1 : Waits(st[k], st[k + 1])
  /\ st # <<>> => st[1].at = "ast" /\ st[1].root

LEMMA FunctionIsSeq ==
  ASSUME NEW S, NEW m \in Nat, NEW q \in [1..m -> S]
  PROVE  q \in Seq(S) /\ Len(q) = m
<1>1. q \in Seq(S) BY SeqDef
<1>2. Len(q) \in Nat /\ DOMAIN q = 1..Len(q) BY <1>1, LenProperties
<1>3. \A i \in Nat : i \in 1..m <=> i \in 1..Len(q) BY <1>2
<1>4. Len(q) = m BY <1>2, <1>3
<1>5. QED BY <1>1, <1>4

LEMMA OperandsOK ==
  ASSUME NEW e \in Expression
  PROVE  /\ Operands(e) \in Seq(Expression) /\ Len(Operands(e)) \in Nat
         /\ e.op = "union" => Len(Operands(e)) = 2
         /\ e.op \in {"diff", "inter"} => Len(Operands(e)) = IF RegexOperand(e) THEN 1 ELSE 2
         /\ e.op = "not" => Len(Operands(e)) = 2
         /\ e.op = "regex" => Len(Operands(e)) = 1
         /\ e.op = "braces" => Len(Operands(e)) = 3
<1>1. SyntaxOK(e) BY SyntaxAssumption DEF SyntaxAssumption
<1>2. AllNodes \in Expression BY TextsAssumption DEF TextsAssumption
<1>3. CASE e.op \in {"union", "diff", "inter"}
  <2>1. e.kids \in [1..2 -> Expression] BY <1>1, <1>3 DEF SyntaxOK
  <2>2. e.kids \in Seq(Expression) /\ Len(e.kids) = 2 BY <2>1, FunctionIsSeq
  <2>7. e.kids[1] \in Expression BY <2>1
  <2>3. CASE e.op = "union" BY <2>2, <2>3 DEF Operands
  <2>4. CASE e.op # "union" /\ RegexOperand(e)
    <3>1. Operands(e) = <<e.kids[1]>> BY <1>3, <2>4 DEF Operands
    <3>2. QED BY <1>3, <2>7, <2>4, <3>1
  <2>5. CASE e.op # "union" /\ ~RegexOperand(e)
    <3>1. Operands(e) = e.kids BY <1>3, <2>5 DEF Operands
    <3>2. QED BY <1>3, <2>2, <2>5, <3>1
  <2>6. QED BY <2>3, <2>4, <2>5
<1>4. CASE e.op = "braces"
  <2>1. e.kids \in [1..3 -> Expression] BY <1>1, <1>4 DEF SyntaxOK
  <2>2. e.kids \in Seq(Expression) /\ Len(e.kids) = 3 BY <2>1, FunctionIsSeq
  <2>3. QED BY <1>4, <2>2 DEF Operands
<1>5. CASE e.op = "not"
  <2>1. e.kids[1] \in Expression BY <1>1, <1>5 DEF SyntaxOK
  <2>2. Operands(e) = <<AllNodes, e.kids[1]>> BY <1>5 DEF Operands
  <2>3. QED BY <1>2, <1>5, <2>1, <2>2
<1>6. CASE e.op = "function"
  <2>1. e.kids \in Seq(Expression) BY <1>1, <1>6 DEF SyntaxOK
  <2>2. QED BY <1>6, <2>1 DEF Operands
<1>7. CASE e.op = "regex"
  <2>1. Operands(e) = <<AllNodes>> BY <1>7 DEF Operands
  <2>2. QED BY <1>2, <1>7, <2>1
<1>8. CASE e.op \notin {"union", "diff", "inter", "braces", "not", "function", "regex"}
  <2>1. Operands(e) = <<>> BY <1>8 DEF Operands
  <2>2. QED BY <1>8, <2>1
<1>9. QED BY <1>3, <1>4, <1>5, <1>6, <1>7, <1>8

LEMMA MoreSets ==
  ASSUME NEW n \in Nat, NEW m \in Nat, n <= m
  PROVE  /\ \A st : StackOK(st, n) => StackOK(st, m)
         /\ \A v \in Seq(Ranges(n)) : v \in Seq(Ranges(m))
<1>1. Ranges(n) \subseteq Ranges(m) BY DEF Ranges
<1>2. \A v \in Seq(Ranges(n)) : v \in Seq(Ranges(m)) BY <1>1, SeqMonotonic
<1>3. FrameIn(n) \subseteq FrameIn(m) BY <1>2 DEF FrameIn
<1>4. ASSUME NEW st, StackOK(st, n) PROVE StackOK(st, m)
  BY <1>3, <1>4, SeqMonotonic DEF StackOK
<1>5. QED BY <1>2, <1>4

(* A stack with another top. *)
WithTop(st, f) == [st EXCEPT ![Len(st)] = f]

LEMMA SetTop ==
  ASSUME NEW n \in Nat, NEW st, StackOK(st, n), st # <<>>,
         NEW f \in FrameIn(n), Holds(f), f.at = st[Len(st)].at, f.root = st[Len(st)].root
  PROVE  /\ StackOK(WithTop(st, f), n) /\ WithTop(st, f) # <<>>
         /\ Len(WithTop(st, f)) = Len(st) /\ Len(st) \in Nat \ {0}
         /\ WithTop(st, f)[Len(st)] = f
         /\ \A k \in 1..Len(st) - 1 : WithTop(st, f)[k] = st[k]
<1> DEFINE new == WithTop(st, f)
<1>1. st \in Seq(FrameIn(n)) /\ Len(st) \in 1..Len(st) /\ Len(st) \in Nat \ {0} BY DEF StackOK
<1>2. /\ new \in Seq(FrameIn(n)) /\ Len(new) = Len(st)
      /\ \A k \in 1..Len(st) : new[k] = IF k = Len(st) THEN f ELSE st[k]
  BY <1>1, ExceptSeq DEF WithTop
<1> HIDE DEF new
<1>3. new[Len(st)] = f /\ \A k \in 1..Len(st) - 1 : new[k] = st[k] BY <1>1, <1>2
<1>4. \A k \in 1..Len(st) : new[k].at = st[k].at /\ new[k].root = st[k].root BY <1>2
<1>5. \A k \in 1..Len(new) : Holds(new[k]) BY <1>2 DEF StackOK
<1>6. ASSUME NEW k \in 1..Len(new) - 1 PROVE Waits(new[k], new[k + 1])
  <2>1. new[k] = st[k] /\ new[k + 1].at = st[k + 1].at /\ Waits(st[k], st[k + 1])
    BY <1>1, <1>2, <1>3, <1>4 DEF StackOK
  <2>2. QED BY <2>1 DEF Waits
<1>7. new # <<>> BY <1>1, <1>2
<1>8. new[1].at = "ast" /\ new[1].root BY <1>1, <1>4 DEF StackOK
<1>9. StackOK(new, n) BY <1>2, <1>5, <1>6, <1>8 DEF StackOK
<1>10. QED BY <1>1, <1>2, <1>3, <1>7, <1>9 DEF new

LEMMA PushFrame ==
  ASSUME NEW n \in Nat, NEW st, StackOK(st, n), st # <<>>,
         NEW f \in FrameIn(n), Holds(f), Waits(st[Len(st)], f)
  PROVE  /\ StackOK(Append(st, f), n) /\ Append(st, f) # <<>>
         /\ Len(Append(st, f)) = Len(st) + 1 /\ Len(st) \in Nat \ {0}
         /\ Append(st, f)[Len(st) + 1] = f
         /\ \A k \in 1..Len(st) : Append(st, f)[k] = st[k]
<1> DEFINE new == Append(st, f)
<1>1. st \in Seq(FrameIn(n)) BY DEF StackOK
<1>2. /\ new \in Seq(FrameIn(n)) /\ Len(new) = Len(st) + 1 /\ Len(st) \in Nat \ {0}
      /\ new[Len(st) + 1] = f /\ \A k \in 1..Len(st) : new[k] = st[k]
  BY <1>1
<1> HIDE DEF new
<1>3. \A k \in 1..Len(new) : Holds(new[k]) BY <1>2 DEF StackOK
<1>4. ASSUME NEW k \in 1..Len(new) - 1 PROVE Waits(new[k], new[k + 1])
  <2>1. CASE k = Len(st) BY <1>2, <2>1
  <2>2. CASE k # Len(st)
    <3>1. k \in 1..Len(st) - 1 /\ new[k] = st[k] /\ new[k + 1] = st[k + 1] BY <1>2, <2>2
    <3>2. QED BY <3>1 DEF StackOK
  <2>3. QED BY <2>1, <2>2
<1>5. new # <<>> /\ new[1] = st[1] BY <1>2
<1>6. StackOK(new, n) BY <1>2, <1>3, <1>4, <1>5 DEF StackOK
<1>7. QED BY <1>2, <1>5, <1>6 DEF new

LEMMA PopFrame ==
  ASSUME NEW n \in Nat, NEW st, StackOK(st, n), st # <<>>
  PROVE  /\ StackOK(Front(st), n) /\ Len(st) \in Nat \ {0} /\ Len(Front(st)) = Len(st) - 1
         /\ \A k \in 1..Len(st) - 1 : Front(st)[k] = st[k]
         /\ Front(st) # <<>> => Len(st) > 1
         /\ Front(st) = <<>> => Len(st) = 1
<1> DEFINE new == Front(st)  m == Len(st) - 1
<1>1. /\ st \in Seq(FrameIn(n)) /\ m \in Nat /\ Len(st) = m + 1 /\ Len(st) \in Nat \ {0}
      /\ \A i \in 1..m : st[i] \in FrameIn(n)
  BY DEF StackOK
<1>2. new = SubSeq(st, 1, m) BY DEF Front
<1> HIDE DEF new, m
<1>3. /\ new \in Seq(FrameIn(n))
      /\ Len(new) = IF 1 <= m THEN m - 1 + 1 ELSE 0
      /\ \A i \in 1..m - 1 + 1 : new[i] = st[1 + i - 1]
  BY <1>1, <1>2, SubSeqProperties
<1>4. Len(new) = m BY <1>1, <1>3
<1>5. ASSUME NEW k \in 1..m PROVE new[k] = st[k]
  <2>1. k \in 1..m - 1 + 1 /\ 1 + k - 1 = k BY <1>1
  <2>2. QED BY <1>3, <2>1
<1>6. \A k \in 1..Len(new) : Holds(new[k]) BY <1>1, <1>4, <1>5 DEF StackOK
<1>7. ASSUME NEW k \in 1..Len(new) - 1 PROVE Waits(new[k], new[k + 1])
  <2>1. k \in 1..Len(st) - 1 /\ new[k] = st[k] /\ new[k + 1] = st[k + 1] BY <1>1, <1>4, <1>5
  <2>2. QED BY <2>1 DEF StackOK
<1>8. new # <<>> => Len(st) > 1 /\ new[1] = st[1] BY <1>1, <1>3, <1>4, <1>5
<1>9. new = <<>> => Len(st) = 1 BY <1>1, <1>4
<1>10. StackOK(new, n)
  <2>1. new # <<>> => new[1].at = "ast" /\ new[1].root BY <1>1, <1>8 DEF StackOK
  <2>2. QED BY <1>3, <1>6, <1>7, <2>1 DEF StackOK
<1>11. Len(st) - 1 = m BY DEF m
<1>12. QED BY <1>1, <1>4, <1>5, <1>8, <1>9, <1>10, <1>11 DEF new

(* A frame that waits can take one more range. *)
LEMMA TakesOne ==
  ASSUME NEW n \in Nat, NEW f \in FrameIn(n), NEW g \in FrameIn(n), Waits(f, g), NEW r \in Ranges(n)
  PROVE  LET h == [f EXCEPT !.vals = Append(@, r)] IN
         /\ h \in FrameIn(n) /\ Holds(h) /\ h.at = f.at /\ h.root = f.root
         /\ h.vals = Append(f.vals, r)
<1> DEFINE h == [f EXCEPT !.vals = Append(f.vals, r)]
<1>1. f.vals \in Seq(Ranges(n)) /\ f.expr \in Expression /\ f.at \in {"ast", "cluster"} BY DEF FrameIn
<1>2. /\ Append(f.vals, r) \in Seq(Ranges(n)) /\ Len(Append(f.vals, r)) = Len(f.vals) + 1
      /\ Len(f.vals) \in Nat
  BY <1>1
<1>3. /\ h \in FrameIn(n) /\ h.at = f.at /\ h.root = f.root /\ h.expr = f.expr
      /\ h.vals = Append(f.vals, r)
  BY <1>2 DEF FrameIn
<1>4. Len(Operands(f.expr)) \in Nat BY <1>1, OperandsOK
<1>5. Holds(h)
  <2>1. CASE f.at = "cluster" BY <1>2, <1>3, <2>1 DEF Holds, Waits
  <2>2. CASE f.at = "ast"
    <3>1. \/ Len(f.vals) < Len(Operands(f.expr))
          \/ f.expr.op = "function" /\ Len(f.vals) = Len(Operands(f.expr))
      BY <2>2 DEF Waits
    <3>2. Returned(h) = IF f.expr.op = "function" THEN Len(Operands(f.expr)) + 1
                        ELSE Len(Operands(f.expr))
      BY <1>3 DEF Returned
    <3>3. Len(h.vals) <= Returned(h) BY <1>2, <1>3, <1>4, <3>1, <3>2
    <3>4. QED BY <1>3, <2>2, <3>3 DEF Holds
  <2>3. QED BY <1>1, <2>1, <2>2
<1>6. QED BY <1>3, <1>5
(***************************************************************************)
(* Who holds what.                                                         *)
(***************************************************************************)
Held(st, lv) ==
  \A k \in 1..Len(st) : \A i \in 1..Len(st[k].vals) :
    /\ st[k].vals[i].set \in lv
    /\ \A l \in 1..Len(st) : \A j \in 1..Len(st[l].vals) :
         st[k].vals[i].set = st[l].vals[j].set => k = l /\ i = j

(* st2 holds live ranges: those st held, and at most the I-th of its frame *)
(* K, which is another one.                                                *)
HoldsOneMore(st, st2, lv2, K, I) ==
  \A k \in 1..Len(st2) : \A i \in 1..Len(st2[k].vals) :
    /\ st2[k].vals[i].set \in lv2
    /\ \/ k = K /\ i = I
       \/ /\ k \in 1..Len(st) /\ i \in 1..Len(st[k].vals)
          /\ st2[k].vals[i].set = st[k].vals[i].set
          /\ st2[k].vals[i].set # st2[K].vals[I].set

LEMMA HoldsMore ==
  ASSUME NEW st, NEW lv, Held(st, lv), NEW st2, NEW lv2, NEW K, NEW I,
         HoldsOneMore(st, st2, lv2, K, I)
  PROVE  Held(st2, lv2)
<1>3. \A k \in 1..Len(st) : \A i \in 1..Len(st[k].vals) :
        \A l \in 1..Len(st) : \A j \in 1..Len(st[l].vals) :
          st[k].vals[i].set = st[l].vals[j].set => k = l /\ i = j
  BY Zenon DEF Held
<1>1. ASSUME NEW k \in 1..Len(st2), NEW i \in 1..Len(st2[k].vals),
             NEW l \in 1..Len(st2), NEW j \in 1..Len(st2[l].vals),
             st2[k].vals[i].set = st2[l].vals[j].set
      PROVE  k = l /\ i = j
  <2>1. CASE k = K /\ i = I BY <1>1, <2>1 DEF HoldsOneMore
  <2>2. CASE l = K /\ j = I BY <1>1, <2>2 DEF HoldsOneMore
  <2>3. CASE ~(k = K /\ i = I) /\ ~(l = K /\ j = I)
    <3>1. k \in 1..Len(st) /\ i \in 1..Len(st[k].vals) /\ st2[k].vals[i].set = st[k].vals[i].set
      BY <2>3 DEF HoldsOneMore
    <3>2. l \in 1..Len(st) /\ j \in 1..Len(st[l].vals) /\ st2[l].vals[j].set = st[l].vals[j].set
      BY <2>3 DEF HoldsOneMore
    <3>3. st[k].vals[i].set = st[l].vals[j].set BY <1>1, <3>1, <3>2
    <3>4. k \in 1..Len(st) /\ i \in 1..Len(st[k].vals) /\ l \in 1..Len(st) /\ j \in 1..Len(st[l].vals)
      BY <3>1, <3>2
    <3>5. st[k].vals[i].set = st[l].vals[j].set => k = l /\ i = j BY <1>3, <3>4
    <3>6. QED BY <3>3, <3>5
  <2>4. QED BY <2>1, <2>2, <2>3
<1>2. QED BY <1>1 DEF Held, HoldsOneMore

(***************************************************************************)
(* The inductive invariants.                                               *)
(***************************************************************************)
N == Len(nodes)

TypeInv ==
  /\ nodes \in Seq(SUBSET Name) /\ live \subseteq 1..N
  /\ Len(Vips) \in Nat /\ Len(Vips) <= N
  /\ StackOK(stack, N)
  /\ rr_r \in Seq(Ranges(N))

OwnInv ==
  /\ Held(stack, live)
  /\ ResultLive

(* The ranges that frames below the top hold. *)
Below == {stack[p[1]].vals[p[2]].set :
            p \in {q \in (1..Len(stack) - 1) \X Nat : q[2] \in 1..Len(stack[q[1]].vals)}}

LEMMA TopFrame ==
  ASSUME TypeInv, stack # <<>>
  PROVE  /\ N \in Nat /\ Len(stack) \in Nat \ {0}
         /\ Top \in FrameIn(N) /\ Holds(Top)
         /\ Top.expr \in Expression /\ SyntaxOK(Top.expr) /\ Len(Operands(Top.expr)) \in Nat
         /\ Vals \in Seq(Ranges(N)) /\ Len(Vals) \in Nat
         /\ \A i \in 1..Len(Vals) : Vals[i] \in Ranges(N) /\ Vals[i].set \in 1..N
                                    /\ Vals[i].quoted \in BOOLEAN /\ Nodes(Vals[i]) \subseteq Name
         /\ Top.todo \subseteq Name
<1>1. /\ N \in Nat /\ Len(stack) \in Nat \ {0} /\ stack[Len(stack)] \in FrameIn(N)
      /\ Holds(stack[Len(stack)])
  BY DEF TypeInv, StackOK, N
<1>2. /\ Top \in FrameIn(N) /\ Holds(Top) /\ Top.expr \in Expression /\ Vals \in Seq(Ranges(N))
      /\ Top.todo \subseteq Name
  BY <1>1 DEF Top, Vals, FrameIn
<1>3. Len(Operands(Top.expr)) \in Nat BY <1>2, OperandsOK
<1>4. SyntaxOK(Top.expr) BY <1>2, SyntaxAssumption DEF SyntaxAssumption
<1>5. ASSUME NEW i \in 1..Len(Vals)
      PROVE  Vals[i] \in Ranges(N) /\ Vals[i].set \in 1..N /\ Vals[i].quoted \in BOOLEAN
             /\ Nodes(Vals[i]) \subseteq Name
  <2>1. Vals[i] \in Ranges(N) BY <1>2
  <2>2. Vals[i].set \in 1..N /\ Vals[i].quoted \in BOOLEAN BY <2>1 DEF Ranges
  <2>3. nodes[Vals[i].set] \in SUBSET Name BY <2>2 DEF TypeInv, N
  <2>4. QED BY <2>1, <2>2, <2>3 DEF Nodes
<1>6. Len(Vals) \in Nat BY <1>2
<1>7. QED BY <1>1, <1>2, <1>3, <1>4, <1>5, <1>6

(* What the top holds is there, and held nowhere else. *)
LEMMA TopApart ==
  ASSUME TypeInv, OwnInv, stack # <<>>
  PROVE  /\ Below \subseteq live
         /\ \A i \in 1..Len(Vals) : /\ Vals[i].set \in live /\ Vals[i].set \notin Below
                                    /\ \A j \in 1..Len(Vals) : Vals[i].set = Vals[j].set => i = j
<1>1. Len(stack) \in Nat \ {0} /\ Vals = stack[Len(stack)].vals BY TopFrame DEF Vals, Top
<1>2. Held(stack, live) BY DEF OwnInv
<1>3. Below \subseteq live
  <2>1. ASSUME NEW p \in (1..Len(stack) - 1) \X Nat, p[2] \in 1..Len(stack[p[1]].vals)
        PROVE  stack[p[1]].vals[p[2]].set \in live
    <3>1. p[1] \in 1..Len(stack) BY <1>1
    <3>2. QED BY <1>2, <2>1, <3>1 DEF Held
  <2>2. QED BY <2>1 DEF Below
<1>4. ASSUME NEW i \in 1..Len(Vals)
      PROVE  /\ Vals[i].set \in live /\ Vals[i].set \notin Below
             /\ \A j \in 1..Len(Vals) : Vals[i].set = Vals[j].set => i = j
  <2>1. Len(stack) \in 1..Len(stack) BY <1>1
  <2>2. /\ Vals[i].set \in live
        /\ \A j \in 1..Len(Vals) : Vals[i].set = Vals[j].set => i = j
    BY <1>1, <1>2, <2>1 DEF Held
  <2>3. ASSUME NEW p \in (1..Len(stack) - 1) \X Nat, p[2] \in 1..Len(stack[p[1]].vals),
               stack[p[1]].vals[p[2]].set = Vals[i].set
        PROVE  FALSE
    <3>1. p[1] \in 1..Len(stack) /\ p[1] # Len(stack) BY <1>1
    <3>2. QED BY <1>1, <1>2, <2>1, <2>3, <3>1 DEF Held
  <2>4. QED BY <2>2, <2>3 DEF Below
<1>5. QED BY <1>3, <1>4

LEMMA BelowIs ==
  ASSUME TypeInv, NEW k \in 1..Len(stack) - 1, NEW i \in 1..Len(stack[k].vals)
  PROVE  stack[k].vals[i].set \in Below /\ stack[k].vals[i].set \in 1..N
<1>1. i \in Nat /\ <<k, i>> \in (1..Len(stack) - 1) \X Nat OBVIOUS
<1>2. stack[k].vals[i].set \in Below BY <1>1 DEF Below
<1>3. stack[k] \in FrameIn(N) BY DEF TypeInv, StackOK
<1>4. stack[k].vals \in Seq(Ranges(N)) BY <1>3 DEF FrameIn
<1>5. stack[k].vals[i] \in Ranges(N) BY <1>4
<1>6. QED BY <1>2, <1>5 DEF Ranges

(***************************************************************************)
(* Returning a range to the frame below, or to the caller.                 *)
(***************************************************************************)
LEMMA ReturnStack ==
  ASSUME TypeInv, stack # <<>>, NEW m \in Nat, N <= m, NEW r \in Ranges(m), Return(r)
  PROVE  /\ StackOK(stack', m) /\ rr_r' \in Seq(Ranges(m))
         /\ Len(stack') = Len(stack) - 1 /\ Len(stack) \in Nat \ {0}
         /\ stack' = <<>> => rr_r' = <<r>>
         /\ stack' # <<>> => /\ Len(stack) > 1 
                             /\ \A k \in 1..Len(stack) - 2 : stack'[k] = stack[k]
                             /\ stack'[Len(stack) - 1].vals = Append(stack[Len(stack) - 1].vals, r)
                             /\ stack'[Len(stack) - 1]
                                  = [stack[Len(stack) - 1] EXCEPT !.vals = Append(stack[Len(stack) - 1].vals, r)]
<1> DEFINE below == Front(stack)
<1>1. StackOK(stack, m) /\ rr_r \in Seq(Ranges(m)) BY MoreSets, TopFrame DEF TypeInv
<1>2. /\ StackOK(below, m) /\ Len(stack) \in Nat \ {0} /\ Len(below) = Len(stack) - 1
      /\ \A k \in 1..Len(stack) - 1 : below[k] = stack[k]
      /\ below # <<>> => Len(stack) > 1
      /\ below = <<>> => Len(stack) = 1
  BY <1>1, PopFrame
<1>3. rr_r' = IF Top.root THEN <<r>> ELSE rr_r BY DEF Return
<1>4. rr_r' \in Seq(Ranges(m)) BY <1>1, <1>3
<1>5. CASE below = <<>>
  <2>1. stack' = <<>> /\ Len(stack) = 1 BY <1>2, <1>5 DEF Return
  <2>2. Top.root BY <1>1, <2>1 DEF StackOK, Top
  <2>3. StackOK(stack', m) /\ Len(stack') = 0 BY <1>2, <1>5, <2>1
  <2>4. QED BY <1>2, <1>3, <1>4, <2>1, <2>2, <2>3
<1>6. CASE below # <<>>
  <2> DEFINE n == Len(below)  f == below[n]  h == [f EXCEPT !.vals = Append(f.vals, r)]
  <2>1. stack' = WithTop(below, h) BY <1>6 DEF Return, WithTop
  <2>2. n \in 1..Len(stack) - 1 /\ n = Len(stack) - 1 /\ f = stack[n] /\ Len(stack) = n + 1
    BY <1>2, <1>6
  <2>3. Waits(f, stack[n + 1]) BY <1>1, <2>2 DEF StackOK
  <2>4. f \in FrameIn(m) /\ stack[n + 1] \in FrameIn(m) BY <1>1, <1>2, <2>2 DEF StackOK
  <2> HIDE DEF n, f
  <2>5. h \in FrameIn(m) /\ Holds(h) /\ h.at = f.at /\ h.root = f.root /\ h.vals = Append(f.vals, r)
    BY <2>3, <2>4, TakesOne
  <2>6. f = below[n] /\ n = Len(below) BY DEF f, n
  <2> HIDE DEF h, below
  <2>11. h.at = below[Len(below)].at /\ h.root = below[Len(below)].root BY <2>5, <2>6
  <2>12. /\ StackOK(WithTop(below, h), m) /\ WithTop(below, h) # <<>>
         /\ Len(WithTop(below, h)) = Len(below) /\ WithTop(below, h)[Len(below)] = h
         /\ \A k \in 1..Len(below) - 1 : WithTop(below, h)[k] = below[k]
    BY <1>2, <1>6, <2>5, <2>11, SetTop
  <2>7. /\ StackOK(stack', m) /\ stack' # <<>> /\ Len(stack') = Len(below)
        /\ stack'[n] = h /\ \A k \in 1..n - 1 : stack'[k] = below[k]
    BY <2>1, <2>6, <2>12, Zenon
  <2>8. \A k \in 1..Len(stack) - 2 : stack'[k] = stack[k] BY <1>2, <2>2, <2>6, <2>7
  <2>9. stack'[Len(stack) - 1].vals = Append(stack[Len(stack) - 1].vals, r)
    BY <2>2, <2>5, <2>7
  <2>13. h = [stack[n] EXCEPT !.vals = Append(stack[n].vals, r)] BY <2>2 DEF h
  <2>10. QED BY <1>2, <1>4, <1>6, <2>2, <2>6, <2>7, <2>8, <2>9, <2>13
<1>7. QED BY <1>5, <1>6

LEMMA ReturnOwns ==
  ASSUME TypeInv, OwnInv, stack # <<>>, NEW m \in Nat, N <= m, NEW r \in Ranges(m), Return(r),
         Below \subseteq live', r.set \in live', r.set \notin Below
  PROVE  OwnInv'
<1>1. /\ Len(stack') = Len(stack) - 1 /\ Len(stack) \in Nat \ {0}
      /\ stack' = <<>> => rr_r' = <<r>>
      /\ stack' # <<>> => /\ Len(stack) > 1 
                          /\ \A k \in 1..Len(stack) - 2 : stack'[k] = stack[k]
                          /\ stack'[Len(stack) - 1].vals = Append(stack[Len(stack) - 1].vals, r)
  BY ReturnStack
<1>2. CASE stack' = <<>>
  <2>1. rr_r' = <<r>> /\ Len(stack') = 0 BY <1>1, <1>2
  <2>2. ResultLive' BY <1>2, <2>1 DEF ResultLive
  <2>3. Held(stack', live') BY <2>1 DEF Held
  <2>4. QED BY <2>2, <2>3 DEF OwnInv
<1>3. CASE stack' # <<>>
  <2> DEFINE K == Len(stack) - 1
  <2>1. K \in 1..Len(stack) - 1 /\ K \in Nat /\ Len(stack') = K BY <1>1, <1>3
  <2>2. stack[K] \in FrameIn(N) BY <2>1 DEF TypeInv, StackOK
  <2>3. stack[K].vals \in Seq(Ranges(N)) BY <2>2 DEF FrameIn
  <2> DEFINE I == Len(stack[K].vals) + 1
  <2>4. N \in Nat BY TopFrame
  <2>5. stack[K].vals \in Seq(Ranges(m)) BY <2>3, <2>4, MoreSets
  <2>6. stack'[K].vals = Append(stack[K].vals, r) BY <1>1, <1>3
  <2>7. /\ Len(stack'[K].vals) = I /\ I \in Nat \ {0} /\ stack'[K].vals[I] = r
        /\ \A i \in 1..I - 1 : stack'[K].vals[i] = stack[K].vals[i]
        /\ Len(stack[K].vals) = I - 1
    BY <2>5, <2>6
  <2>8. \A k \in 1..K - 1 : stack'[k] = stack[k] BY <1>1, <1>3, <2>1
  <2> HIDE DEF K, I
  <2>9. ASSUME NEW k \in 1..Len(stack'), NEW i \in 1..Len(stack'[k].vals)
        PROVE  /\ \/ k = K /\ i = I
                  \/ /\ k \in 1..Len(stack) /\ i \in 1..Len(stack[k].vals)
                     /\ stack'[k].vals[i].set = stack[k].vals[i].set
                     /\ stack'[k].vals[i].set # stack'[K].vals[I].set
               /\ stack'[k].vals[i].set \in live'
    <3>1. CASE k = K /\ i = I BY <2>7, <3>1
    <3>2. CASE ~(k = K /\ i = I)
      <4>1. k \in 1..Len(stack) - 1 /\ k \in 1..Len(stack) BY <2>1
      <4>2. i \in 1..Len(stack[k].vals) /\ stack'[k].vals[i].set = stack[k].vals[i].set
        <5>1. CASE k = K BY <2>7, <3>2, <5>1
        <5>2. CASE k # K
          <6>1. k \in 1..K - 1 BY <2>1, <5>2
          <6>2. QED BY <2>8, <6>1
        <5>3. QED BY <5>1, <5>2
      <4>3. stack[k].vals[i].set \in Below BY <4>1, <4>2, BelowIs
      <4>4. QED BY <2>7, <4>1, <4>2, <4>3
    <3>3. QED BY <3>1, <3>2
  <2>10. Held(stack, live) BY DEF OwnInv
  <2>11. HoldsOneMore(stack, stack', live', K, I) BY <2>9 DEF HoldsOneMore
  <2>12. Held(stack', live') BY <2>10, <2>11, HoldsMore
  <2>13. QED BY <1>3, <2>12 DEF OwnInv, ResultLive
<1>4. QED BY <1>2, <1>3

(***************************************************************************)
(* Names and sets.                                                         *)
(***************************************************************************)
LEMMA HostnamesOK ==
  ASSUME NEW r, Nodes(r) \subseteq Name
  PROVE  /\ Hostnames(r) \subseteq Name
         /\ \A regex : Matches(regex, r) \subseteq Name
         /\ Factor(r) \subseteq Name
<1>1. ASSUME NEW n \in Nodes(r) PROVE <<Quote>> \o n \o <<Quote>> \in Name
  <2>4. n \in Seq(Symbol) BY DEF Name
  <2>5. Quote \in Symbol BY SymbolAssumption DEF SymbolAssumption
  <2>6. <<Quote>> \in Seq(Symbol) BY <2>5
  <2>1. n \in Seq(Symbol) /\ <<Quote>> \in Seq(Symbol) BY <2>4, <2>6
  <2>2. <<Quote>> \o n \in Seq(Symbol) BY <2>1, ConcatProperties
  <2>3. QED BY <2>1, <2>2, ConcatProperties DEF Name
<1>2. Hostnames(r) \subseteq Name BY <1>1 DEF Hostnames
<1>3. \A regex : Matches(regex, r) \subseteq Name BY <1>2 DEF Matches
<1>4. <<>> \in Name BY DEF Name
<1>5. Factor(r) \subseteq Name BY <1>4 DEF Factor
<1>6. QED BY <1>2, <1>3, <1>5

LEMMA SetsChange ==
  ASSUME TypeInv, NEW X \in SUBSET Name
  PROVE  /\ \A s \in 1..N : /\ [nodes EXCEPT ![s] = X] \in Seq(SUBSET Name)
                            /\ Len([nodes EXCEPT ![s] = X]) = N
         /\ Append(nodes, X) \in Seq(SUBSET Name) /\ Len(Append(nodes, X)) = N + 1
         /\ N \in Nat /\ Fresh = N + 1
<1>1. nodes \in Seq(SUBSET Name) BY DEF TypeInv
<1>2. \A s \in 1..N : /\ [nodes EXCEPT ![s] = X] \in Seq(SUBSET Name)
                      /\ Len([nodes EXCEPT ![s] = X]) = N
  BY <1>1, ExceptSeq DEF N
<1>3. Append(nodes, X) \in Seq(SUBSET Name) /\ Len(Append(nodes, X)) = N + 1 /\ N \in Nat
  BY <1>1 DEF N
<1>4. QED BY <1>2, <1>3 DEF Fresh, N

(***************************************************************************)
(* Steps that return.                                                      *)
(***************************************************************************)
LEMMA ReturnTypes ==
  ASSUME TypeInv, stack # <<>>, nodes' \in Seq(SUBSET Name), N <= Len(nodes'),
         live' \subseteq 1..Len(nodes'), NEW r \in Ranges(Len(nodes')), Return(r)
  PROVE  TypeInv'
<1>1. Len(nodes') \in Nat /\ N \in Nat BY TopFrame
<1>2. StackOK(stack', Len(nodes')) /\ rr_r' \in Seq(Ranges(Len(nodes'))) BY <1>1, ReturnStack
<1>3. Len(Vips) <= Len(nodes') BY <1>1 DEF TypeInv
<1>4. QED BY <1>2, <1>3 DEF TypeInv, N

LEMMA ReturnNewKeeps ==
  ASSUME TypeInv, stack # <<>>, NEW names \in SUBSET Name, NEW q \in BOOLEAN, NEW D,
         \A d \in D : \E i \in 1..Len(Vals) : d = Vals[i], ReturnNew(names, q, D)
  PROVE  TypeInv' /\ (OwnInv => OwnInv')
<1>1. /\ nodes' = Append(nodes, names) /\ live' = (live \ {d.set : d \in D}) \union {Fresh}
      /\ Return(RangeOf(Fresh, q))
  BY DEF ReturnNew, Allocate
<1>2. nodes' \in Seq(SUBSET Name) /\ Len(nodes') = N + 1 /\ N \in Nat /\ Fresh = N + 1
  BY <1>1, SetsChange
<1>3. RangeOf(Fresh, q) \in Ranges(Len(nodes')) /\ RangeOf(Fresh, q).set = N + 1
  BY <1>2 DEF RangeOf, Ranges
<1>4. live' \subseteq 1..Len(nodes')
  <2>1. live \subseteq 1..N /\ live' \subseteq live \union {N + 1} BY <1>1, <1>2 DEF TypeInv
  <2>2. QED BY <1>2, <2>1
<1>5. TypeInv' BY <1>1, <1>2, <1>3, <1>4, ReturnTypes
<1>6. ASSUME OwnInv PROVE OwnInv'
  <2>1. Below \subseteq live /\ \A i \in 1..Len(Vals) : Vals[i].set \notin Below BY <1>6, TopApart
  <2>2. Below \subseteq live' BY <1>1, <2>1
  <2>3. N + 1 \notin Below BY <1>2, <2>1 DEF TypeInv
  <2>4. N + 1 \in live' BY <1>1, <1>2
  <2>5. Len(nodes') \in Nat /\ N <= Len(nodes') BY <1>2
  <2>6. QED BY <1>1, <1>3, <1>6, <2>2, <2>3, <2>4, <2>5, ReturnOwns
<1>7. QED BY <1>5, <1>6

(* An operand is returned, and others are destroyed. *)
LEMMA ReturnOperand ==
  ASSUME TypeInv, stack # <<>>, nodes' \in Seq(SUBSET Name), N <= Len(nodes'),
         NEW i \in 1..Len(Vals), Return(Vals[i]), live' \subseteq 1..Len(nodes'),
         \A s \in live \ live' : \E j \in 1..Len(Vals) : j # i /\ s = Vals[j].set
  PROVE  TypeInv' /\ (OwnInv => OwnInv')
<1>1. N \in Nat /\ Len(nodes') \in Nat /\ Vals[i] \in Ranges(N) BY TopFrame
<1>2. Vals[i] \in Ranges(Len(nodes')) BY <1>1 DEF Ranges
<1>3. TypeInv' BY <1>2, ReturnTypes
<1>4. ASSUME OwnInv PROVE OwnInv'
  <2>1. /\ Below \subseteq live
        /\ \A j \in 1..Len(Vals) : /\ Vals[j].set \in live /\ Vals[j].set \notin Below
                                   /\ \A k \in 1..Len(Vals) : Vals[j].set = Vals[k].set => j = k
    BY <1>4, TopApart
  <2>2. Below \subseteq live' BY <2>1
  <2>3. Vals[i].set \in live' /\ Vals[i].set \notin Below BY <2>1
  <2>4. QED BY <1>1, <1>2, <1>4, <2>2, <2>3, ReturnOwns
<1>5. QED BY <1>3, <1>4

LEMMA ReadyOperands ==
  ASSUME TypeInv, NEW op, Ready(op)
  PROVE  /\ stack # <<>> /\ Top.expr.op = op /\ Len(Vals) = Len(Operands(Top.expr))
         /\ op = "union" => 1 \in 1..Len(Vals) /\ 2 \in 1..Len(Vals) /\ Len(Vals) = 2
         /\ op \in {"diff", "inter"} =>
              1 \in 1..Len(Vals) /\ (~RegexOperand(Top.expr) => 2 \in 1..Len(Vals))
         /\ op = "not" => 1 \in 1..Len(Vals) /\ 2 \in 1..Len(Vals)
         /\ op = "regex" => 1 \in 1..Len(Vals)
         /\ op = "braces" => 1 \in 1..Len(Vals) /\ 2 \in 1..Len(Vals) /\ 3 \in 1..Len(Vals)
<1>1. stack # <<>> /\ Top.expr.op = op /\ Len(Vals) = Len(Operands(Top.expr))
  BY DEF Ready, Evaluating
<1>2. Top.expr \in Expression BY <1>1, TopFrame
<1>3. /\ op = "union" => Len(Vals) = 2
      /\ op \in {"diff", "inter"} => Len(Vals) = IF RegexOperand(Top.expr) THEN 1 ELSE 2
      /\ op = "not" => Len(Vals) = 2
      /\ op = "regex" => Len(Vals) = 1
      /\ op = "braces" => Len(Vals) = 3
  BY <1>1, <1>2, OperandsOK
<1>4. CASE op = "union" BY <1>1, <1>3, <1>4
<1>5. CASE op \in {"diff", "inter"} /\ RegexOperand(Top.expr)
  <2>1. Len(Vals) = 1 BY <1>3, <1>5
  <2>2. QED BY <1>1, <1>5, <2>1
<1>6. CASE op \in {"diff", "inter"} /\ ~RegexOperand(Top.expr)
  <2>1. Len(Vals) = 2 BY <1>3, <1>6
  <2>2. QED BY <1>1, <1>6, <2>1
<1>7. CASE op = "not" BY <1>1, <1>3, <1>7
<1>8. CASE op = "regex" BY <1>1, <1>3, <1>8
<1>9. CASE op = "braces"
  <2>1. Len(Vals) = 3 BY <1>3, <1>9
  <2>2. 1 \in 1..Len(Vals) /\ 2 \in 1..Len(Vals) /\ 3 \in 1..Len(Vals) BY <2>1
  <2>3. QED BY <1>1, <1>9, <2>2
<1>10. CASE op \notin {"union", "diff", "inter", "not", "regex", "braces"} BY <1>1, <1>10
<1>11. QED BY <1>4, <1>5, <1>6, <1>7, <1>8, <1>9, <1>10

(***************************************************************************)
(* The actions, one lemma each.                                            *)
(***************************************************************************)

(* No range holds a cached set that the top is about to hand out. *)
VipsFree ==
  \A v \in DOMAIN Vips :
    InCluster(1) /\ Vips[v].name \in Top.todo => v \in live /\ v \notin Below /\ v # Vals[1].set

Keeps == TypeInv' /\ (VipsFree /\ OwnInv => OwnInv')

LEMMA LeafKeeps ==
  TypeInv /\ (Literal \/ NonrangeLiteral \/ Parts \/ Nothing \/ Unparsable) => Keeps
<1> SUFFICES ASSUME TypeInv, Literal \/ NonrangeLiteral \/ Parts \/ Nothing \/ Unparsable
             PROVE  Keeps
  OBVIOUS
<1>1. PICK op \in {"literal", "string", "parts", "nothing", "unparsable"} : Ready(op)
  BY DEF Literal, NonrangeLiteral, Parts, Nothing, Unparsable
<1>2. stack # <<>> /\ Top.expr.op = op BY <1>1, ReadyOperands
<1>3. SyntaxOK(Top.expr) BY <1>2, TopFrame
<1>4. \E names \in SUBSET Name, q \in BOOLEAN : ReturnNew(names, q, {})
  <2>1. CASE Literal
    <3>1. Top.expr.op = "literal" BY <2>1, ReadyOperands DEF Literal
    <3>2. Top.expr.name \in Name BY <1>3, <3>1 DEF SyntaxOK
    <3>3. ReturnNew({Top.expr.name}, FALSE, {}) BY <2>1 DEF Literal
    <3>4. {Top.expr.name} \in SUBSET Name BY <3>2
    <3>5. QED BY <3>3, <3>4, Zenon
  <2>2. CASE NonrangeLiteral
    <3>1. Top.expr.op = "string" BY <2>2, ReadyOperands DEF NonrangeLiteral
    <3>2. Top.expr.name \in Name BY <1>3, <3>1 DEF SyntaxOK
    <3>3. ReturnNew({Top.expr.name}, TRUE, {}) BY <2>2 DEF NonrangeLiteral
    <3>4. {Top.expr.name} \in SUBSET Name BY <3>2
    <3>5. QED BY <3>3, <3>4, Zenon
  <2>3. CASE Parts
    <3>1. Top.expr.op = "parts" BY <2>3, ReadyOperands DEF Parts
    <3>2. Top.expr.names \in SUBSET Name BY <1>3, <3>1 DEF SyntaxOK
    <3>3. ReturnNew(Top.expr.names, FALSE, {}) BY <2>3 DEF Parts
    <3>4. QED BY <3>2, <3>3, Zenon
  <2>4. CASE Nothing \/ Unparsable
    <3>1. ReturnNew({}, FALSE, {}) BY <2>4 DEF Nothing, Unparsable
    <3>2. {} \in SUBSET Name OBVIOUS
    <3>3. QED BY <3>1, <3>2, Zenon
  <2>5. QED BY <2>1, <2>2, <2>3, <2>4
<1>5. PICK names \in SUBSET Name : \E q \in BOOLEAN : ReturnNew(names, q, {}) BY <1>4
<1>6. PICK q \in BOOLEAN : ReturnNew(names, q, {}) BY <1>5
<1>7. \A d \in {} : \E i \in 1..Len(Vals) : d = Vals[i] OBVIOUS
<1>8. TypeInv' /\ (OwnInv => OwnInv') BY <1>2, <1>6, <1>7, ReturnNewKeeps
<1>9. QED BY <1>8 DEF Keeps

(* One operand takes in the other, which is destroyed. *)
LEMMA MergeSets ==
  ASSUME TypeInv, stack # <<>>, NEW i \in 1..Len(Vals), NEW j \in 1..Len(Vals),
         Merge(Vals[i], Vals[j])
  PROVE  /\ nodes' \in Seq(SUBSET Name) /\ Len(nodes') = N /\ N \in Nat
         /\ live' = live \ {Vals[j].set} /\ live' \subseteq 1..N
<1>1. /\ Vals[i].set \in 1..N
      /\ nodes[Vals[i].set] \union Nodes(Vals[j]) \in SUBSET Name
  BY TopFrame DEF Nodes
<1>2. nodes' = [nodes EXCEPT ![Vals[i].set] = nodes[Vals[i].set] \union Nodes(Vals[j])] BY DEF Merge
<1>3. live' = live \ {Vals[j].set} BY DEF Merge, Destroy
<1>4. QED BY <1>1, <1>2, <1>3, SetsChange DEF TypeInv

LEMMA UnionKeeps == TypeInv /\ Union => Keeps
<1> SUFFICES ASSUME TypeInv, Union PROVE Keeps OBVIOUS
<1>1. stack # <<>> /\ 1 \in 1..Len(Vals) /\ 2 \in 1..Len(Vals) BY ReadyOperands DEF Union
<1>2. PICK i \in {1, 2}, j \in {1, 2} : i # j /\ Merge(Vals[i], Vals[j]) /\ Return(Vals[i])
  BY DEF Union
<1>3. i \in 1..Len(Vals) /\ j \in 1..Len(Vals) BY <1>1, <1>2
<1>4. /\ nodes' \in Seq(SUBSET Name) /\ Len(nodes') = N /\ N \in Nat
      /\ live' = live \ {Vals[j].set} /\ live' \subseteq 1..N
  BY <1>1, <1>2, <1>3, MergeSets
<1>5. \A s \in live \ live' : \E k \in 1..Len(Vals) : k # i /\ s = Vals[k].set
  BY <1>2, <1>3, <1>4
<1>6. QED BY <1>1, <1>2, <1>3, <1>4, <1>5, ReturnOperand DEF Keeps

LEMMA NotKeeps == TypeInv /\ Not => Keeps
<1> SUFFICES ASSUME TypeInv, Not PROVE Keeps OBVIOUS
<1>1. stack # <<>> /\ 1 \in 1..Len(Vals) /\ 2 \in 1..Len(Vals) BY ReadyOperands DEF Not
<1>2. /\ nodes' = [nodes EXCEPT ![Vals[1].set] = nodes[Vals[1].set] \ Nodes(Vals[2])]
      /\ live' = live \ {Vals[2].set} /\ Return(Vals[1])
  BY DEF Not, Destroy
<1>3. Vals[1].set \in 1..N /\ nodes[Vals[1].set] \ Nodes(Vals[2]) \in SUBSET Name
  BY <1>1, TopFrame DEF Nodes
<1>4. /\ nodes' \in Seq(SUBSET Name) /\ Len(nodes') = N /\ N \in Nat /\ live' \subseteq 1..N
  BY <1>2, <1>3, SetsChange DEF TypeInv
<1>5. \A s \in live \ live' : \E k \in 1..Len(Vals) : k # 1 /\ s = Vals[k].set BY <1>1, <1>2
<1>6. QED BY <1>1, <1>2, <1>4, <1>5, ReturnOperand DEF Keeps

LEMMA DiffKeeps == TypeInv /\ Diff => Keeps
<1> SUFFICES ASSUME TypeInv, Diff PROVE Keeps OBVIOUS
<1>1. /\ stack # <<>> /\ 1 \in 1..Len(Vals) /\ Return(Vals[1])
      /\ ~RegexOperand(Top.expr) => 2 \in 1..Len(Vals)
  BY ReadyOperands DEF Diff
<1>2. Vals[1].set \in 1..N /\ Nodes(Vals[1]) \subseteq Name /\ N \in Nat BY <1>1, TopFrame
<1>3. /\ nodes' \in Seq(SUBSET Name) /\ N <= Len(nodes')
      /\ live' \subseteq 1..Len(nodes') /\ live \subseteq live'
  <2>1. CASE RegexOperand(Top.expr)
    <3>1. PICK matched : /\ matched = Matches(Top.expr.kids[2].regex, Vals[1])
                         /\ nodes' = Append([nodes EXCEPT ![Vals[1].set] = nodes[Vals[1].set] \ matched],
                                            matched)
                         /\ live' = live \union {Fresh}
      BY <2>1 DEF Diff
    <3>2. matched \in SUBSET Name /\ nodes[Vals[1].set] \ matched \in SUBSET Name
      BY <1>2, <3>1, HostnamesOK DEF Nodes
    <3>3. PICK new \in Seq(SUBSET Name) : Len(new) = N /\ nodes' = Append(new, matched)
      BY <1>2, <3>1, <3>2, SetsChange
    <3>4. nodes' \in Seq(SUBSET Name) /\ Len(nodes') = N + 1 BY <3>2, <3>3
    <3>5. Fresh = N + 1 BY DEF Fresh, N
    <3>6. live \subseteq 1..N BY DEF TypeInv
    <3>7. QED BY <1>2, <3>1, <3>4, <3>5, <3>6
  <2>2. CASE ~RegexOperand(Top.expr)
    <3>1. nodes' = [nodes EXCEPT ![Vals[1].set] = nodes[Vals[1].set] \ Nodes(Vals[2])] /\ live' = live
      BY <2>2 DEF Diff
    <3>2. nodes[Vals[1].set] \ Nodes(Vals[2]) \in SUBSET Name BY <1>2 DEF Nodes
    <3>3. QED BY <1>2, <3>1, <3>2, SetsChange DEF TypeInv
  <2>3. QED BY <2>1, <2>2
<1>4. QED BY <1>1, <1>3, ReturnOperand DEF Keeps

LEMMA InterKeeps == TypeInv /\ Inter => Keeps
<1> SUFFICES ASSUME TypeInv, Inter PROVE Keeps OBVIOUS
<1>1. /\ stack # <<>> /\ 1 \in 1..Len(Vals)
      /\ ~RegexOperand(Top.expr) => 2 \in 1..Len(Vals)
  BY ReadyOperands DEF Inter
<1>2. Nodes(Vals[1]) \subseteq Name /\ Vals[1].quoted \in BOOLEAN BY <1>1, TopFrame
<1>3. CASE RegexOperand(Top.expr)
  <2>1. PICK names \in SUBSET Name : ReturnNew(names, Vals[1].quoted, {Vals[1]})
    BY <1>2, <1>3 DEF Inter
  <2>2. \A d \in {Vals[1]} : \E i \in 1..Len(Vals) : d = Vals[i] BY <1>1
  <2>3. TypeInv' /\ (OwnInv => OwnInv') BY <1>1, <1>2, <2>1, <2>2, ReturnNewKeeps
  <2>4. QED BY <2>3 DEF Keeps
<1>4. CASE ~RegexOperand(Top.expr)
  <2> DEFINE names == Nodes(Vals[1]) \intersect Nodes(Vals[2])
             q == Vals[1].quoted \/ Vals[2].quoted
  <2>1. ReturnNew(names, q, {Vals[1], Vals[2]}) BY <1>4 DEF Inter
  <2>2. names \in SUBSET Name /\ q \in BOOLEAN BY <1>2
  <2>3. \A d \in {Vals[1], Vals[2]} : \E i \in 1..Len(Vals) : d = Vals[i] BY <1>1, <1>4
  <2> HIDE DEF names, q
  <2>4. TypeInv' /\ (OwnInv => OwnInv') BY <1>1, <2>1, <2>2, <2>3, ReturnNewKeeps
  <2>5. QED BY <2>4 DEF Keeps
<1>5. QED BY <1>3, <1>4

LEMMA RegexKeeps == TypeInv /\ Regex => Keeps
<1> SUFFICES ASSUME TypeInv, Regex PROVE Keeps OBVIOUS
<1>1. stack # <<>> /\ 1 \in 1..Len(Vals) BY ReadyOperands DEF Regex
<1>2. Nodes(Vals[1]) \subseteq Name BY <1>1, TopFrame
<1>3. ReturnNew(Matches(Top.expr.regex, Vals[1]), FALSE, {Vals[1]}) BY DEF Regex
<1>4. Matches(Top.expr.regex, Vals[1]) \in SUBSET Name BY <1>2, HostnamesOK
<1>5. QED BY <1>1, <1>3, <1>4, ReturnNewKeeps DEF Keeps

LEMMA BracesKeeps == TypeInv /\ Braces => Keeps
<1> SUFFICES ASSUME TypeInv, Braces PROVE Keeps OBVIOUS
<1>1. stack # <<>> /\ 1 \in 1..Len(Vals) /\ 2 \in 1..Len(Vals) /\ 3 \in 1..Len(Vals)
  BY ReadyOperands DEF Braces
<1>2. \A i \in {1, 2, 3} : Nodes(Vals[i]) \subseteq Name BY <1>1, TopFrame
<1> DEFINE names == {b[1] \o b[2] \o b[3] :
                       b \in Factor(Vals[1]) \X Factor(Vals[2]) \X Factor(Vals[3])}
           quoted == Vals[1].quoted \/ Vals[2].quoted \/ Vals[3].quoted
<1>3. ReturnNew(names, quoted, {Vals[1], Vals[2], Vals[3]}) BY DEF Braces
<1>4. names \in SUBSET Name
  <2>1. Factor(Vals[1]) \subseteq Name /\ Factor(Vals[2]) \subseteq Name /\ Factor(Vals[3]) \subseteq Name
    BY <1>2, HostnamesOK
  <2>2. ASSUME NEW a \in Name, NEW b \in Name, NEW d \in Name PROVE a \o b \o d \in Name
    <3>1. a \o b \in Seq(Symbol) BY ConcatProperties DEF Name
    <3>2. QED BY <3>1, ConcatProperties DEF Name
  <2>3. QED BY <2>1, <2>2
<1>5. quoted \in BOOLEAN OBVIOUS
<1> HIDE DEF names, quoted
<1>6. QED BY <1>1, <1>3, <1>4, <1>5, ReturnNewKeeps DEF Keeps

LEMMA FunctionDoneKeeps == TypeInv /\ FunctionDone => Keeps
<1> SUFFICES ASSUME TypeInv, FunctionDone PROVE Keeps OBVIOUS
<1> DEFINE m == Len(Operands(Top.expr))
<1>1. /\ stack # <<>> /\ Len(Vals) = m + 1 /\ nodes' = nodes
      /\ live' = live \ {r.set : r \in {Vals[i] : i \in 1..m}} /\ Return(Vals[m + 1])
  BY DEF FunctionDone, Evaluating, Destroy
<1>2. m \in Nat /\ N \in Nat BY <1>1, TopFrame
<1> HIDE DEF m
<1>3. m + 1 \in 1..Len(Vals) BY <1>1, <1>2
<1>7. nodes' \in Seq(SUBSET Name) /\ Len(nodes') = N /\ live' \subseteq 1..N
  BY <1>1 DEF TypeInv, N
<1>4. N <= Len(nodes') /\ live' \subseteq 1..Len(nodes') BY <1>2, <1>7
<1>5. \A s \in live \ live' : \E k \in 1..Len(Vals) : k # m + 1 /\ s = Vals[k].set
  BY <1>1, <1>2
<1>6. QED BY <1>1, <1>3, <1>4, <1>5, <1>7, ReturnOperand DEF Keeps

LEMMA ClusterDoneKeeps == TypeInv /\ ClusterDone => Keeps
<1> SUFFICES ASSUME TypeInv, ClusterDone PROVE Keeps OBVIOUS
<1>1. stack # <<>> /\ 1 \in 1..Len(Vals) /\ Return(Vals[1]) /\ nodes' = nodes /\ live' = live
  BY DEF ClusterDone, InCluster, sets
<1>2. N \in Nat BY <1>1, TopFrame
<1>3. nodes' \in Seq(SUBSET Name) /\ Len(nodes') = N /\ live' \subseteq 1..N
  BY <1>1 DEF TypeInv, N
<1>4. N <= Len(nodes') /\ live' \subseteq 1..Len(nodes') BY <1>2, <1>3
<1>5. \A s \in live \ live' : \E k \in 1..Len(Vals) : k # 1 /\ s = Vals[k].set BY <1>1
<1>6. TypeInv' /\ (OwnInv => OwnInv') BY <1>1, <1>3, <1>4, <1>5, ReturnOperand
<1>7. QED BY <1>6 DEF Keeps

(***************************************************************************)
(* Steps that call, and steps that change the top.                         *)
(***************************************************************************)
SameRanges(st) == Len(st) = Len(stack) /\ \A k \in 1..Len(stack) : st[k].vals = stack[k].vals

(* The range a new frame starts with, if any, is in no one else's hands. *)
StartsApart(v) ==
  \/ Len(v) = 0
  \/ Len(v) = 1 /\ v[1].set \in live' /\ v[1].set \notin live

LEMMA CallTypes ==
  ASSUME TypeInv, NEW st, StackOK(st, N), st # <<>>, nodes' \in Seq(SUBSET Name), N <= Len(nodes'),
         live' \subseteq 1..Len(nodes'), rr_r' = rr_r,
         NEW f \in FrameIn(Len(nodes')), Holds(f), Waits(st[Len(st)], f), stack' = Append(st, f)
  PROVE  TypeInv'
<1>1. Len(nodes') \in Nat /\ N \in Nat BY DEF TypeInv, N
<1>2. StackOK(st, Len(nodes')) /\ rr_r' \in Seq(Ranges(Len(nodes')))
  BY <1>1, MoreSets DEF TypeInv
<1>3. StackOK(stack', Len(nodes')) BY <1>1, <1>2, PushFrame
<1>4. Len(Vips) <= Len(nodes') BY <1>1 DEF TypeInv
<1>5. QED BY <1>2, <1>3, <1>4 DEF TypeInv, N

LEMMA CallOwns ==
  ASSUME TypeInv, OwnInv, NEW st, st \in Seq(FrameIn(N)), st # <<>>, SameRanges(st),
         live \subseteq live', NEW f, StartsApart(f.vals), stack' = Append(st, f)
  PROVE  OwnInv'
<1> DEFINE K == Len(stack) + 1
<1>1. /\ Len(st) \in Nat \ {0} /\ Len(stack') = K /\ stack'[K] = f /\ stack' # <<>>
      /\ \A k \in 1..Len(stack) : stack'[k] = st[k]
      /\ Len(stack) = Len(st)
  BY DEF SameRanges
<1>2. \A k \in 1..Len(stack) : stack'[k].vals = stack[k].vals BY <1>1 DEF SameRanges
<1>3. \A k \in 1..Len(stack') : k = K \/ k \in 1..Len(stack) BY <1>1
<1>4. Held(stack, live) BY DEF OwnInv
<1> HIDE DEF K
<1>5. ASSUME NEW k \in 1..Len(stack'), NEW i \in 1..Len(stack'[k].vals)
      PROVE  /\ stack'[k].vals[i].set \in live'
             /\ \/ k = K /\ i = 1
                \/ /\ k \in 1..Len(stack) /\ i \in 1..Len(stack[k].vals)
                   /\ stack'[k].vals[i].set = stack[k].vals[i].set
                   /\ stack'[k].vals[i].set \in live
  <2>1. CASE k = K
    <3>1. stack'[k].vals = f.vals BY <1>1, <2>1
    <3>2. i \in 1..Len(f.vals) BY <3>1
    <3>3. Len(f.vals) # 0 BY <3>2
    <3>4. Len(f.vals) = 1 /\ f.vals[1].set \in live' BY <3>3 DEF StartsApart
    <3>5. i = 1 BY <3>2, <3>4
    <3>6. QED BY <2>1, <3>1, <3>4, <3>5
  <2>2. CASE k \in 1..Len(stack)
    <3>1. stack'[k].vals = stack[k].vals BY <1>2, <2>2
    <3>2. i \in 1..Len(stack[k].vals) /\ stack[k].vals[i].set \in live
      BY <1>4, <2>2, <3>1 DEF Held
    <3>3. QED BY <2>2, <3>1, <3>2
  <2>3. QED BY <1>3, <2>1, <2>2
<1>6. CASE Len(f.vals) = 0
  <2>1. ASSUME NEW k \in 1..Len(stack'), NEW i \in 1..Len(stack'[k].vals)
        PROVE  k \in 1..Len(stack) /\ i \in 1..Len(stack[k].vals)
    <3>1. CASE k = K BY <1>1, <1>6, <3>1
    <3>2. CASE k # K BY <1>2, <1>3, <3>2
    <3>3. QED BY <3>1, <3>2
  <2>2. Held(stack', live')
    <3>1. ASSUME NEW k \in 1..Len(stack'), NEW i \in 1..Len(stack'[k].vals),
                 NEW l \in 1..Len(stack'), NEW j \in 1..Len(stack'[l].vals),
                 stack'[k].vals[i].set = stack'[l].vals[j].set
          PROVE  k = l /\ i = j
      <4>1. /\ k \in 1..Len(stack) /\ i \in 1..Len(stack[k].vals)
            /\ l \in 1..Len(stack) /\ j \in 1..Len(stack[l].vals)
        BY <2>1
      <4>2. stack[k].vals[i].set = stack[l].vals[j].set BY <1>2, <3>1, <4>1
      <4>3. QED BY <1>4, <4>1, <4>2 DEF Held
    <3>2. QED BY <1>5, <3>1 DEF Held
  <2>3. QED BY <1>1, <2>2 DEF OwnInv, ResultLive
<1>7. CASE Len(f.vals) = 1
  <2>1. stack'[K].vals[1].set \notin live BY <1>1, <1>7 DEF StartsApart
  <2>2. HoldsOneMore(stack, stack', live', K, 1) BY <1>5, <2>1 DEF HoldsOneMore
  <2>3. Held(stack', live') BY <1>4, <2>2, HoldsMore
  <2>4. QED BY <1>1, <2>3 DEF OwnInv, ResultLive
<1>8. QED BY <1>6, <1>7 DEF StartsApart

(* The top now holds v: ranges it held, and at most the I-th another. *)
TopHolds(v, I) ==
  /\ I \in 1..Len(v)
  /\ \A i \in 1..Len(v) :
       /\ v[i].set \in live' /\ v[i].set \notin Below
       /\ \/ i = I
          \/ i \in 1..Len(Vals) /\ v[i].set = Vals[i].set /\ v[i].set # v[I].set

LEMMA TopTypes ==
  ASSUME TypeInv, NEW st, StackOK(st, N), st # <<>>, nodes' \in Seq(SUBSET Name), N <= Len(nodes'),
         live' \subseteq 1..Len(nodes'), rr_r' = rr_r,
         NEW f \in FrameIn(Len(nodes')), Holds(f), f.at = st[Len(st)].at, f.root = st[Len(st)].root,
         stack' = WithTop(st, f)
  PROVE  /\ TypeInv'
         /\ stack' # <<>> /\ Len(stack') = Len(st) /\ Len(st) \in Nat \ {0} /\ stack'[Len(st)] = f
         /\ \A k \in 1..Len(st) - 1 : stack'[k] = st[k]
<1>1. Len(nodes') \in Nat /\ N \in Nat BY DEF TypeInv, N
<1>2. StackOK(st, Len(nodes')) /\ rr_r' \in Seq(Ranges(Len(nodes')))
  BY <1>1, MoreSets DEF TypeInv
<1> DEFINE m == Len(nodes')
<1>7. m \in Nat /\ StackOK(st, m) /\ f \in FrameIn(m) BY <1>1, <1>2
<1> HIDE DEF m
<1>3. /\ StackOK(stack', m) /\ stack' # <<>> /\ Len(stack') = Len(st)
      /\ Len(st) \in Nat \ {0} /\ stack'[Len(st)] = f
      /\ \A k \in 1..Len(st) - 1 : stack'[k] = st[k]
  BY <1>7, SetTop
<1>4. Len(Vips) <= Len(nodes') BY <1>1 DEF TypeInv
<1>5. QED BY <1>2, <1>3, <1>4 DEF TypeInv, N, m

LEMMA TopOwns ==
  ASSUME TypeInv, OwnInv, stack # <<>>, stack' # <<>>, Len(stack') = Len(stack),
         \A k \in 1..Len(stack) - 1 : stack'[k].vals = stack[k].vals,
         NEW I, TopHolds(stack'[Len(stack)].vals, I), Below \subseteq live'
  PROVE  OwnInv'
<1> DEFINE K == Len(stack)
<1>1. K \in Nat \ {0} BY TopFrame
<1>2. Vals = stack[K].vals BY DEF Vals, Top
<1>3. ASSUME NEW k \in 1..Len(stack'), NEW i \in 1..Len(stack'[k].vals)
      PROVE  /\ stack'[k].vals[i].set \in live'
             /\ \/ k = K /\ i = I
                \/ /\ k \in 1..Len(stack) /\ i \in 1..Len(stack[k].vals)
                   /\ stack'[k].vals[i].set = stack[k].vals[i].set
                   /\ stack'[k].vals[i].set # stack'[K].vals[I].set
  <2>1. CASE k = K BY <1>1, <1>2, <2>1 DEF TopHolds
  <2>2. CASE k # K
    <3>1. k \in 1..Len(stack) - 1 BY <1>1, <2>2
    <3>2. stack'[k].vals = stack[k].vals BY <3>1
    <3>3. i \in 1..Len(stack[k].vals) BY <3>2
    <3>4. stack[k].vals[i].set \in Below BY <3>1, <3>3, BelowIs
    <3>5. stack'[K].vals[I].set \notin Below BY DEF TopHolds
    <3>6. stack[k].vals[i].set \in live' /\ k \in 1..Len(stack) BY <3>1, <3>4
    <3>7. QED BY <3>2, <3>3, <3>4, <3>5, <3>6
  <2>3. QED BY <2>1, <2>2
<1>4. Held(stack, live) BY DEF OwnInv
<1>5. HoldsOneMore(stack, stack', live', K, I) BY <1>3 DEF HoldsOneMore
<1>6. Held(stack', live') BY <1>4, <1>5, HoldsMore
<1>7. QED BY <1>6 DEF OwnInv, ResultLive

LEMMA NewEvaluation ==
  ASSUME NEW n \in Nat, NEW e \in Expression, NEW root \in BOOLEAN
  PROVE  /\ Evaluation(e, root) \in FrameIn(n) /\ Holds(Evaluation(e, root))
         /\ Evaluation(e, root).at = "ast" /\ StartsApart(Evaluation(e, root).vals)
         /\ Evaluation(e, root).root = root
<1> DEFINE f == Evaluation(e, root)
<1>1. /\ f.at = "ast" /\ f.expr = e /\ f.root = root /\ f.vals = <<>>
      /\ f = [at |-> "ast", expr |-> e, root |-> root, todo |-> {}, vals |-> <<>>]
  BY DEF Evaluation
<1>2. f \in FrameIn(n)
  <2>1. {} \in SUBSET Name /\ <<>> \in Seq(Ranges(n)) OBVIOUS
  <2>2. QED BY <1>1, <2>1 DEF FrameIn
<1> HIDE DEF f
<1>3. Len(Operands(e)) \in Nat BY OperandsOK
<1>4. Len(f.vals) = 0 BY <1>1
<1>5. Returned(f) \in Nat BY <1>1, <1>3 DEF Returned
<1>6. Holds(f) BY <1>1, <1>4, <1>5 DEF Holds
<1>7. StartsApart(f.vals) BY <1>4 DEF StartsApart
<1>8. QED BY <1>1, <1>2, <1>6, <1>7 DEF f

LEMMA DescendKeeps == TypeInv /\ Descend => Keeps
<1> SUFFICES ASSUME TypeInv, Descend PROVE Keeps OBVIOUS
<1> DEFINE e == Operands(Top.expr)[Len(Vals) + 1]
<1>1. /\ stack # <<>> /\ Top.at = "ast" /\ Len(Vals) < Len(Operands(Top.expr))
      /\ stack' = Append(stack, Evaluation(e, FALSE))
      /\ nodes' = nodes /\ live' = live /\ rr_r' = rr_r
  BY DEF Descend, Evaluating, sets
<1>2. /\ N \in Nat /\ Len(Vals) \in Nat /\ Len(Operands(Top.expr)) \in Nat
      /\ Operands(Top.expr) \in Seq(Expression)
  BY <1>1, TopFrame, OperandsOK
<1>3. e \in Expression BY <1>1, <1>2
<1>4. /\ Len(nodes') = N /\ nodes' \in Seq(SUBSET Name) /\ live' \subseteq 1..N
      /\ live \subseteq live'
  BY <1>1 DEF TypeInv, N
<1> DEFINE f == Evaluation(e, FALSE)
<1> HIDE DEF e
<1>5. f \in FrameIn(N) /\ Holds(f) /\ f.at = "ast" /\ StartsApart(f.vals)
  BY <1>2, <1>3, NewEvaluation
<1>6. stack' = Append(stack, f) BY <1>1
<1> HIDE DEF f
<1>7. Waits(stack[Len(stack)], f) BY <1>1, <1>5 DEF Waits, Top, Vals
<1>8. StackOK(stack, N) /\ stack \in Seq(FrameIn(N)) /\ SameRanges(stack)
  BY DEF TypeInv, StackOK, SameRanges
<1>9. TypeInv'
  <2>1. N <= Len(nodes') /\ live' \subseteq 1..Len(nodes') /\ f \in FrameIn(Len(nodes'))
    BY <1>2, <1>4, <1>5
  <2>2. QED BY <1>1, <1>4, <1>5, <1>6, <1>7, <1>8, <2>1, CallTypes
<1>10. OwnInv => OwnInv' BY <1>1, <1>4, <1>5, <1>6, <1>8, CallOwns
<1>11. QED BY <1>9, <1>10 DEF Keeps

(* An empty range, where the loop of a function begins. *)
LEMMA NewRange ==
  ASSUME TypeInv, Allocate({}, {})
  PROVE  /\ nodes' \in Seq(SUBSET Name) /\ Len(nodes') = N + 1 /\ N \in Nat
         /\ live' \subseteq 1..N + 1 /\ live \subseteq live'
         /\ RangeOf(Fresh, FALSE) \in Ranges(N + 1)
         /\ RangeOf(Fresh, FALSE).set \in live' /\ RangeOf(Fresh, FALSE).set \notin live
<1>1. {} \in SUBSET Name OBVIOUS
<1>2. nodes' = Append(nodes, {}) /\ live' = live \union {Fresh} BY DEF Allocate
<1>3. nodes' \in Seq(SUBSET Name) /\ Len(nodes') = N + 1 /\ N \in Nat /\ Fresh = N + 1
  BY <1>1, <1>2, SetsChange
<1>4. live \subseteq 1..N BY DEF TypeInv
<1>5. RangeOf(Fresh, FALSE).set = N + 1 /\ RangeOf(Fresh, FALSE) \in Ranges(N + 1)
  BY <1>3 DEF RangeOf, Ranges
<1>6. live' \subseteq 1..N + 1
  <2>1. live \subseteq 1..N + 1 /\ {Fresh} \subseteq 1..N + 1 BY <1>3, <1>4
  <2>2. QED BY <1>2, <2>1
<1>7. live \subseteq live' /\ N + 1 \in live' BY <1>2, <1>3
<1>8. N + 1 \notin live BY <1>3, <1>4
<1>9. QED BY <1>3, <1>5, <1>6, <1>7, <1>8

LEMMA OneRange ==
  ASSUME NEW n \in Nat, NEW r \in Ranges(n)
  PROVE  <<r>> \in Seq(Ranges(n)) /\ Len(<<r>>) = 1 /\ <<r>>[1] = r
OBVIOUS

LEMMA CallClusterKeeps == TypeInv /\ CallCluster => Keeps
<1> SUFFICES ASSUME TypeInv, CallCluster PROVE Keeps OBVIOUS
<1> DEFINE todo == IF Len(Vals) = 1 THEN Hostnames(Vals[1]) ELSE {}
           v == <<RangeOf(Fresh, FALSE)>>
           f == [at |-> "cluster", expr |-> Top.expr, root |-> FALSE, todo |-> todo, vals |-> v]
<1>1. stack # <<>> /\ Top.expr.op = "function" /\ Len(Vals) = Len(Operands(Top.expr))
  BY ReadyOperands DEF CallCluster
<1>2. Top.at = "ast" /\ stack' = Append(stack, f) /\ rr_r' = rr_r /\ Allocate({}, {})
  BY DEF CallCluster, Ready, Evaluating
<1>3. /\ nodes' \in Seq(SUBSET Name) /\ Len(nodes') = N + 1 /\ N \in Nat
      /\ live' \subseteq 1..N + 1 /\ live \subseteq live'
      /\ RangeOf(Fresh, FALSE) \in Ranges(N + 1)
      /\ RangeOf(Fresh, FALSE).set \in live' /\ RangeOf(Fresh, FALSE).set \notin live
  BY <1>2, NewRange
<1>4. v \in Seq(Ranges(N + 1)) /\ Len(v) = 1 /\ v[1] = RangeOf(Fresh, FALSE)
  <2>1. N + 1 \in Nat BY <1>3
  <2>2. QED BY <1>3, <2>1, OneRange
<1>5. StartsApart(v) BY <1>3, <1>4 DEF StartsApart
<1>6. todo \in SUBSET Name
  <2>1. CASE Len(Vals) = 1
    <3>1. Nodes(Vals[1]) \subseteq Name BY <1>1, <2>1, TopFrame
    <3>2. QED BY <2>1, <3>1, HostnamesOK
  <2>2. CASE Len(Vals) # 1 BY <2>2
  <2>3. QED BY <2>1, <2>2
<1>7. Top.expr \in Expression BY <1>1, TopFrame
<1> HIDE DEF todo, v
<1>8. f \in FrameIn(N + 1) /\ f.at = "cluster" /\ f.vals = v BY <1>4, <1>6, <1>7 DEF FrameIn
<1> HIDE DEF f
<1>9. Holds(f) BY <1>4, <1>8 DEF Holds
<1>10. Waits(stack[Len(stack)], f) BY <1>1, <1>2, <1>8 DEF Waits, Top, Vals
<1>11. StackOK(stack, N) /\ stack \in Seq(FrameIn(N)) /\ SameRanges(stack)
  BY DEF TypeInv, StackOK, SameRanges
<1>12. TypeInv'
  <2>1. N <= Len(nodes') /\ live' \subseteq 1..Len(nodes') /\ f \in FrameIn(Len(nodes'))
    BY <1>3, <1>8
  <2>2. QED BY <1>1, <1>2, <1>3, <1>9, <1>10, <1>11, <2>1, CallTypes
<1>13. OwnInv => OwnInv' BY <1>1, <1>2, <1>3, <1>5, <1>8, <1>11, CallOwns
<1>14. QED BY <1>12, <1>13 DEF Keeps

(* One step of the loop over names: the name is looked up. *)
LEMMA LookingOK ==
  ASSUME TypeInv, stack # <<>>, NEW name
  PROVE  /\ StackOK(Looking(name), N) /\ Looking(name) # <<>>
         /\ Looking(name) \in Seq(FrameIn(N)) /\ SameRanges(Looking(name))
         /\ Len(stack) \in Nat \ {0} /\ Len(Looking(name)) = Len(stack)
         /\ Looking(name)[Len(stack)] = [Top EXCEPT !.todo = Top.todo \ {name}]
         /\ Looking(name)[Len(stack)].at = Top.at /\ Looking(name)[Len(stack)].vals = Vals
         /\ Looking(name)[Len(stack)] \in FrameIn(N)
         /\ \A k \in 1..Len(stack) - 1 : Looking(name)[k] = stack[k]
<1> DEFINE f == [Top EXCEPT !.todo = Top.todo \ {name}]  st == Looking(name)
<1>1. st = WithTop(stack, f) BY DEF Looking, Top, WithTop
<1>2. StackOK(stack, N) /\ N \in Nat BY TopFrame DEF TypeInv
<1>3. Top \in FrameIn(N) /\ Holds(Top) BY TopFrame
<1>4. f \in FrameIn(N) BY <1>3 DEF FrameIn
<1>5. /\ f.at = Top.at /\ f.expr = Top.expr /\ f.vals = Top.vals /\ f.root = Top.root
  BY <1>3 DEF FrameIn
<1> HIDE DEF f, st
<1>6. Holds(f) BY <1>3, <1>5 DEF Holds, Returned
<1>7. f.at = stack[Len(stack)].at /\ f.root = stack[Len(stack)].root BY <1>5 DEF Top
<1>9. /\ StackOK(st, N) /\ st # <<>> /\ Len(st) = Len(stack) /\ Len(stack) \in Nat \ {0}
      /\ st[Len(stack)] = f /\ \A k \in 1..Len(stack) - 1 : st[k] = stack[k]
  BY <1>1, <1>2, <1>4, <1>6, <1>7, SetTop
<1>10. SameRanges(st)
  <2>1. ASSUME NEW k \in 1..Len(stack) PROVE st[k].vals = stack[k].vals
    <3>1. CASE k = Len(stack) BY <1>5, <1>9, <3>1 DEF Top
    <3>2. CASE k # Len(stack)
      <4>1. k \in 1..Len(stack) - 1 BY <1>9, <3>2
      <4>2. QED BY <1>9, <4>1
    <3>3. QED BY <3>1, <3>2
  <2>2. QED BY <1>9, <2>1 DEF SameRanges
<1>11. st \in Seq(FrameIn(N)) BY <1>9 DEF StackOK
<1>12. st[Len(stack)].at = Top.at /\ st[Len(stack)].vals = Vals BY <1>5, <1>9 DEF Vals
<1>13. QED BY <1>4, <1>9, <1>10, <1>11, <1>12 DEF f, st

LEMMA ExpandTextKeeps == TypeInv /\ ExpandText => Keeps
<1> SUFFICES ASSUME TypeInv, ExpandText PROVE Keeps OBVIOUS
<1>1. stack # <<>> /\ Top.at = "cluster" /\ Len(Vals) = 1 BY DEF ExpandText, InCluster
<1>2. PICK name \in Top.todo \intersect DOMAIN Texts :
        stack' = Append(Looking(name), Evaluation(Texts[name], TRUE))
  BY DEF ExpandText
<1>3. nodes' = nodes /\ live' = live /\ rr_r' = rr_r BY DEF ExpandText, sets
<1> DEFINE st == Looking(name)  f == Evaluation(Texts[name], TRUE)
<1>4. Texts[name] \in Expression BY <1>2, TextsAssumption DEF TextsAssumption
<1>5. N \in Nat BY <1>1, TopFrame
<1>6. f \in FrameIn(N) /\ Holds(f) /\ f.at = "ast" /\ StartsApart(f.vals)
  BY <1>4, <1>5, NewEvaluation
<1>7. /\ StackOK(st, N) /\ st # <<>> /\ st \in Seq(FrameIn(N)) /\ SameRanges(st)
      /\ Len(st) = Len(stack) /\ st[Len(stack)].at = Top.at /\ st[Len(stack)].vals = Vals
  BY <1>1, LookingOK
<1>8. stack' = Append(st, f) BY <1>2
<1> HIDE DEF st, f
<1>9. Waits(st[Len(st)], f) BY <1>1, <1>6, <1>7 DEF Waits
<1>10. /\ Len(nodes') = N /\ nodes' \in Seq(SUBSET Name) /\ live' \subseteq 1..N
       /\ live \subseteq live'
  BY <1>3 DEF TypeInv, N
<1>11. TypeInv'
  <2>1. N <= Len(nodes') /\ live' \subseteq 1..Len(nodes') /\ f \in FrameIn(Len(nodes'))
    BY <1>5, <1>6, <1>10
  <2>2. QED BY <1>3, <1>6, <1>7, <1>8, <1>9, <1>10, <2>1, CallTypes
<1>12. OwnInv => OwnInv' BY <1>6, <1>7, <1>8, <1>10, CallOwns
<1>13. QED BY <1>11, <1>12 DEF Keeps

(* A frame can hold other ranges, within what it may hold. *)
LEMMA OtherRanges ==
  ASSUME NEW n \in Nat, NEW m \in Nat, n <= m, NEW f \in FrameIn(n), f.expr \in Expression,
         NEW v \in Seq(Ranges(m)),
         IF f.at = "ast" THEN Len(v) <= Returned(f) ELSE Len(v) \in 1..2
  PROVE  LET g == [f EXCEPT !.vals = v] IN
         g \in FrameIn(m) /\ Holds(g) /\ g.at = f.at /\ g.root = f.root /\ g.vals = v
<1> DEFINE g == [f EXCEPT !.vals = v]
<1>1. g \in FrameIn(m) /\ g.at = f.at /\ g.root = f.root /\ g.vals = v /\ g.expr = f.expr
  BY DEF FrameIn
<1>2. Holds(g) BY <1>1 DEF Holds, Returned
<1>3. QED BY <1>1, <1>2

(* A live range that nothing holds joins those of the top. *)
LEMMA JoinsTop ==
  ASSUME TypeInv, OwnInv, stack # <<>>, live \subseteq live',
         NEW r, r.set \in live', r.set \notin Below, \A i \in 1..Len(Vals) : r.set # Vals[i].set
  PROVE  TopHolds(Append(Vals, r), Len(Vals) + 1) /\ Below \subseteq live'
<1>1. Vals \in Seq(Ranges(N)) /\ Len(Vals) \in Nat BY TopFrame
<1> DEFINE v == Append(Vals, r)
<1>2. /\ Len(v) = Len(Vals) + 1 /\ v[Len(Vals) + 1] = r
      /\ \A i \in 1..Len(Vals) : v[i] = Vals[i]
  BY <1>1
<1> HIDE DEF v
<1>3. Below \subseteq live /\ \A i \in 1..Len(Vals) : Vals[i].set \in live /\ Vals[i].set \notin Below
  BY TopApart
<1>5. Len(Vals) + 1 \in 1..Len(v) BY <1>1, <1>2
<1>6. ASSUME NEW i \in 1..Len(v)
      PROVE  /\ v[i].set \in live' /\ v[i].set \notin Below
             /\ \/ i = Len(Vals) + 1
                \/ i \in 1..Len(Vals) /\ v[i].set = Vals[i].set /\ v[i].set # v[Len(Vals) + 1].set
  <2>1. CASE i = Len(Vals) + 1 BY <1>2, <2>1
  <2>2. CASE i # Len(Vals) + 1
    <3>1. i \in 1..Len(Vals) BY <1>1, <1>2, <2>2
    <3>2. v[i] = Vals[i] BY <1>2, <3>1
    <3>3. QED BY <1>2, <1>3, <3>1, <3>2
  <2>3. QED BY <2>1, <2>2
<1>7. TopHolds(v, Len(Vals) + 1) BY <1>5, <1>6 DEF TopHolds
<1>8. Below \subseteq live' BY <1>3
<1>9. QED BY <1>7, <1>8 DEF v

(* So does a fresh one. *)
LEMMA FreshOnTop ==
  ASSUME TypeInv, OwnInv, stack # <<>>, live \subseteq live',
         NEW r, r.set \in live', r.set \notin live
  PROVE  TopHolds(Append(Vals, r), Len(Vals) + 1) /\ Below \subseteq live'
<1>1. Below \subseteq live /\ \A i \in 1..Len(Vals) : Vals[i].set \in live BY TopApart
<1>2. r.set \notin Below /\ \A i \in 1..Len(Vals) : r.set # Vals[i].set BY <1>1
<1>3. QED BY <1>2, JoinsTop

LEMMA NoFunctionKeeps == TypeInv /\ NoFunction => Keeps
<1> SUFFICES ASSUME TypeInv, NoFunction PROVE Keeps OBVIOUS
<1> DEFINE r == RangeOf(Fresh, FALSE)  v == Append(Vals, r)  f == [Top EXCEPT !.vals = v]
<1>1. stack # <<>> /\ Top.expr.op = "function" /\ Len(Vals) = Len(Operands(Top.expr))
  BY ReadyOperands DEF NoFunction
<1>2. /\ Top.at = "ast" /\ rr_r' = rr_r /\ Allocate({}, {})
      /\ stack' = WithTop(stack, f)
  BY DEF NoFunction, Ready, Evaluating, WithVals, WithTop, Top
<1>3. /\ nodes' \in Seq(SUBSET Name) /\ Len(nodes') = N + 1 /\ N \in Nat
      /\ live' \subseteq 1..N + 1 /\ live \subseteq live' /\ r \in Ranges(N + 1)
      /\ r.set \in live' /\ r.set \notin live
  BY <1>2, NewRange
<1> HIDE DEF r
<1>4. /\ Vals \in Seq(Ranges(N)) /\ Top \in FrameIn(N) /\ Top.expr \in Expression
      /\ Len(Operands(Top.expr)) \in Nat
  BY <1>1, TopFrame
<1>5. Vals \in Seq(Ranges(N + 1)) BY <1>3, <1>4, MoreSets
<1>6. v \in Seq(Ranges(N + 1)) /\ Len(v) = Len(Vals) + 1 BY <1>3, <1>5
<1> HIDE DEF v
<1>7. Len(v) <= Returned(Top) BY <1>1, <1>4, <1>6 DEF Returned
<1>8. f \in FrameIn(N + 1) /\ Holds(f) /\ f.at = Top.at /\ f.root = Top.root /\ f.vals = v
  <2>1. N + 1 \in Nat /\ N <= N + 1 BY <1>3
  <2>2. QED BY <1>2, <1>3, <1>4, <1>6, <1>7, <2>1, OtherRanges
<1> HIDE DEF f
<1>9. /\ TypeInv' /\ stack' # <<>> /\ Len(stack') = Len(stack) /\ stack'[Len(stack)] = f
      /\ \A k \in 1..Len(stack) - 1 : stack'[k] = stack[k]
  <2>1. N <= Len(nodes') /\ live' \subseteq 1..Len(nodes') /\ f \in FrameIn(Len(nodes'))
    BY <1>3, <1>8
  <2>2. f.at = stack[Len(stack)].at /\ f.root = stack[Len(stack)].root BY <1>8 DEF Top
  <2>3. StackOK(stack, N) BY DEF TypeInv
  <2>4. QED BY <1>1, <1>2, <1>3, <1>8, <2>1, <2>2, <2>3, TopTypes
<1>10. OwnInv => OwnInv'
  <2>1. ASSUME OwnInv PROVE OwnInv'
    <3>1. TopHolds(v, Len(Vals) + 1) /\ Below \subseteq live'
      BY <1>1, <1>3, <2>1, FreshOnTop DEF v
    <3>2. TopHolds(stack'[Len(stack)].vals, Len(Vals) + 1) BY <1>8, <1>9, <3>1
    <3>3. QED BY <1>1, <1>9, <2>1, <3>1, <3>2, TopOwns
  <2>2. QED BY <2>1
<1>11. QED BY <1>9, <1>10 DEF Keeps

(* The loop takes one range in, which it then merges. *)
LEMMA LookedUp ==
  ASSUME TypeInv, InCluster(1), NEW name, NEW r, nodes' \in Seq(SUBSET Name), N <= Len(nodes'),
         live' \subseteq 1..Len(nodes'), rr_r' = rr_r, r \in Ranges(Len(nodes')),
         stack' = [Looking(name) EXCEPT ![Len(stack)].vals = Append(@, r)]
  PROVE  /\ TypeInv' /\ stack # <<>> /\ stack' # <<>> /\ Len(stack') = Len(stack)
         /\ stack'[Len(stack)].vals = Append(Vals, r)
         /\ \A k \in 1..Len(stack) - 1 : stack'[k] = stack[k]
<1> DEFINE st == Looking(name)  m == Len(nodes')  v == Append(Vals, r)
           g == st[Len(st)]  f == [g EXCEPT !.vals = v]
<1>1. stack # <<>> /\ Top.at = "cluster" /\ Len(Vals) = 1 BY DEF InCluster
<1>2. /\ StackOK(st, N) /\ st # <<>> /\ Len(stack) \in Nat \ {0} /\ Len(st) = Len(stack)
      /\ st[Len(stack)].at = Top.at /\ st[Len(stack)].vals = Vals
      /\ st[Len(stack)] \in FrameIn(N)
      /\ \A k \in 1..Len(stack) - 1 : st[k] = stack[k]
  BY <1>1, LookingOK
<1>3. stack' = WithTop(st, f) BY <1>2 DEF WithTop
<1>4. /\ g.at = "cluster" /\ g \in FrameIn(N) /\ g.expr \in Expression
  BY <1>1, <1>2 DEF FrameIn
<1>5. m \in Nat /\ N \in Nat /\ r \in Ranges(m) /\ N <= m BY DEF TypeInv, N
<1>6. Vals \in Seq(Ranges(m)) BY <1>1, <1>5, TopFrame, MoreSets
<1>13. \A w \in Seq(Ranges(m)) : \A x \in Ranges(m) :
         Append(w, x) \in Seq(Ranges(m)) /\ Len(Append(w, x)) = Len(w) + 1
  BY AppendProperties
<1>7. v \in Seq(Ranges(m)) /\ Len(v) = 2
  <2>1. v \in Seq(Ranges(m)) /\ Len(v) = Len(Vals) + 1 BY <1>5, <1>6, <1>13
  <2>2. QED BY <1>1, <2>1
<1>10. Len(v) \in 1..2 BY <1>7
<1>11. g = st[Len(st)] OBVIOUS
<1> HIDE DEF st, v, g
<1>8. f \in FrameIn(m) /\ Holds(f) /\ f.at = g.at /\ f.root = g.root /\ f.vals = v
  BY <1>4, <1>5, <1>7, <1>10, OtherRanges
<1> HIDE DEF f
<1>9. /\ TypeInv' /\ stack' # <<>> /\ Len(stack') = Len(st) /\ stack'[Len(st)] = f
      /\ \A k \in 1..Len(st) - 1 : stack'[k] = st[k]
  BY <1>2, <1>3, <1>8, <1>11, TopTypes
<1>12. QED BY <1>1, <1>2, <1>8, <1>9 DEF v

LEMMA NoClusterKeeps == TypeInv /\ NoCluster => Keeps
<1> SUFFICES ASSUME TypeInv, NoCluster PROVE Keeps OBVIOUS
<1> DEFINE r == RangeOf(Fresh, FALSE)
<1>1. PICK name : stack' = [Looking(name) EXCEPT ![Len(stack)].vals = Append(@, r)]
  BY DEF NoCluster
<1>2. InCluster(1) /\ Allocate({}, {}) /\ rr_r' = rr_r BY DEF NoCluster
<1>3. /\ nodes' \in Seq(SUBSET Name) /\ Len(nodes') = N + 1 /\ N \in Nat
      /\ live' \subseteq 1..N + 1 /\ live \subseteq live' /\ r \in Ranges(N + 1)
      /\ r.set \in live' /\ r.set \notin live
  BY <1>2, NewRange
<1> HIDE DEF r
<1>4. N <= Len(nodes') /\ live' \subseteq 1..Len(nodes') /\ r \in Ranges(Len(nodes'))
  BY <1>3
<1>5. /\ TypeInv' /\ stack # <<>> /\ stack' # <<>> /\ Len(stack') = Len(stack)
      /\ stack'[Len(stack)].vals = Append(Vals, r)
      /\ \A k \in 1..Len(stack) - 1 : stack'[k] = stack[k]
  BY <1>1, <1>2, <1>3, <1>4, LookedUp
<1>6. ASSUME OwnInv PROVE OwnInv'
  <2>1. TopHolds(stack'[Len(stack)].vals, Len(Vals) + 1) /\ Below \subseteq live'
    BY <1>3, <1>5, <1>6, FreshOnTop
  <2>2. QED BY <1>5, <1>6, <2>1, TopOwns
<1>7. QED BY <1>5, <1>6 DEF Keeps

(* A cached set can be handed out as long as nobody holds it. *)
LEMMA CachedVipsKeeps == TypeInv /\ CachedVips => Keeps
<1> SUFFICES ASSUME TypeInv, CachedVips PROVE Keeps OBVIOUS
<1>1. PICK v \in DOMAIN Vips :
        /\ Vips[v].name \in Top.todo
        /\ stack' = [Looking(Vips[v].name) EXCEPT ![Len(stack)].vals = Append(@, RangeOf(v, FALSE))]
  BY DEF CachedVips
<1>2. InCluster(1) /\ nodes' = nodes /\ live' = live /\ rr_r' = rr_r BY DEF CachedVips, sets
<1>3. Vips \in Seq([name : Name, nodes : SUBSET Name]) BY VipsAssumption DEF VipsAssumption
<1>4. v \in 1..Len(Vips) /\ Vips # <<>> BY <1>3
<1>5. N \in Nat /\ Len(Vips) \in Nat /\ Len(Vips) <= N BY DEF TypeInv, N
<1>6. RangeOf(v, FALSE) \in Ranges(N) BY <1>4, <1>5 DEF RangeOf, Ranges
<1>7. Len(nodes') = N /\ nodes' \in Seq(SUBSET Name) /\ live' \subseteq 1..N
  BY <1>2 DEF TypeInv, N
<1> DEFINE r == RangeOf(v, FALSE)
<1>8. N <= Len(nodes') /\ live' \subseteq 1..Len(nodes') /\ r \in Ranges(Len(nodes'))
  <2>1. N <= Len(nodes') /\ live' \subseteq 1..Len(nodes') BY <1>5, <1>7
  <2>2. r \in Ranges(Len(nodes')) BY <1>6, <1>7
  <2>3. QED BY <2>1, <2>2
<1>9. /\ TypeInv' /\ stack # <<>> /\ stack' # <<>> /\ Len(stack') = Len(stack)
      /\ stack'[Len(stack)].vals = Append(Vals, r)
      /\ \A k \in 1..Len(stack) - 1 : stack'[k] = stack[k]
  BY <1>1, <1>2, <1>7, <1>8, LookedUp
<1>10. r.set = v BY DEF RangeOf
<1> HIDE DEF r
<1>11. ASSUME VipsFree, OwnInv PROVE OwnInv'
  <2>1. v \in live /\ v \notin Below /\ v # Vals[1].set BY <1>1, <1>2, <1>11 DEF VipsFree
  <2>2. \A i \in 1..Len(Vals) : r.set # Vals[i].set
    <3>1. Len(Vals) = 1 BY <1>2 DEF InCluster
    <3>2. \A i \in 1..Len(Vals) : i = 1 BY <3>1
    <3>3. QED BY <1>10, <2>1, <3>2
  <2>3. r.set \in live' /\ r.set \notin Below /\ live \subseteq live' BY <1>2, <1>10, <2>1
  <2>4. TopHolds(stack'[Len(stack)].vals, Len(Vals) + 1) /\ Below \subseteq live'
    BY <1>9, <1>11, <2>2, <2>3, JoinsTop
  <2>5. QED BY <1>9, <1>11, <2>4, TopOwns
<1>12. QED BY <1>9, <1>11 DEF Keeps

LEMMA MergeClusterKeeps == TypeInv /\ MergeCluster => Keeps
<1> SUFFICES ASSUME TypeInv, MergeCluster PROVE Keeps OBVIOUS
<1>1. stack # <<>> /\ Top.at = "cluster" /\ Len(Vals) = 2 /\ rr_r' = rr_r
  BY DEF MergeCluster, InCluster
<1>2. PICK i \in {1, 2} : \E j \in {1, 2} :
        i # j /\ Merge(Vals[i], Vals[j]) /\ stack' = WithVals(<<Vals[i]>>)
  BY DEF MergeCluster
<1>3. PICK j \in {1, 2} : i # j /\ Merge(Vals[i], Vals[j]) /\ stack' = WithVals(<<Vals[i]>>)
  BY <1>2
<1>4. i \in 1..Len(Vals) /\ j \in 1..Len(Vals) BY <1>1
<1>5. /\ nodes' \in Seq(SUBSET Name) /\ Len(nodes') = N /\ N \in Nat
      /\ live' = live \ {Vals[j].set} /\ live' \subseteq 1..N
  BY <1>1, <1>3, <1>4, MergeSets
<1> DEFINE v == <<Vals[i]>>  f == [Top EXCEPT !.vals = v]
<1>6. Vals[i] \in Ranges(N) /\ Top \in FrameIn(N) /\ Top.expr \in Expression
  BY <1>1, <1>4, TopFrame
<1>7. v \in Seq(Ranges(N)) /\ Len(v) = 1 /\ v[1] = Vals[i] BY <1>5, <1>6, OneRange
<1>8. stack' = WithTop(stack, f) BY <1>3 DEF WithVals, WithTop, Top
<1>9. Len(v) \in 1..2 BY <1>7
<1> HIDE DEF v
<1>10. f \in FrameIn(N) /\ Holds(f) /\ f.at = Top.at /\ f.root = Top.root /\ f.vals = v
  BY <1>1, <1>5, <1>6, <1>7, <1>9, OtherRanges
<1> HIDE DEF f
<1>11. /\ TypeInv' /\ stack' # <<>> /\ Len(stack') = Len(stack) /\ stack'[Len(stack)] = f
       /\ \A k \in 1..Len(stack) - 1 : stack'[k] = stack[k]
  <2>1. N <= Len(nodes') /\ live' \subseteq 1..Len(nodes') /\ f \in FrameIn(Len(nodes'))
    BY <1>5, <1>10
  <2>2. f.at = stack[Len(stack)].at /\ f.root = stack[Len(stack)].root BY <1>10 DEF Top
  <2>3. StackOK(stack, N) BY DEF TypeInv
  <2>4. QED BY <1>1, <1>5, <1>8, <1>10, <2>1, <2>2, <2>3, TopTypes
<1>12. ASSUME OwnInv PROVE OwnInv'
  <2>1. /\ Below \subseteq live
        /\ Vals[i].set \in live /\ Vals[i].set \notin Below /\ Vals[j].set \notin Below
        /\ Vals[i].set # Vals[j].set
    BY <1>1, <1>3, <1>4, <1>12, TopApart
  <2>2. Below \subseteq live' /\ Vals[i].set \in live' BY <1>5, <2>1
  <2>3. TopHolds(v, 1)
    <3>1. \A k \in 1..Len(v) : k = 1 BY <1>7
    <3>2. 1 \in 1..Len(v) BY <1>7
    <3>3. v[1].set \in live' /\ v[1].set \notin Below BY <1>7, <2>1, <2>2
    <3>4. QED BY <3>1, <3>2, <3>3 DEF TopHolds
  <2>4. TopHolds(stack'[Len(stack)].vals, 1) BY <1>10, <1>11, <2>3
  <2>5. QED BY <1>1, <1>11, <1>12, <2>2, <2>4, TopOwns
<1>13. QED BY <1>11, <1>12 DEF Keeps

LEMMA AskKeeps == ASSUME NEW q \in Queries PROVE TypeInv /\ Ask(q) => Keeps
<1> SUFFICES ASSUME TypeInv, Ask(q) PROVE Keeps OBVIOUS
<1> DEFINE f == Evaluation(q, TRUE)  m == Len(Vips)
<1>1. /\ nodes' = SubSeq(nodes, 1, m) /\ live' = live \intersect DOMAIN Vips
      /\ stack' = <<f>> /\ rr_r' = <<>>
  BY DEF Ask
<1>2. /\ nodes \in Seq(SUBSET Name) /\ N \in Nat /\ m \in Nat /\ m <= N /\ DOMAIN Vips = 1..m
  <2>1. Vips \in Seq([name : Name, nodes : SUBSET Name]) BY VipsAssumption DEF VipsAssumption
  <2>2. DOMAIN Vips = 1..m /\ m \in Nat BY <2>1
  <2>3. QED BY <2>2 DEF TypeInv, N
<1> HIDE DEF m
<1>3. nodes' \in Seq(SUBSET Name) /\ Len(nodes') = m
  <2>1. \A i \in 1..m : nodes[i] \in SUBSET Name BY <1>2 DEF N
  <2>2. nodes' \in Seq(SUBSET Name) /\ Len(nodes') = IF 1 <= m THEN m - 1 + 1 ELSE 0
    BY <1>1, <1>2, <2>1, SubSeqProperties
  <2>3. QED BY <1>2, <2>2
<1>4. q \in Expression BY TextsAssumption DEF TextsAssumption
<1>5. f \in FrameIn(m) /\ Holds(f) /\ f.at = "ast" /\ f.root = TRUE /\ f.vals = <<>>
  BY <1>2, <1>4, NewEvaluation DEF Evaluation
<1> HIDE DEF f
<1>6. stack' \in Seq(FrameIn(m)) /\ Len(stack') = 1 /\ stack'[1] = f BY <1>1, <1>5
<1>7. StackOK(stack', m)
  <2>1. \A k \in 1..Len(stack') : Holds(stack'[k]) BY <1>5, <1>6
  <2>2. \A k \in 1..Len(stack') - 1 : Waits(stack'[k], stack'[k + 1]) BY <1>6
  <2>3. stack'[1].at = "ast" /\ stack'[1].root BY <1>5, <1>6
  <2>4. QED BY <1>6, <2>1, <2>2, <2>3 DEF StackOK
<1>8. live' \subseteq 1..m BY <1>1, <1>2
<1>9. rr_r' \in Seq(Ranges(m)) BY <1>1
<1>10. TypeInv' BY <1>2, <1>3, <1>7, <1>8, <1>9 DEF TypeInv, N, m
<1>11. OwnInv'
  <2>1. \A k \in 1..Len(stack') : Len(stack'[k].vals) = 0 BY <1>5, <1>6
  <2>2. Held(stack', live') BY <2>1 DEF Held
  <2>3. stack' # <<>> BY <1>6
  <2>4. QED BY <2>2, <2>3 DEF OwnInv, ResultLive
<1>12. QED BY <1>10, <1>11 DEF Keeps

LEMMA StillKeeps == TypeInv /\ UNCHANGED vars => Keeps
<1> SUFFICES ASSUME TypeInv, UNCHANGED vars PROVE Keeps OBVIOUS
<1>1. nodes' = nodes /\ live' = live /\ stack' = stack /\ rr_r' = rr_r BY DEF vars, sets
<1>2. TypeInv' BY <1>1 DEF TypeInv, N
<1>3. OwnInv => OwnInv' BY <1>1 DEF OwnInv, ResultLive
<1>4. QED BY <1>2, <1>3 DEF Keeps

LEMMA NextKeeps == TypeInv /\ [Next]_vars => Keeps
BY LeafKeeps, UnionKeeps, DiffKeeps, InterKeeps, NotKeeps, RegexKeeps, BracesKeeps,
   DescendKeeps, NoFunctionKeeps, CallClusterKeeps, FunctionDoneKeeps, ExpandTextKeeps,
   NoClusterKeeps, CachedVipsKeeps, MergeClusterKeeps, ClusterDoneKeeps, AskKeeps, StillKeeps
DEF Next, Step

LEMMA InitTypes == Init => TypeInv
<1> SUFFICES ASSUME Init PROVE TypeInv OBVIOUS
<1> DEFINE m == Len(Vips)
<1>1. Vips \in Seq([name : Name, nodes : SUBSET Name]) BY VipsAssumption DEF VipsAssumption
<1>2. m \in Nat /\ DOMAIN Vips = 1..m BY <1>1
<1>3. ASSUME NEW v \in 1..m PROVE Vips[v].nodes \in SUBSET Name
  <2>1. Vips[v] \in [name : Name, nodes : SUBSET Name] BY <1>1, ElementOfSeq
  <2>2. QED BY <2>1
<1>4. nodes = [v \in 1..m |-> Vips[v].nodes] BY <1>2 DEF Init
<1> HIDE DEF m
<1>5. nodes \in [1..m -> SUBSET Name] BY <1>3, <1>4
<1>6. nodes \in Seq(SUBSET Name) /\ N = m BY <1>2, <1>5, FunctionIsSeq DEF N
<1>7. live \subseteq 1..N /\ stack = <<>> /\ rr_r = <<>> BY <1>2, <1>6 DEF Init
<1>8. StackOK(stack, N) BY <1>7 DEF StackOK
<1>9. rr_r \in Seq(Ranges(N)) BY <1>7
<1>10. QED BY <1>2, <1>6, <1>7, <1>8, <1>9 DEF TypeInv, m

LEMMA InitOwns == Init => OwnInv
<1> SUFFICES ASSUME Init PROVE OwnInv OBVIOUS
<1>1. stack = <<>> /\ rr_r = <<>> /\ Len(stack) = 0 BY DEF Init
<1>2. Held(stack, live) BY <1>1 DEF Held
<1>3. QED BY <1>1, <1>2 DEF OwnInv, ResultLive

(***************************************************************************)
(* What the invariants say.                                                *)
(***************************************************************************)
LEMMA TypeInvTypes == TypeInv => TypeOK
<1> SUFFICES ASSUME TypeInv PROVE TypeOK OBVIOUS
<1>1. nodes \in Seq(SUBSET Name) /\ DOMAIN nodes = 1..N BY DEF TypeInv, N
<1>2. Frame = FrameIn(N) BY <1>1 DEF Frame, FrameIn, Ranges
<1>3. stack \in Seq(FrameIn(N)) /\ DOMAIN stack = 1..Len(stack) BY DEF TypeInv, StackOK
<1>4. \A k \in DOMAIN stack : IF stack[k].at = "ast" THEN Len(stack[k].vals) <= Returned(stack[k])
                              ELSE Len(stack[k].vals) \in 1..2
  BY <1>3 DEF TypeInv, StackOK, Holds
<1>5. /\ \A k \in 1..Len(stack) - 1 : Waits(stack[k], stack[k + 1])
      /\ stack # <<>> => stack[1].at = "ast"
  BY DEF TypeInv, StackOK
<1>6. live \subseteq DOMAIN nodes BY <1>1 DEF TypeInv
<1>7. rr_r \in Seq([set : DOMAIN nodes, quoted : BOOLEAN]) BY <1>1 DEF TypeInv, Ranges
<1>8. QED BY <1>1, <1>2, <1>3, <1>4, <1>5, <1>6, <1>7 DEF TypeOK

LEMMA OwnInvOwns == TypeInv /\ OwnInv => OwnedOnce /\ ResultLive
<1> SUFFICES ASSUME TypeInv, OwnInv PROVE OwnedOnce BY DEF OwnInv
<1>1. DOMAIN stack = 1..Len(stack) BY DEF TypeInv, StackOK
<1>2. ASSUME NEW k \in 1..Len(stack) PROVE DOMAIN stack[k].vals = 1..Len(stack[k].vals)
  <2>1. stack[k] \in FrameIn(N) BY DEF TypeInv, StackOK
  <2>2. stack[k].vals \in Seq(Ranges(N)) BY <2>1 DEF FrameIn
  <2>3. QED BY <2>2
<1>3. ASSUME NEW k \in 1..Len(stack), NEW i \in 1..Len(stack[k].vals)
      PROVE  /\ stack[k].vals[i].set \in live
             /\ \A l \in 1..Len(stack) : \A j \in 1..Len(stack[l].vals) :
                  stack[k].vals[i].set = stack[l].vals[j].set => k = l /\ i = j
  BY DEF OwnInv, Held
<1>4. ASSUME NEW k \in DOMAIN stack, NEW i \in DOMAIN stack[k].vals
      PROVE  /\ stack[k].vals[i].set \in live
             /\ \A l \in DOMAIN stack : \A j \in DOMAIN stack[l].vals :
                  stack[k].vals[i].set = stack[l].vals[j].set => k = l /\ i = j
  <2>1. k \in 1..Len(stack) /\ i \in 1..Len(stack[k].vals) BY <1>1, <1>2
  <2>2. stack[k].vals[i].set \in live BY <1>3, <2>1
  <2>3. ASSUME NEW l \in DOMAIN stack, NEW j \in DOMAIN stack[l].vals,
               stack[k].vals[i].set = stack[l].vals[j].set
        PROVE  k = l /\ i = j
    <3>1. l \in 1..Len(stack) BY <1>1
    <3>2. j \in 1..Len(stack[l].vals) BY <1>2, <3>1
    <3>3. QED BY <1>3, <2>1, <2>3, <3>1, <3>2
  <2>4. QED BY <2>2, <2>3
<1>5. QED BY <1>4 DEF OwnedOnce

(* The types of the evaluation hold in every state, whatever is asked for  *)
(* and whatever texts and cached VIPs there are: range_evaluate never      *)
(* takes an operand that has not come back.                                *)
THEOREM TypeCorrect == Spec => []TypeOK
<1>1. TypeInv /\ [Next]_vars => TypeInv' BY NextKeeps DEF Keeps
<1>2. QED BY <1>1, InitTypes, TypeInvTypes, PTL DEF Spec


(***************************************************************************)
(* Cached VIPs.  The i-th range of a range_evaluate is the value of its    *)
(* i-th operand, and the last one of a function its own.  A range is a     *)
(* cached set only if it is what a name of cached VIPs, written out, is    *)
(* worth; and the names that others hold do not end like one of those.     *)
(***************************************************************************)
Due(f, i) == IF i <= Len(Operands(f.expr)) THEN Operands(f.expr)[i] ELSE f.expr
Bound(e, X) == IF e.op = "literal" THEN X = {e.name} ELSE AsksVips(e) \/ X \subseteq PlainName

Spared(e, r, nd) == /\ Bound(e, nd[r.set])
                    /\ r.set \in DOMAIN Vips => AsksVips(e)
                    /\ e.op = "literal" => ~r.quoted

(* A loop of "cluster" over the name of cached VIPs has an empty range of  *)
(* its own until it has the cached one, which it then goes on with; other  *)
(* loops meet no cached set.                                               *)
Asking(f, nd) ==
  /\ f.todo \subseteq {f.expr.kids[1].name}
  /\ f.todo # {} \/ Len(f.vals) = 2 => f.vals[1].set \notin DOMAIN Vips /\ nd[f.vals[1].set] = {}
  /\ Len(f.vals) = 2 => /\ f.todo = {} /\ f.vals[2].set \in DOMAIN Vips
                        /\ Vips[f.vals[2].set].name = f.expr.kids[1].name
NotAsking(f, nd) ==
  /\ f.todo \intersect VipNames = {}
  /\ \A i \in 1..Len(f.vals) : f.vals[i].set \notin DOMAIN Vips /\ nd[f.vals[i].set] \subseteq PlainName

FrameSpares(f, nd) ==
  IF f.at = "ast" THEN \A i \in 1..Len(f.vals) : Spared(Due(f, i), f.vals[i], nd)
  ELSE f.expr.op = "function" /\ IF AsksVips(f.expr) THEN Asking(f, nd) ELSE NotAsking(f, nd)

(* A loop that hands out a cached set never waits. *)
Awaits(f, g) ==
  IF f.at = "ast" THEN g.expr = Due(f, Len(f.vals) + 1)
  ELSE ~AsksVips(f.expr) /\ \E n \in DOMAIN Texts : g.expr = Texts[n]

SparesInv ==
  /\ VipsKept
  /\ \A k \in 1..Len(stack) : FrameSpares(stack[k], nodes)
  /\ \A k \in 1..Len(stack) - 1 : Awaits(stack[k], stack[k + 1])

LEMMA VipsAre ==
  ASSUME TypeInv
  PROVE  /\ DOMAIN Vips = 1..Len(Vips) /\ Len(Vips) \in Nat /\ N \in Nat
         /\ DOMAIN Vips \subseteq 1..N /\ N + 1 \notin DOMAIN Vips
         /\ \A v \in DOMAIN Vips : Vips[v].name \in Name /\ Vips[v].nodes \in SUBSET Name
<1>1. Vips \in Seq([name : Name, nodes : SUBSET Name]) BY VipsAssumption DEF VipsAssumption
<1>2. DOMAIN Vips = 1..Len(Vips) /\ Len(Vips) \in Nat BY <1>1
<1>3. N \in Nat /\ Len(Vips) <= N BY DEF TypeInv, N
<1>4. ASSUME NEW v \in DOMAIN Vips PROVE Vips[v].name \in Name /\ Vips[v].nodes \in SUBSET Name
  <2>1. Vips[v] \in [name : Name, nodes : SUBSET Name] BY <1>1, <1>2, <1>4, ElementOfSeq
  <2>2. QED BY <2>1
<1>5. QED BY <1>2, <1>3, <1>4

(* Plain names are closed under what an evaluation does to names. *)
LEMMA PlainNames ==
  ASSUME SparesVips
  PROVE  /\ <<>> \in PlainName
         /\ \A n \in PlainName : <<Quote>> \o n \o <<Quote>> \in PlainName
         /\ \A m, n \in PlainName : m \o n \in PlainName
         /\ \A n \in PlainName : n \notin VipNames
<1> DEFINE S == Symbol \ VipMarks
<1>1. Quote \in S BY SymbolAssumption DEF SymbolAssumption, SparesVips
<1>2. PlainName = Seq(S) BY DEF PlainName
<1> HIDE DEF S
<1>3. ASSUME NEW n \in Seq(S) PROVE <<Quote>> \o n \o <<Quote>> \in Seq(S)
  <2>1. <<Quote>> \in Seq(S) BY <1>1
  <2>2. <<Quote>> \o n \in Seq(S) BY <2>1, ConcatProperties
  <2>3. QED BY <2>1, <2>2, ConcatProperties
<1>4. \A m, n \in Seq(S) : m \o n \in Seq(S) BY ConcatProperties
<1>5. ASSUME NEW n \in Seq(S), n \in VipNames PROVE FALSE
  <2>1. PICK v \in DOMAIN Vips : n = Vips[v].name BY <1>5 DEF VipNames
  <2>2. n # <<>> BY <2>1 DEF SparesVips
  <2>3. Len(n) \in 1..Len(n) BY <2>2
  <2>4. n[Len(n)] \in S BY <2>3
  <2>5. Last(n) \in VipMarks BY <2>1 DEF VipMarks
  <2>6. QED BY <2>4, <2>5 DEF Last, S
<1>6. QED BY <1>2, <1>3, <1>4, <1>5

LEMMA PlainRanges ==
  ASSUME SparesVips, NEW r, Nodes(r) \subseteq PlainName
  PROVE  /\ Hostnames(r) \subseteq PlainName
         /\ \A regex : Matches(regex, r) \subseteq PlainName
         /\ Factor(r) \subseteq PlainName
<1>1. Hostnames(r) \subseteq PlainName BY PlainNames DEF Hostnames
<1>2. \A regex : Matches(regex, r) \subseteq PlainName BY <1>1 DEF Matches
<1>3. Factor(r) \subseteq PlainName BY PlainNames DEF Factor
<1>4. QED BY <1>1, <1>2, <1>3

LEMMA PlainSpared ==
  ASSUME NEW d, NEW r, NEW nd, Spared(d, r, nd), Plain(d)
  PROVE  r.set \notin DOMAIN Vips /\ nd[r.set] \subseteq PlainName
BY DEF Spared, Plain, Bound

(* The cache stays as it was, its sets being left alone. *)
LEMMA StillKept ==
  ASSUME VipsKept, \A v \in DOMAIN Vips : nodes'[v] = nodes[v] /\ (v \in live => v \in live')
  PROVE  VipsKept'
BY DEF VipsKept

LEMMA SparesStays ==
  ASSUME NEW f, NEW nd, FrameSpares(f, nd), NEW nd2, f.at # "ast" => 1 \in 1..Len(f.vals),
         \A i \in 1..Len(f.vals) : nd2[f.vals[i].set] = nd[f.vals[i].set]
  PROVE  FrameSpares(f, nd2)
<1>1. CASE f.at = "ast"
  <2>1. \A i \in 1..Len(f.vals) : Spared(Due(f, i), f.vals[i], nd) BY <1>1 DEF FrameSpares
  <2>2. \A i \in 1..Len(f.vals) : Spared(Due(f, i), f.vals[i], nd2) BY <2>1 DEF Spared
  <2>3. QED BY <1>1, <2>2 DEF FrameSpares
<1>2. CASE f.at # "ast"
  <2>1. nd2[f.vals[1].set] = nd[f.vals[1].set] BY <1>2
  <2>2. CASE AsksVips(f.expr)
    <3>1. Asking(f, nd) /\ f.expr.op = "function" BY <1>2, <2>2 DEF FrameSpares
    <3>2. Asking(f, nd2) BY <2>1, <3>1 DEF Asking
    <3>3. QED BY <1>2, <2>2, <3>1, <3>2 DEF FrameSpares
  <2>3. CASE ~AsksVips(f.expr)
    <3>1. NotAsking(f, nd) /\ f.expr.op = "function" BY <1>2, <2>3 DEF FrameSpares
    <3>2. NotAsking(f, nd2) BY <3>1 DEF NotAsking
    <3>3. QED BY <1>2, <2>3, <3>1, <3>2 DEF FrameSpares
  <2>4. QED BY <2>2, <2>3
<1>3. QED BY <1>1, <1>2

(* The calls below the top are still as they were. *)
LEMMA BelowSpares ==
  ASSUME TypeInv, SparesInv, \A s \in Below : nodes'[s] = nodes[s], NEW k \in 1..Len(stack) - 1
  PROVE  FrameSpares(stack[k], nodes')
<1>1. k \in 1..Len(stack) /\ FrameSpares(stack[k], nodes) BY DEF SparesInv, TypeInv, StackOK
<1>2. \A i \in 1..Len(stack[k].vals) : nodes'[stack[k].vals[i].set] = nodes[stack[k].vals[i].set]
  BY BelowIs
<1>3. Holds(stack[k]) BY <1>1 DEF TypeInv, StackOK
<1>4. stack[k].at # "ast" => 1 \in 1..Len(stack[k].vals)
  <2>1. stack[k].at # "ast" => Len(stack[k].vals) \in 1..2 BY <1>3 DEF Holds
  <2>2. \A i \in 1..2 : 1 \in 1..i OBVIOUS
  <2>3. QED BY <2>1, <2>2, Zenon
<1>5. QED BY <1>1, <1>2, <1>4, SparesStays

(* A call takes what it waited for. *)
LEMMA SparesTakes ==
  ASSUME SparesVips, NEW n \in Nat, NEW f \in FrameIn(n), NEW g, Awaits(f, g), NEW nd,
         FrameSpares(f, nd), NEW r, Spared(g.expr, r, nd),
         NEW h, h.at = f.at, h.expr = f.expr, h.todo = f.todo, h.vals = Append(f.vals, r)
  PROVE  FrameSpares(h, nd)
<1> DEFINE v == h.vals
<1>1. f.vals \in Seq(Ranges(n)) BY DEF FrameIn
<1>2. /\ Len(f.vals) \in Nat /\ Len(v) = Len(f.vals) + 1 /\ v[Len(f.vals) + 1] = r
      /\ \A i \in 1..Len(f.vals) : v[i] = f.vals[i]
  BY <1>1
<1>3. v = h.vals OBVIOUS
<1> HIDE DEF v
<1>4. \A i \in 1..Len(v) : i \in 1..Len(f.vals) \/ i = Len(f.vals) + 1 BY <1>2
<1>5. \A i : Due(h, i) = Due(f, i) BY DEF Due
<1>6. CASE f.at = "ast"
  <2>1. /\ \A i \in 1..Len(f.vals) : Spared(Due(f, i), f.vals[i], nd)
        /\ g.expr = Due(f, Len(f.vals) + 1)
    BY <1>6 DEF FrameSpares, Awaits
  <2>2. ASSUME NEW i \in 1..Len(v) PROVE Spared(Due(h, i), v[i], nd)
    <3>1. CASE i \in 1..Len(f.vals) BY <1>2, <1>5, <2>1, <3>1
    <3>2. CASE i = Len(f.vals) + 1 BY <1>2, <1>5, <2>1, <3>2
    <3>3. QED BY <1>4, <3>1, <3>2
  <2>3. QED BY <1>3, <1>6, <2>2 DEF FrameSpares
<1>7. CASE f.at # "ast"
  <2>1. ~AsksVips(f.expr) /\ f.expr.op = "function" /\ NotAsking(f, nd)
    BY <1>7 DEF FrameSpares, Awaits
  <2>2. PICK t \in DOMAIN Texts : g.expr = Texts[t] BY <1>7 DEF Awaits
  <2>3. Plain(g.expr) BY <2>2 DEF SparesVips
  <2>4. r.set \notin DOMAIN Vips /\ nd[r.set] \subseteq PlainName BY <2>3, PlainSpared
  <2>5. ASSUME NEW i \in 1..Len(v) PROVE v[i].set \notin DOMAIN Vips /\ nd[v[i].set] \subseteq PlainName
    <3>1. CASE i \in 1..Len(f.vals) BY <1>2, <2>1, <3>1 DEF NotAsking
    <3>2. CASE i = Len(f.vals) + 1 BY <1>2, <2>4, <3>2
    <3>3. QED BY <1>4, <3>1, <3>2
  <2>6. NotAsking(h, nd) BY <1>3, <2>1, <2>5 DEF NotAsking
  <2>7. QED BY <1>7, <2>1, <2>6 DEF FrameSpares
<1>8. QED BY <1>6, <1>7

LEMMA ReturnSpares ==
  ASSUME TypeInv, SparesVips, SparesInv, stack # <<>>, NEW m \in Nat, N <= m, NEW r \in Ranges(m),
         Return(r), \A s \in Below : nodes'[s] = nodes[s], VipsKept',
         Spared(Top.expr, r, nodes')
  PROVE  SparesInv'
<1> DEFINE K == Len(stack) - 1
<1>1. /\ Len(stack') = Len(stack) - 1 /\ Len(stack) \in Nat \ {0}
      /\ stack' # <<>> => /\ Len(stack) > 1 
                          /\ \A k \in 1..Len(stack) - 2 : stack'[k] = stack[k]
                          /\ stack'[K] = [stack[K] EXCEPT !.vals = Append(stack[K].vals, r)]
  BY ReturnStack
<1>2. Len(stack) = K + 1 /\ K \in Nat /\ Len(stack') = K BY <1>1
<1>3. Len(stack) - 2 = K - 1 BY <1>1
<1> HIDE DEF K
<1>4. CASE stack' = <<>>
  <2>1. Len(stack') = 0 BY <1>4
  <2>2. QED BY <2>1 DEF SparesInv
<1>5. CASE stack' # <<>>
  <2>1. /\ K \in 1..Len(stack) - 1 /\ K \in 1..K
        /\ \A k \in 1..K - 1 : stack'[k] = stack[k]
    BY <1>1, <1>2, <1>3, <1>5
  <2>2. stack[K] \in FrameIn(N) /\ N \in Nat BY <1>2, <2>1, TopFrame DEF TypeInv, StackOK
  <2>3. /\ stack'[K].at = stack[K].at /\ stack'[K].expr = stack[K].expr
        /\ stack'[K].todo = stack[K].todo /\ stack'[K].vals = Append(stack[K].vals, r)
    BY <1>1, <1>5, <2>2 DEF FrameIn
  <2>4. FrameSpares(stack'[K], nodes')
    <3> DEFINE f == stack[K]  h == stack'[K]  nd == nodes'
    <3>1. f \in FrameIn(N) /\ N \in Nat /\ FrameSpares(f, nd) BY <2>1, <2>2, BelowSpares
    <3>2. Awaits(f, Top) /\ Spared(Top.expr, r, nd) BY <1>2, <2>1 DEF SparesInv, Top
    <3>3. h.at = f.at /\ h.expr = f.expr /\ h.todo = f.todo /\ h.vals = Append(f.vals, r) BY <2>3
    <3> HIDE DEF f, h, nd
    <3>4. FrameSpares(h, nd) BY <3>1, <3>2, <3>3, SparesTakes
    <3>5. QED BY <3>4 DEF h, nd
  <2>5. ASSUME NEW k \in 1..K PROVE FrameSpares(stack'[k], nodes')
    <3>1. CASE k = K BY <2>4, <3>1
    <3>2. CASE k # K
      <4>1. k \in 1..K - 1 /\ k \in 1..Len(stack) - 1 BY <1>2, <3>2
      <4>2. QED BY <2>1, <4>1, BelowSpares
    <3>3. QED BY <3>1, <3>2
  <2>6. ASSUME NEW k \in 1..K - 1 PROVE Awaits(stack'[k], stack'[k + 1])
    <3>1. stack'[k] = stack[k] BY <2>1
    <3>2. stack'[k + 1].expr = stack[k + 1].expr
      <4>1. CASE k + 1 = K BY <2>3, <4>1
      <4>2. CASE k + 1 # K
        <5>1. k + 1 \in 1..K - 1 BY <1>2, <4>2
        <5>2. QED BY <2>1, <5>1
      <4>3. QED BY <4>1, <4>2
    <3>3. k \in 1..Len(stack) - 1 BY <1>2
    <3>4. Awaits(stack[k], stack[k + 1]) BY <3>3 DEF SparesInv
    <3>5. QED BY <3>1, <3>2, <3>4 DEF Awaits
  <2>7. QED BY <1>2, <2>5, <2>6 DEF SparesInv
<1>6. QED BY <1>4, <1>5

(* The top changes, or calls. *)
LEMMA TopSpares ==
  ASSUME TypeInv, SparesInv, stack # <<>>, VipsKept',
         NEW st, Len(st) = Len(stack), \A k \in 1..Len(stack) - 1 : st[k] = stack[k],
         st[Len(stack)].expr = Top.expr,
         \/ stack' = st
         \/ /\ Len(stack') = Len(stack) + 1
            /\ \A k \in 1..Len(stack) : stack'[k] = st[k]
            /\ FrameSpares(stack'[Len(stack) + 1], nodes')
            /\ Awaits(st[Len(stack)], stack'[Len(stack) + 1]),
         \A s \in Below : nodes'[s] = nodes[s],
         FrameSpares(st[Len(stack)], nodes')
  PROVE  SparesInv'
<1> DEFINE K == Len(stack)
<1>1. K \in Nat \ {0} /\ Top = stack[K] BY TopFrame DEF Top
<1>2. /\ Len(stack') \in {K, K + 1} /\ \A k \in 1..K : stack'[k] = st[k]
      /\ Len(stack') = K + 1 => /\ FrameSpares(stack'[K + 1], nodes')
                                /\ Awaits(st[K], stack'[K + 1])
  <2>1. CASE stack' = st BY <1>1, <2>1
  <2>2. CASE stack' # st BY <1>1, <2>2
  <2>3. QED BY <2>1, <2>2
<1>3. FrameSpares(st[K], nodes') /\ st[K].expr = Top.expr OBVIOUS
<1>4. \A k \in 1..K - 1 : /\ st[k] = stack[k] /\ FrameSpares(stack[k], nodes')
                          /\ Awaits(stack[k], stack[k + 1])
  BY BelowSpares DEF SparesInv
<1> HIDE DEF K
<1>5. \A k \in 1..K - 1 : stack'[k] = stack[k] BY <1>1, <1>2, <1>4
<1>6. stack'[K] = st[K] /\ stack'[K].expr = stack[K].expr BY <1>1, <1>2, <1>3
<1>7. ASSUME NEW k \in 1..Len(stack') PROVE FrameSpares(stack'[k], nodes')
  <2>1. k \in 1..K - 1 \/ k = K \/ (k = K + 1 /\ Len(stack') = K + 1) BY <1>1, <1>2
  <2>2. CASE k \in 1..K - 1 BY <1>4, <1>5, <2>2
  <2>3. CASE k = K BY <1>3, <1>6, <2>3
  <2>4. CASE k = K + 1 /\ Len(stack') = K + 1 BY <1>2, <2>4
  <2>5. QED BY <2>1, <2>2, <2>3, <2>4
<1>8. ASSUME NEW k \in 1..Len(stack') - 1 PROVE Awaits(stack'[k], stack'[k + 1])
  <2>1. k \in 1..K - 1 \/ (k = K /\ Len(stack') = K + 1) BY <1>1, <1>2
  <2>2. CASE k \in 1..K - 1
    <3>1. stack'[k + 1].expr = stack[k + 1].expr
      <4>1. k + 1 \in 1..K - 1 \/ k + 1 = K BY <1>1, <2>2
      <4>2. QED BY <1>5, <1>6, <4>1
    <3>2. Awaits(stack[k], stack[k + 1]) /\ stack'[k] = stack[k] BY <1>4, <1>5, <2>2
    <3>3. QED BY <3>1, <3>2 DEF Awaits
  <2>3. CASE k = K /\ Len(stack') = K + 1 BY <1>2, <1>6, <2>3
  <2>4. QED BY <2>1, <2>2, <2>3
<1>9. QED BY <1>7, <1>8 DEF SparesInv

(***************************************************************************)
(* What the top knows of its ranges, and what returns do to the cache.     *)
(***************************************************************************)
Sparing == TypeInv /\ OwnInv /\ SparesVips /\ SparesInv

LEMMA TopSparing ==
  ASSUME Sparing, stack # <<>>
  PROVE  FrameSpares(Top, nodes) /\ VipsKept
<1>1. Len(stack) \in 1..Len(stack) BY TopFrame DEF Sparing
<1>2. QED BY <1>1 DEF Sparing, SparesInv, Top

LEMMA FunctionOperand ==
  ASSUME SparesVips, NEW e \in Expression, e.op = "function", NEW i \in 1..Len(Operands(e)),
         NEW r, NEW nd, Spared(Operands(e)[i], r, nd)
  PROVE  /\ r.set \notin DOMAIN Vips
         /\ Direct(e) \/ nd[r.set] \subseteq PlainName
         /\ Direct(e) => /\ nd[r.set] = {e.kids[1].name} /\ ~r.quoted
                         /\ Len(Operands(e)) = 1
<1>1. Operands(e) = e.kids BY DEF Operands
<1>2. CASE Plain(Operands(e)[i]) /\ ~Direct(e) BY <1>2, PlainSpared
<1>3. CASE Direct(e)
  <2>1. Len(e.kids) = 1 /\ e.kids[1].op = "literal" BY <1>3 DEF Direct, LooksUp
  <2>2. i = 1 BY <1>1, <2>1
  <2>3. Spared(e.kids[1], r, nd) BY <1>1, <2>2
  <2>4. nd[r.set] = {e.kids[1].name} /\ ~r.quoted BY <2>1, <2>3 DEF Spared, Bound
  <2>5. ~AsksVips(e.kids[1]) BY <2>1 DEF AsksVips, Direct, LooksUp
  <2>6. r.set \notin DOMAIN Vips BY <2>3, <2>5 DEF Spared
  <2>7. QED BY <1>1, <1>3, <2>1, <2>4, <2>6
<1>4. Plain(Operands(e)[i]) \/ Direct(e) BY DEF SparesVips
<1>5. QED BY <1>2, <1>3, <1>4

LEMMA ReadySparing ==
  ASSUME Sparing, NEW op, Ready(op), NEW i \in 1..Len(Vals)
  PROVE  /\ Spared(Operands(Top.expr)[i], Vals[i], nodes)
         /\ op # "function" /\ (op # "diff" \/ i = 1) =>
              Vals[i].set \notin DOMAIN Vips /\ Nodes(Vals[i]) \subseteq PlainName
         /\ op = "function" => Vals[i].set \notin DOMAIN Vips
<1>1. /\ stack # <<>> /\ Top.at = "ast" /\ Top.expr.op = op /\ Len(Vals) = Len(Operands(Top.expr))
      /\ Top.expr \in Expression /\ Len(Vals) \in Nat
  BY TopFrame DEF Ready, Evaluating, Sparing
<1>2. \A j \in 1..Len(Top.vals) : Spared(Due(Top, j), Top.vals[j], nodes)
  BY <1>1, TopSparing DEF FrameSpares
<1>3. Due(Top, i) = Operands(Top.expr)[i] BY <1>1 DEF Due
<1>4. Spared(Operands(Top.expr)[i], Vals[i], nodes) BY <1>2, <1>3 DEF Vals
<1>5. i \in 1..Len(Operands(Top.expr)) BY <1>1
<1>6. ASSUME op # "function", op # "diff" \/ i = 1
      PROVE  Vals[i].set \notin DOMAIN Vips /\ Nodes(Vals[i]) \subseteq PlainName
  <2>1. ~Direct(Top.expr) BY <1>1, <1>6 DEF Direct, LooksUp
  <2>2. Plain(Operands(Top.expr)[i])
    <3>1. CASE op # "diff" BY <1>1, <1>5, <2>1, <3>1 DEF Sparing, SparesVips
    <3>2. CASE i = 1 BY <1>1, <1>5, <2>1, <3>2 DEF Sparing, SparesVips
    <3>3. QED BY <1>6, <3>1, <3>2
  <2>3. QED BY <1>4, <2>2, PlainSpared DEF Nodes
<1>7. ASSUME op = "function" PROVE Vals[i].set \notin DOMAIN Vips
  BY <1>1, <1>4, <1>5, <1>7, FunctionOperand DEF Sparing
<1>8. QED BY <1>4, <1>6, <1>7

(* A set that is not cached is changed, and others are destroyed. *)
LEMMA ChangeKept ==
  ASSUME TypeInv, VipsKept, NEW s \in 1..N, s \notin DOMAIN Vips, NEW X,
         nodes' = [nodes EXCEPT ![s] = X], \A v \in DOMAIN Vips : v \in live => v \in live'
  PROVE  VipsKept'
<1>1. DOMAIN nodes = 1..N BY DEF TypeInv, N
<1>2. \A v \in DOMAIN Vips : v \in 1..N BY VipsAre
<1>3. \A v \in DOMAIN Vips : nodes'[v] = nodes[v] BY <1>1, <1>2
<1>4. QED BY <1>3, StillKept

LEMMA AppendKept ==
  ASSUME TypeInv, VipsKept, NEW X, nodes' = Append(nodes, X), \A v \in DOMAIN Vips : v \in live => v \in live'
  PROVE  VipsKept'
<1>1. nodes \in Seq(SUBSET Name) /\ N = Len(nodes) BY DEF TypeInv, N
<1>2. \A v \in DOMAIN Vips : v \in 1..N BY VipsAre
<1>3. \A s \in 1..N : nodes'[s] = nodes[s] BY <1>1
<1>4. \A v \in DOMAIN Vips : nodes'[v] = nodes[v] BY <1>2, <1>3
<1>5. QED BY <1>4, StillKept

(* The sets that a step does not touch. *)
LEMMA SetsStay ==
  ASSUME TypeInv, OwnInv, stack # <<>>, NEW X
  PROVE  /\ nodes' = Append(nodes, X) => /\ \A s \in Below : nodes'[s] = nodes[s]
                                         /\ \A i \in 1..Len(Vals) : nodes'[Vals[i].set] = nodes[Vals[i].set]
                                         /\ nodes'[Fresh] = X
         /\ \A i \in 1..Len(Vals) : nodes' = [nodes EXCEPT ![Vals[i].set] = X] =>
              /\ \A s \in Below : nodes'[s] = nodes[s]
              /\ nodes'[Vals[i].set] = X
<1>1. nodes \in Seq(SUBSET Name) /\ Below \subseteq live /\ live \subseteq 1..N /\ DOMAIN nodes = 1..N
  BY TopApart DEF TypeInv, N
<1>2. \A i \in 1..Len(Vals) : Vals[i].set \in 1..N /\ Vals[i].set \notin Below BY TopFrame, TopApart
<1>3. ASSUME nodes' = Append(nodes, X)
      PROVE  /\ \A s \in 1..N : nodes'[s] = nodes[s]
             /\ nodes'[Fresh] = X
  BY <1>1, <1>3 DEF Fresh, N
<1>4. ASSUME NEW i \in 1..Len(Vals), nodes' = [nodes EXCEPT ![Vals[i].set] = X]
      PROVE  /\ \A s \in Below : nodes'[s] = nodes[s]
             /\ nodes'[Vals[i].set] = X
  BY <1>1, <1>2, <1>4
<1>5. QED BY <1>1, <1>2, <1>3, <1>4

LEMMA ReturnNewSpares ==
  ASSUME Sparing, stack # <<>>, NEW names, NEW q \in BOOLEAN, NEW D, ReturnNew(names, q, D),
         \A d \in D : d.set \notin DOMAIN Vips,
         Bound(Top.expr, names), Top.expr.op = "literal" => ~q
  PROVE  SparesInv'
<1> DEFINE r == RangeOf(Fresh, q)
<1>1. nodes' = Append(nodes, names) /\ Return(r) /\ live' = (live \ {d.set : d \in D}) \union {Fresh}
  BY DEF ReturnNew, Allocate
<1>2. N \in Nat /\ Fresh = N + 1 /\ TypeInv /\ OwnInv BY TopFrame DEF Fresh, N, Sparing
<1>3. r \in Ranges(N + 1) /\ r.set = N + 1 /\ r.quoted = q BY <1>2 DEF RangeOf, Ranges
<1>4. (\A s \in Below : nodes'[s] = nodes[s]) /\ nodes'[r.set] = names BY <1>1, <1>2, <1>3, SetsStay
<1> HIDE DEF r
<1>5. \A v \in DOMAIN Vips : v \in live => v \in live' BY <1>1
<1>6. VipsKept' BY <1>1, <1>2, <1>5, AppendKept DEF Sparing, SparesInv
<1>7. r.set \notin DOMAIN Vips BY <1>2, <1>3, VipsAre
<1>8. Spared(Top.expr, r, nodes') BY <1>3, <1>4, <1>7 DEF Spared
<1>9. N + 1 \in Nat /\ N <= N + 1 BY <1>2
<1>10. Return(r) /\ SparesVips /\ SparesInv BY <1>1 DEF r, Sparing
<1>11. QED BY <1>2, <1>3, <1>4, <1>6, <1>8, <1>9, <1>10, ReturnSpares

LEMMA ReturnHeldSpares ==
  ASSUME Sparing, stack # <<>>, NEW i \in 1..Len(Vals), Return(Vals[i]),
         \A s \in Below : nodes'[s] = nodes[s], VipsKept',
         Vals[i].set \notin DOMAIN Vips, nodes'[Vals[i].set] \subseteq PlainName,
         Top.expr.op # "literal"
  PROVE  SparesInv'
<1>1. N \in Nat /\ Vals[i] \in Ranges(N) /\ TypeInv /\ SparesVips /\ SparesInv
  BY TopFrame DEF Sparing
<1>2. Spared(Top.expr, Vals[i], nodes') BY DEF Spared, Bound
<1>3. QED BY <1>1, <1>2, ReturnSpares

(***************************************************************************)
(* The actions, one lemma each.                                            *)
(***************************************************************************)
LEMMA LeafSpares ==
  Sparing /\ (Literal \/ NonrangeLiteral \/ Parts \/ Nothing \/ Unparsable) => SparesInv'
<1> SUFFICES ASSUME Sparing, Literal \/ NonrangeLiteral \/ Parts \/ Nothing \/ Unparsable
             PROVE  SparesInv'
  OBVIOUS
<1>1. TypeInv /\ SparesVips BY DEF Sparing
<1>2. ASSUME NEW op, Ready(op)
      PROVE  stack # <<>> /\ Top.expr.op = op /\ Top.expr \in Expression
  <2>1. stack # <<>> /\ Top.expr.op = op BY <1>1, <1>2, ReadyOperands
  <2>2. QED BY <1>1, <2>1, TopFrame
<1> DEFINE Returns(names, q) == ReturnNew(names, q, {}) /\ Bound(Top.expr, names)
                                /\ (Top.expr.op = "literal" => ~q)
<1>3. stack # <<>> /\ \E names : \E q \in BOOLEAN : Returns(names, q)
  <2>1. CASE Literal
    <3>1. Ready("literal") /\ ReturnNew({Top.expr.name}, FALSE, {}) BY <2>1 DEF Literal
    <3>2. stack # <<>> /\ Top.expr.op = "literal" BY <1>2, <3>1
    <3>3. Bound(Top.expr, {Top.expr.name}) BY <3>2 DEF Bound
    <3>4. Returns({Top.expr.name}, FALSE) BY <3>1, <3>3
    <3>5. FALSE \in BOOLEAN OBVIOUS
    <3>6. QED BY <3>2, <3>4, <3>5, Zenon
  <2>2. CASE NonrangeLiteral
    <3>1. Ready("string") /\ ReturnNew({Top.expr.name}, TRUE, {}) BY <2>2 DEF NonrangeLiteral
    <3>2. stack # <<>> /\ Top.expr.op = "string" /\ Top.expr \in Expression BY <1>2, <3>1
    <3>3. Top.expr.name \in PlainName BY <1>1, <3>2 DEF SparesVips
    <3>4. Bound(Top.expr, {Top.expr.name}) /\ Top.expr.op # "literal" BY <3>2, <3>3 DEF Bound
    <3>5. Returns({Top.expr.name}, TRUE) BY <3>1, <3>4
    <3>6. TRUE \in BOOLEAN OBVIOUS
    <3>7. QED BY <3>2, <3>5, <3>6, Zenon
  <2>3. CASE Parts
    <3>1. Ready("parts") /\ ReturnNew(Top.expr.names, FALSE, {}) BY <2>3 DEF Parts
    <3>2. stack # <<>> /\ Top.expr.op = "parts" /\ Top.expr \in Expression BY <1>2, <3>1
    <3>3. Top.expr.names \subseteq PlainName BY <1>1, <3>2 DEF SparesVips
    <3>4. Bound(Top.expr, Top.expr.names) BY <3>2, <3>3 DEF Bound
    <3>5. Returns(Top.expr.names, FALSE) BY <3>1, <3>4
    <3>6. FALSE \in BOOLEAN OBVIOUS
    <3>7. QED BY <3>2, <3>5, <3>6, Zenon
  <2>4. CASE Nothing \/ Unparsable
    <3>1. (Ready("nothing") \/ Ready("unparsable")) /\ ReturnNew({}, FALSE, {})
      BY <2>4 DEF Nothing, Unparsable
    <3>2. stack # <<>> /\ Top.expr.op # "literal" BY <1>2, <3>1
    <3>3. Bound(Top.expr, {}) BY <3>2 DEF Bound
    <3>4. Returns({}, FALSE) BY <3>1, <3>3
    <3>5. FALSE \in BOOLEAN OBVIOUS
    <3>6. QED BY <3>2, <3>4, <3>5, Zenon
  <2>5. QED BY <2>1, <2>2, <2>3, <2>4
<1>4. PICK names : \E q \in BOOLEAN : Returns(names, q) BY <1>3
<1>5. PICK q \in BOOLEAN : Returns(names, q) BY <1>4
<1>6. ReturnNew(names, q, {}) /\ Bound(Top.expr, names) /\ (Top.expr.op = "literal" => ~q) BY <1>5
<1>7. \A d \in {} : d.set \notin DOMAIN Vips OBVIOUS
<1>8. stack # <<>> BY <1>3
<1> HIDE DEF Returns
<1>9. QED BY <1>6, <1>7, <1>8, ReturnNewSpares

LEMMA UnionSpares == Sparing /\ Union => SparesInv'
<1> SUFFICES ASSUME Sparing, Union PROVE SparesInv' OBVIOUS
<1>1. /\ Ready("union") /\ stack # <<>> /\ 1 \in 1..Len(Vals) /\ 2 \in 1..Len(Vals)
      /\ Top.expr.op = "union" /\ TypeInv /\ OwnInv /\ VipsKept
  BY ReadyOperands DEF Union, Sparing, SparesInv
<1>2. PICK i \in {1, 2}, j \in {1, 2} : i # j /\ Merge(Vals[i], Vals[j]) /\ Return(Vals[i])
  BY DEF Union
<1>3. i \in 1..Len(Vals) /\ j \in 1..Len(Vals) BY <1>1, <1>2
<1> DEFINE X == Nodes(Vals[i]) \union Nodes(Vals[j])
<1>4. nodes' = [nodes EXCEPT ![Vals[i].set] = X] /\ live' = live \ {Vals[j].set}
  BY <1>2 DEF Merge, Nodes, Destroy
<1>5. (\A s \in Below : nodes'[s] = nodes[s]) /\ nodes'[Vals[i].set] = X
  BY <1>1, <1>3, <1>4, SetsStay
<1>6. /\ Vals[i].set \notin DOMAIN Vips /\ Nodes(Vals[i]) \subseteq PlainName
      /\ Vals[j].set \notin DOMAIN Vips /\ Nodes(Vals[j]) \subseteq PlainName
  BY <1>1, <1>3, ReadySparing
<1>7. Vals[i].set \in 1..N BY <1>1, <1>3, TopFrame
<1>8. X \subseteq PlainName BY <1>6
<1> HIDE DEF X
<1>9. VipsKept' BY <1>1, <1>4, <1>6, <1>7, ChangeKept
<1>10. QED BY <1>1, <1>2, <1>3, <1>5, <1>6, <1>8, <1>9, ReturnHeldSpares

LEMMA NotSpares == Sparing /\ Not => SparesInv'
<1> SUFFICES ASSUME Sparing, Not PROVE SparesInv' OBVIOUS
<1>1. /\ Ready("not") /\ stack # <<>> /\ 1 \in 1..Len(Vals) /\ 2 \in 1..Len(Vals)
      /\ Top.expr.op = "not" /\ TypeInv /\ OwnInv /\ VipsKept
  BY ReadyOperands DEF Not, Sparing, SparesInv
<1> DEFINE X == Nodes(Vals[1]) \ Nodes(Vals[2])
<1>2. nodes' = [nodes EXCEPT ![Vals[1].set] = X] /\ live' = live \ {Vals[2].set} /\ Return(Vals[1])
  BY DEF Not, Nodes, Destroy
<1>3. (\A s \in Below : nodes'[s] = nodes[s]) /\ nodes'[Vals[1].set] = X BY <1>1, <1>2, SetsStay
<1>4. /\ Vals[1].set \notin DOMAIN Vips /\ Nodes(Vals[1]) \subseteq PlainName
      /\ Vals[2].set \notin DOMAIN Vips
  BY <1>1, ReadySparing
<1>5. Vals[1].set \in 1..N BY <1>1, TopFrame
<1>6. X \subseteq PlainName BY <1>4
<1> HIDE DEF X
<1>7. VipsKept' BY <1>1, <1>2, <1>4, <1>5, ChangeKept
<1>8. QED BY <1>1, <1>2, <1>3, <1>4, <1>6, <1>7, ReturnHeldSpares

LEMMA DiffSpares == Sparing /\ Diff => SparesInv'
<1> SUFFICES ASSUME Sparing, Diff PROVE SparesInv' OBVIOUS
<1> DEFINE e == Top.expr
<1>1. /\ Ready("diff") /\ stack # <<>> /\ 1 \in 1..Len(Vals) /\ e.op = "diff" /\ Return(Vals[1])
      /\ TypeInv /\ OwnInv /\ VipsKept
  BY ReadyOperands DEF Diff, Sparing, SparesInv
<1>2. Vals[1].set \notin DOMAIN Vips /\ Nodes(Vals[1]) \subseteq PlainName BY <1>1, ReadySparing
<1>3. Vals[1].set \in 1..N /\ Nodes(Vals[1]) \subseteq Name BY <1>1, TopFrame
<1>4. /\ \A s \in Below : nodes'[s] = nodes[s]
      /\ nodes'[Vals[1].set] \subseteq PlainName
      /\ VipsKept'
  <2>1. CASE RegexOperand(e)
    <3> DEFINE matched == Matches(e.kids[2].regex, Vals[1])  left == Nodes(Vals[1]) \ matched
               new == [nodes EXCEPT ![Vals[1].set] = left]
    <3>1. nodes' = Append(new, matched) /\ live \subseteq live' BY <2>1 DEF Diff, Nodes
    <3>2. /\ nodes \in Seq(SUBSET Name) /\ Below \subseteq live /\ live \subseteq 1..N /\ N \in Nat
          /\ Vals[1].set \notin Below
      BY <1>1, TopApart, TopFrame DEF TypeInv
    <3> HIDE DEF matched
    <3>3. left \in SUBSET Name /\ left \subseteq PlainName BY <1>2, <1>3
    <3> HIDE DEF left
    <3>4. /\ new \in Seq(SUBSET Name) /\ Len(new) = N
          /\ \A s \in 1..N : new[s] = IF s = Vals[1].set THEN left ELSE nodes[s]
      BY <1>3, <3>2, <3>3, ExceptSeq DEF N
    <3> HIDE DEF new
    <3>5. \A s \in 1..N : nodes'[s] = new[s] BY <3>1, <3>4
    <3>6. \A v \in DOMAIN Vips : v \in 1..N BY <1>1, VipsAre
    <3>7. \A v \in DOMAIN Vips : nodes'[v] = nodes[v] BY <1>2, <3>4, <3>5, <3>6
    <3>8. VipsKept' BY <1>1, <3>1, <3>7, StillKept
    <3>9. \A s \in Below : nodes'[s] = nodes[s] BY <3>2, <3>4, <3>5
    <3>10. nodes'[Vals[1].set] = left BY <1>3, <3>4, <3>5
    <3>11. QED BY <3>3, <3>8, <3>9, <3>10
  <2>2. CASE ~RegexOperand(e)
    <3> DEFINE left == Nodes(Vals[1]) \ Nodes(Vals[2])
    <3>1. nodes' = [nodes EXCEPT ![Vals[1].set] = left] /\ live' = live BY <2>2 DEF Diff, Nodes
    <3>2. left \subseteq PlainName BY <1>2
    <3> HIDE DEF left
    <3>3. /\ \A s \in Below : nodes'[s] = nodes[s]
          /\ nodes'[Vals[1].set] = left
      BY <1>1, <3>1, SetsStay
    <3>4. VipsKept' BY <1>1, <1>2, <1>3, <3>1, ChangeKept
    <3>5. QED BY <3>2, <3>3, <3>4
  <2>3. QED BY <2>1, <2>2
<1>5. Top.expr.op # "literal" BY <1>1
<1>6. QED BY <1>1, <1>2, <1>4, <1>5, ReturnHeldSpares

LEMMA InterSpares == Sparing /\ Inter => SparesInv'
<1> SUFFICES ASSUME Sparing, Inter PROVE SparesInv' OBVIOUS
<1> DEFINE e == Top.expr
<1>1. /\ Ready("inter") /\ stack # <<>> /\ 1 \in 1..Len(Vals) /\ (~RegexOperand(e) => 2 \in 1..Len(Vals))
      /\ e.op = "inter" /\ TypeInv /\ SparesVips
  BY ReadyOperands DEF Inter, Sparing
<1>2. /\ Vals[1].set \notin DOMAIN Vips /\ Nodes(Vals[1]) \subseteq PlainName
      /\ Vals[1].quoted \in BOOLEAN
  BY <1>1, ReadySparing, TopFrame
<1>3. CASE RegexOperand(e)
  <2> DEFINE names == Nodes(Vals[1]) \intersect Matches(e.kids[2].regex, Vals[1])  D == {Vals[1]}
  <2>1. ReturnNew(names, Vals[1].quoted, D) BY <1>3 DEF Inter
  <2>2. Bound(e, names) BY <1>1, <1>2 DEF Bound
  <2>3. \A d \in D : d.set \notin DOMAIN Vips BY <1>2
  <2>4. Top.expr.op # "literal" /\ Bound(Top.expr, names) BY <1>1, <2>2
  <2> HIDE DEF names, D, e
  <2>5. QED BY <1>1, <1>2, <2>1, <2>3, <2>4, ReturnNewSpares
<1>4. CASE ~RegexOperand(e)
  <2> DEFINE names == Nodes(Vals[1]) \intersect Nodes(Vals[2])  q == Vals[1].quoted \/ Vals[2].quoted
             D == {Vals[1], Vals[2]}
  <2>1. ReturnNew(names, q, D) BY <1>4 DEF Inter
  <2>2. Bound(e, names) BY <1>1, <1>2 DEF Bound
  <2>3. Vals[2].set \notin DOMAIN Vips /\ Vals[2].quoted \in BOOLEAN
    BY <1>1, <1>4, ReadySparing, TopFrame
  <2>4. \A d \in D : d.set \notin DOMAIN Vips BY <1>2, <2>3
  <2>5. Top.expr.op # "literal" /\ Bound(Top.expr, names) BY <1>1, <2>2
  <2>6. q \in BOOLEAN BY <1>2, <2>3
  <2> HIDE DEF names, D, q, e
  <2>7. QED BY <1>1, <2>1, <2>4, <2>5, <2>6, ReturnNewSpares
<1>5. QED BY <1>3, <1>4

LEMMA RegexSpares == Sparing /\ Regex => SparesInv'
<1> SUFFICES ASSUME Sparing, Regex PROVE SparesInv' OBVIOUS
<1> DEFINE names == Matches(Top.expr.regex, Vals[1])  D == {Vals[1]}
<1>1. /\ Ready("regex") /\ stack # <<>> /\ 1 \in 1..Len(Vals) /\ Top.expr.op = "regex"
      /\ TypeInv /\ SparesVips /\ ReturnNew(names, FALSE, D)
  BY ReadyOperands DEF Regex, Sparing
<1>2. Vals[1].set \notin DOMAIN Vips /\ Nodes(Vals[1]) \subseteq PlainName BY <1>1, ReadySparing
<1>3. names \subseteq PlainName BY <1>1, <1>2, PlainRanges
<1>4. Bound(Top.expr, names) /\ Top.expr.op # "literal" BY <1>1, <1>3 DEF Bound
<1>5. \A d \in D : d.set \notin DOMAIN Vips BY <1>2
<1>6. PICK q \in BOOLEAN : ReturnNew(names, q, D)
  <2>1. FALSE \in BOOLEAN OBVIOUS
  <2>2. QED BY <1>1, <2>1, Zenon
<1> HIDE DEF names, D
<1>7. QED BY <1>1, <1>4, <1>5, <1>6, ReturnNewSpares

LEMMA BracesSpares == Sparing /\ Braces => SparesInv'
<1> SUFFICES ASSUME Sparing, Braces PROVE SparesInv' OBVIOUS
<1> DEFINE names == {b[1] \o b[2] \o b[3] :
                       b \in Factor(Vals[1]) \X Factor(Vals[2]) \X Factor(Vals[3])}
           q == Vals[1].quoted \/ Vals[2].quoted \/ Vals[3].quoted
           D == {Vals[1], Vals[2], Vals[3]}
<1>1. /\ Ready("braces") /\ stack # <<>>
      /\ 1 \in 1..Len(Vals) /\ 2 \in 1..Len(Vals) /\ 3 \in 1..Len(Vals)
      /\ Top.expr.op = "braces" /\ TypeInv /\ SparesVips /\ ReturnNew(names, q, D)
  BY ReadyOperands DEF Braces, Sparing
<1>2. \A i \in 1..Len(Vals) : /\ Vals[i].set \notin DOMAIN Vips /\ Factor(Vals[i]) \subseteq PlainName
                              /\ Vals[i].quoted \in BOOLEAN
  BY <1>1, ReadySparing, PlainRanges, TopFrame
<1>3. names \subseteq PlainName
  <2>1. ASSUME NEW b \in Factor(Vals[1]) \X Factor(Vals[2]) \X Factor(Vals[3])
        PROVE  b[1] \o b[2] \o b[3] \in PlainName
    <3>1. b[1] \in PlainName /\ b[2] \in PlainName /\ b[3] \in PlainName BY <1>1, <1>2
    <3>2. \A m, n \in PlainName : m \o n \in PlainName BY <1>1, PlainNames
    <3>3. b[1] \o b[2] \in PlainName BY <3>1, <3>2
    <3>4. QED BY <3>1, <3>2, <3>3
  <2>2. QED BY <2>1, Zenon
<1>4. Bound(Top.expr, names) /\ Top.expr.op # "literal" BY <1>1, <1>3 DEF Bound
<1>5. \A d \in D : d.set \notin DOMAIN Vips BY <1>1, <1>2
<1>6. q \in BOOLEAN BY <1>1, <1>2
<1> HIDE DEF names, q, D
<1>7. QED BY <1>1, <1>4, <1>5, <1>6, ReturnNewSpares

LEMMA NoFunctionSpares == Sparing /\ NoFunction => SparesInv'
<1> SUFFICES ASSUME Sparing, NoFunction PROVE SparesInv' OBVIOUS
<1> DEFINE e == Top.expr  K == Len(stack)  r == RangeOf(Fresh, FALSE)  v == Append(Vals, r)
           f == [Top EXCEPT !.vals = v]
<1>1. /\ Ready("function") /\ stack # <<>> /\ Top.at = "ast" /\ Len(Vals) = Len(Operands(e))
      /\ e.op = "function" /\ e \in Expression /\ TypeInv /\ OwnInv /\ SparesInv /\ VipsKept
      /\ nodes' = Append(nodes, {}) /\ live \subseteq live' /\ stack' = [stack EXCEPT ![K].vals = v]
  BY ReadyOperands, TopFrame
  DEF NoFunction, Ready, Evaluating, Allocate, WithVals, Sparing, SparesInv
<1>2. stack' = [stack EXCEPT ![K] = f] BY <1>1 DEF Top
<1>3. stack \in Seq(FrameIn(N)) /\ K \in Nat \ {0} /\ Top \in FrameIn(N) /\ N \in Nat
  BY <1>1, TopFrame DEF TypeInv, StackOK
<1>4. f.at = "ast" /\ f.expr = e /\ f.vals = v BY <1>1, <1>3 DEF FrameIn
<1>5. Vals \in Seq(Ranges(N)) /\ Len(Vals) \in Nat BY <1>1, TopFrame
<1>6. r.set = N + 1 /\ Fresh = N + 1 BY DEF RangeOf, Fresh, N
<1> HIDE DEF r
<1>7. /\ Len(v) = Len(Vals) + 1 /\ v[Len(Vals) + 1] = r
      /\ \A i \in 1..Len(Vals) : v[i] = Vals[i]
  BY <1>5
<1> HIDE DEF v, f
<1>8. /\ Len(stack') = K /\ stack'[K] = f
      /\ \A k \in 1..K - 1 : stack'[k] = stack[k]
  BY <1>2, <1>3
<1>9. /\ \A s \in Below : nodes'[s] = nodes[s]
      /\ \A i \in 1..Len(Vals) : nodes'[Vals[i].set] = nodes[Vals[i].set]
      /\ nodes'[Fresh] = {}
  BY <1>1, SetsStay
<1>10. \A w \in DOMAIN Vips : w \in live => w \in live' BY <1>1
<1>11. VipsKept' BY <1>1, <1>10, AppendKept
<1>12. ASSUME NEW i \in 1..Len(v) PROVE Spared(Due(f, i), v[i], nodes')
  <2>1. CASE i \in 1..Len(Vals)
    <3>1. Due(f, i) = Operands(e)[i] BY <1>1, <1>4, <2>1 DEF Due
    <3>2. Spared(Operands(e)[i], Vals[i], nodes) BY <1>1, <2>1, ReadySparing
    <3>3. QED BY <1>7, <1>9, <2>1, <3>1, <3>2 DEF Spared
  <2>2. CASE i = Len(Vals) + 1
    <3>1. Due(f, i) = e BY <1>1, <1>4, <1>5, <2>2 DEF Due
    <3>2. r.set \notin DOMAIN Vips /\ nodes'[r.set] = {} BY <1>1, <1>6, <1>9, VipsAre
    <3>3. QED BY <1>1, <1>7, <2>2, <3>1, <3>2 DEF Spared, Bound
  <2>3. QED BY <1>5, <1>7, <2>1, <2>2
<1>13. FrameSpares(f, nodes') BY <1>4, <1>12 DEF FrameSpares
<1>14. QED BY <1>1, <1>4, <1>8, <1>9, <1>11, <1>13, TopSpares

LEMMA FunctionDoneSpares == Sparing /\ FunctionDone => SparesInv'
<1> SUFFICES ASSUME Sparing, FunctionDone PROVE SparesInv' OBVIOUS
<1> DEFINE e == Top.expr  m == Len(Operands(e))
<1>1. /\ stack # <<>> /\ Top.at = "ast" /\ e.op = "function" /\ Len(Vals) = m + 1 /\ nodes' = nodes
      /\ live' = live \ {r.set : r \in {Vals[i] : i \in 1..m}} /\ Return(Vals[Len(Vals)])
      /\ TypeInv /\ SparesVips /\ SparesInv /\ VipsKept
  BY DEF FunctionDone, Evaluating, Destroy, Sparing, SparesInv
<1>2. m \in Nat /\ N \in Nat /\ e \in Expression BY <1>1, TopFrame
<1>3. \A i \in 1..Len(Vals) : Spared(Due(Top, i), Vals[i], nodes)
  BY <1>1, TopSparing DEF FrameSpares, Vals
<1>4. ASSUME NEW i \in 1..m PROVE Vals[i].set \notin DOMAIN Vips
  <2>1. i \in 1..Len(Vals) /\ Due(Top, i) = Operands(e)[i] BY <1>1, <1>2 DEF Due
  <2>2. Spared(Operands(e)[i], Vals[i], nodes) BY <1>3, <2>1
  <2>3. QED BY <1>1, <1>2, <2>2, FunctionOperand
<1>5. \A v \in DOMAIN Vips : v \in live => v \in live' BY <1>1, <1>4
<1>6. VipsKept' BY <1>1, <1>5, StillKept
<1>7. Spared(e, Vals[Len(Vals)], nodes')
  <2>1. Len(Vals) \in 1..Len(Vals) /\ Due(Top, Len(Vals)) = e BY <1>1, <1>2 DEF Due
  <2>2. QED BY <1>1, <1>3, <2>1
<1>8. \A s \in Below : nodes'[s] = nodes[s] BY <1>1
<1> DEFINE r == Vals[Len(Vals)]
<1>9. r \in Ranges(N)
  <2>1. Len(Vals) \in 1..Len(Vals) BY <1>1, <1>2
  <2>2. QED BY <1>1, <2>1, TopFrame
<1>10. Return(r) /\ Spared(Top.expr, r, nodes') BY <1>1, <1>7
<1> HIDE DEF r
<1>11. QED BY <1>1, <1>2, <1>6, <1>8, <1>9, <1>10, ReturnSpares

(* The names a loop begins with: those of cached VIPs, one of them and     *)
(* nothing else; or none of these.                                         *)
LEMMA CallClusterSpares == Sparing /\ CallCluster => SparesInv'
<1> SUFFICES ASSUME Sparing, CallCluster PROVE SparesInv' OBVIOUS
<1> DEFINE e == Top.expr  K == Len(stack)  r == RangeOf(Fresh, FALSE)
           todo == IF Len(Vals) = 1 THEN Hostnames(Vals[1]) ELSE {}
           f == [at |-> "cluster", expr |-> e, root |-> FALSE, todo |-> todo, vals |-> <<r>>]
<1>1. /\ Ready("function") /\ stack # <<>> /\ Top.at = "ast" /\ Len(Vals) = Len(Operands(e))
      /\ e.op = "function" /\ e \in Expression /\ Len(Vals) \in Nat
      /\ nodes' = Append(nodes, {}) /\ live \subseteq live' /\ stack' = Append(stack, f)
      /\ TypeInv /\ OwnInv /\ SparesVips /\ SparesInv /\ VipsKept
  BY ReadyOperands, TopFrame
  DEF CallCluster, Ready, Evaluating, Allocate, Sparing, SparesInv
<1>2. stack \in Seq(FrameIn(N)) /\ K \in Nat \ {0} BY <1>1, TopFrame DEF TypeInv, StackOK
<1>3. f.at = "cluster" /\ f.expr = e /\ f.todo = todo /\ f.vals = <<r>> OBVIOUS
<1>4. r.set = N + 1 /\ Fresh = N + 1 BY DEF RangeOf, Fresh, N
<1> HIDE DEF r, f
<1>5. Len(f.vals) = 1 /\ f.vals[1] = r BY <1>3
<1>6. /\ Len(stack') = K + 1 /\ stack'[K + 1] = f
      /\ \A k \in 1..K : stack'[k] = stack[k]
  BY <1>1, <1>2
<1>7. /\ \A s \in Below : nodes'[s] = nodes[s]
      /\ \A i \in 1..Len(Vals) : nodes'[Vals[i].set] = nodes[Vals[i].set]
      /\ nodes'[Fresh] = {}
  BY <1>1, SetsStay
<1>8. \A w \in DOMAIN Vips : w \in live => w \in live' BY <1>1
<1>9. VipsKept' BY <1>1, <1>8, AppendKept
<1>10. r.set \notin DOMAIN Vips /\ nodes'[r.set] = {} BY <1>1, <1>4, <1>7, VipsAre
<1>11. /\ AsksVips(e) => todo \subseteq {e.kids[1].name}
       /\ ~AsksVips(e) => todo \intersect VipNames = {}
  <2>1. CASE Len(Vals) # 1 BY <2>1
  <2>2. CASE Len(Vals) = 1
    <3>1. 1 \in 1..Len(Vals) /\ 1 \in 1..Len(Operands(e)) BY <1>1, <2>2
    <3>2. Spared(Operands(e)[1], Vals[1], nodes) BY <1>1, <3>1, ReadySparing
    <3>3. /\ Direct(e) \/ nodes[Vals[1].set] \subseteq PlainName
          /\ Direct(e) => nodes[Vals[1].set] = {e.kids[1].name} /\ ~Vals[1].quoted
      <4> DEFINE d == e  x == Vals[1]  nd == nodes
      <4>1. /\ d \in Expression /\ d.op = "function" /\ 1 \in 1..Len(Operands(d))
            /\ Spared(Operands(d)[1], x, nd) /\ SparesVips
        BY <1>1, <3>1, <3>2
      <4> HIDE DEF d, x, nd
      <4>2. /\ Direct(d) \/ nd[x.set] \subseteq PlainName
            /\ Direct(d) => nd[x.set] = {d.kids[1].name} /\ ~x.quoted
        BY <4>1, FunctionOperand, Zenon
      <4>3. QED BY <4>2 DEF d, x, nd
    <3>4. CASE Direct(e)
      <4>1. todo = {e.kids[1].name} BY <2>2, <3>3, <3>4 DEF Hostnames, Nodes
      <4>2. ~AsksVips(e) => e.kids[1].name \notin VipNames BY <3>4 DEF AsksVips
      <4> HIDE DEF todo
      <4>3. QED BY <4>1, <4>2
    <3>5. CASE ~Direct(e)
      <4>1. Nodes(Vals[1]) \subseteq PlainName BY <3>3, <3>5 DEF Nodes
      <4>2. todo \subseteq PlainName BY <1>1, <2>2, <4>1, PlainRanges
      <4>3. \A n \in PlainName : n \notin VipNames BY <1>1, PlainNames
      <4>4. ~AsksVips(e) BY <3>5 DEF AsksVips
      <4> HIDE DEF todo
      <4>5. QED BY <4>2, <4>3, <4>4
    <3>6. QED BY <3>4, <3>5
  <2>3. QED BY <2>1, <2>2
<1> HIDE DEF todo
<1>12. FrameSpares(f, nodes')
  <2>1. CASE AsksVips(e)
    <3>1. Asking(f, nodes') BY <1>3, <1>5, <1>10, <1>11, <2>1 DEF Asking
    <3>2. QED BY <1>1, <1>3, <2>1, <3>1 DEF FrameSpares
  <2>2. CASE ~AsksVips(e)
    <3>1. \A i \in 1..Len(f.vals) : f.vals[i] = r BY <1>5
    <3>2. NotAsking(f, nodes') BY <1>3, <1>10, <1>11, <2>2, <3>1 DEF NotAsking
    <3>3. QED BY <1>1, <1>3, <2>2, <3>2 DEF FrameSpares
  <2>3. QED BY <2>1, <2>2
<1>13. FrameSpares(Top, nodes')
  <2>1. FrameSpares(Top, nodes) BY <1>1, TopSparing
  <2> DEFINE g == Top  nd == nodes  nd2 == nodes'
  <2>2. /\ FrameSpares(g, nd) /\ g.at = "ast"
        /\ \A i \in 1..Len(g.vals) : nd2[g.vals[i].set] = nd[g.vals[i].set]
    BY <1>1, <1>7, <2>1 DEF Vals
  <2> HIDE DEF g, nd, nd2
  <2>3. FrameSpares(g, nd2) BY <2>2, SparesStays
  <2>4. QED BY <2>3 DEF g, nd2
<1>14. Awaits(Top, f)
  <2>1. Due(Top, Len(Vals) + 1) = e BY <1>1 DEF Due
  <2>2. QED BY <1>1, <1>3, <2>1 DEF Awaits, Vals
<1>15. Top = stack[K] /\ \A k \in 1..K - 1 : stack[k] = stack[k] BY DEF Top
<1>16. QED BY <1>1, <1>6, <1>7, <1>9, <1>12, <1>13, <1>14, <1>15, TopSpares

LEMMA DescendSpares == Sparing /\ Descend => SparesInv'
<1> SUFFICES ASSUME Sparing, Descend PROVE SparesInv' OBVIOUS
<1> DEFINE e == Top.expr  K == Len(stack)  i == Len(Vals) + 1
           f == Evaluation(Operands(e)[i], FALSE)
<1>1. /\ stack # <<>> /\ Top.at = "ast" /\ Len(Vals) < Len(Operands(e))
      /\ nodes' = nodes /\ live' = live /\ stack' = Append(stack, f)
      /\ TypeInv /\ SparesInv /\ VipsKept
  BY DEF Descend, Evaluating, sets, Sparing, SparesInv
<1>2. stack \in Seq(FrameIn(N)) /\ K \in Nat \ {0} BY <1>1, TopFrame DEF TypeInv, StackOK
<1>3. Len(Vals) \in Nat /\ Len(Operands(e)) \in Nat BY <1>1, TopFrame
<1>4. i \in 1..Len(Operands(e)) BY <1>1, <1>3
<1>5. f.at = "ast" /\ f.expr = Operands(e)[i] /\ Len(f.vals) = 0 BY DEF Evaluation
<1> HIDE DEF f, i
<1>6. /\ Len(stack') = K + 1 /\ stack'[K + 1] = f
      /\ \A k \in 1..K : stack'[k] = stack[k]
  BY <1>1, <1>2
<1>7. FrameSpares(f, nodes') BY <1>5 DEF FrameSpares
<1>8. Due(Top, i) = Operands(e)[i] BY <1>3, <1>4 DEF Due
<1>9. Awaits(Top, f) BY <1>1, <1>5, <1>8 DEF Awaits, Vals, i
<1>10. FrameSpares(Top, nodes') BY <1>1, TopSparing
<1>11. VipsKept' BY <1>1 DEF VipsKept
<1>12. Top = stack[K] /\ \A k \in 1..K - 1 : stack[k] = stack[k] BY DEF Top
<1>13. \A s \in Below : nodes'[s] = nodes[s] BY <1>1
<1>14. QED BY <1>1, <1>6, <1>7, <1>9, <1>10, <1>11, <1>12, <1>13, TopSpares

(* What a loop of "cluster" knows. *)
LEMMA LoopSparing ==
  ASSUME Sparing, NEW n, InCluster(n)
  PROVE  /\ stack # <<>> /\ Top.at = "cluster" /\ Len(Vals) = n
         /\ Top.expr.op = "function" /\ VipsKept
         /\ IF AsksVips(Top.expr) THEN Asking(Top, nodes) ELSE NotAsking(Top, nodes)
<1>1. stack # <<>> /\ Top.at = "cluster" /\ Len(Vals) = n BY DEF InCluster
<1>2. FrameSpares(Top, nodes) /\ VipsKept BY <1>1, TopSparing
<1>3. QED BY <1>1, <1>2 DEF FrameSpares

LEMMA ExpandTextSpares == Sparing /\ ExpandText => SparesInv'
<1> SUFFICES ASSUME Sparing, ExpandText PROVE SparesInv' OBVIOUS
<1> DEFINE e == Top.expr  K == Len(stack)
<1>1. /\ InCluster(1) /\ nodes' = nodes /\ live' = live /\ TypeInv /\ SparesInv
  BY DEF ExpandText, sets, Sparing
<1>2. PICK name \in Top.todo \intersect DOMAIN Texts :
        stack' = Append(Looking(name), Evaluation(Texts[name], TRUE))
  BY DEF ExpandText
<1>3. /\ stack # <<>> /\ Top.at = "cluster" /\ e.op = "function" /\ VipsKept
      /\ IF AsksVips(e) THEN Asking(Top, nodes) ELSE NotAsking(Top, nodes)
  BY <1>1, LoopSparing
<1> DEFINE st == Looking(name)  f == Evaluation(Texts[name], TRUE)  g == st[K]
<1>4. /\ st \in Seq(FrameIn(N)) /\ Len(st) = K /\ K \in Nat \ {0}
      /\ g = [Top EXCEPT !.todo = Top.todo \ {name}]
      /\ \A k \in 1..K - 1 : st[k] = stack[k]
  BY <1>1, <1>3, LookingOK
<1>5. Top \in FrameIn(N) BY <1>1, <1>3, TopFrame
<1>6. g.at = "cluster" /\ g.expr = e /\ g.todo = Top.todo \ {name} /\ g.vals = Top.vals
  BY <1>3, <1>4, <1>5 DEF FrameIn
<1>7. f.at = "ast" /\ f.expr = Texts[name] /\ Len(f.vals) = 0 BY DEF Evaluation
<1>8. stack' = Append(st, f) BY <1>2
<1> HIDE DEF st, f
<1>9. /\ Len(stack') = K + 1 /\ stack'[K + 1] = f
      /\ \A k \in 1..K : stack'[k] = st[k]
  BY <1>4, <1>8
<1> HIDE DEF g
<1>10. ~AsksVips(e)
  <2>1. ASSUME AsksVips(e) PROVE FALSE
    <3>1. name = e.kids[1].name BY <1>2, <1>3, <2>1 DEF Asking
    <3>2. name \in VipNames BY <2>1, <3>1 DEF AsksVips
    <3>3. PICK v \in DOMAIN Vips : name = Vips[v].name BY <3>2 DEF VipNames
    <3>4. QED BY <1>2, <3>3, VipsAssumption DEF VipsAssumption
  <2>2. QED BY <2>1
<1>11. NotAsking(Top, nodes) BY <1>3, <1>10
<1>12. NotAsking(g, nodes') BY <1>1, <1>6, <1>11 DEF NotAsking
<1>13. FrameSpares(g, nodes') BY <1>3, <1>6, <1>10, <1>12 DEF FrameSpares
<1>14. FrameSpares(f, nodes') BY <1>7 DEF FrameSpares
<1>15. Awaits(g, f) BY <1>2, <1>6, <1>7, <1>10 DEF Awaits
<1>16. VipsKept' BY <1>1, <1>3 DEF VipsKept
<1>17. st[K] = g BY DEF g
<1>18. \A s \in Below : nodes'[s] = nodes[s] BY <1>1
<1>19. QED BY <1>1, <1>3, <1>4, <1>6, <1>9, <1>13, <1>14, <1>15, <1>16, <1>17, <1>18, TopSpares

(* A range joins those of a loop: the stack it leaves. *)
LEMMA LoopTakes ==
  ASSUME TypeInv, stack # <<>>, NEW name, NEW r,
         stack' = [Looking(name) EXCEPT ![Len(stack)].vals = Append(@, r)]
  PROVE  LET K == Len(stack) IN
         /\ Len(stack') = K /\ stack' # <<>> /\ K \in Nat \ {0}
         /\ \A k \in 1..K - 1 : stack'[k] = stack[k]
         /\ stack'[K].at = Top.at /\ stack'[K].expr = Top.expr
         /\ stack'[K].todo = Top.todo \ {name} /\ stack'[K].vals = Append(Vals, r)
<1> DEFINE K == Len(stack)  st == Looking(name)
<1>1. /\ st \in Seq(FrameIn(N)) /\ Len(st) = K /\ K \in Nat \ {0}
      /\ st[K] = [Top EXCEPT !.todo = Top.todo \ {name}]
      /\ \A k \in 1..K - 1 : st[k] = stack[k]
  BY LookingOK
<1>2. Top \in FrameIn(N) BY TopFrame
<1>3. /\ st[K].at = Top.at /\ st[K].expr = Top.expr /\ st[K].todo = Top.todo \ {name} /\ st[K].vals = Vals
      /\ st[K] \in FrameIn(N)
  BY <1>1, <1>2 DEF FrameIn, Vals
<1> DEFINE v == Append(Vals, r)  h == [st[K] EXCEPT !.vals = v]
<1>4. stack' = [st EXCEPT ![K] = h] BY <1>3
<1>5. h.at = Top.at /\ h.expr = Top.expr /\ h.todo = Top.todo \ {name} /\ h.vals = v
  BY <1>3 DEF FrameIn
<1> HIDE DEF st, v, h
<1>6. /\ Len(stack') = K /\ stack' # <<>> /\ stack'[K] = h
      /\ \A k \in 1..K - 1 : stack'[k] = stack[k]
  BY <1>1, <1>4
<1>7. QED BY <1>1, <1>5, <1>6 DEF v

LEMMA NoClusterSpares == Sparing /\ NoCluster => SparesInv'
<1> SUFFICES ASSUME Sparing, NoCluster PROVE SparesInv' OBVIOUS
<1> DEFINE e == Top.expr  K == Len(stack)  r == RangeOf(Fresh, FALSE)  v == Append(Vals, r)  g == stack'[K]
<1>1. /\ InCluster(1) /\ nodes' = Append(nodes, {}) /\ live \subseteq live'
      /\ TypeInv /\ OwnInv /\ SparesInv
  BY DEF NoCluster, Allocate, Sparing
<1>2. PICK name \in Top.todo \ (DOMAIN Texts \union VipNames) :
        stack' = [Looking(name) EXCEPT ![K].vals = Append(@, r)]
  BY DEF NoCluster
<1>3. /\ stack # <<>> /\ Top.at = "cluster" /\ e.op = "function" /\ VipsKept
      /\ IF AsksVips(e) THEN Asking(Top, nodes) ELSE NotAsking(Top, nodes)
  BY <1>1, LoopSparing
<1>4. r.set = N + 1 /\ Fresh = N + 1 BY DEF RangeOf, Fresh, N
<1> HIDE DEF r
<1>5. /\ Len(stack') = K /\ stack' # <<>> /\ K \in Nat \ {0}
      /\ \A k \in 1..K - 1 : stack'[k] = stack[k]
      /\ g.at = Top.at /\ g.expr = e /\ g.todo = Top.todo \ {name} /\ g.vals = v
  BY <1>1, <1>2, <1>3, LoopTakes
<1>6. Vals \in Seq(Ranges(N)) /\ Len(Vals) \in Nat BY <1>1, <1>3, TopFrame
<1>7. /\ Len(v) = Len(Vals) + 1 /\ v[Len(Vals) + 1] = r
      /\ \A i \in 1..Len(Vals) : v[i] = Vals[i]
  BY <1>6
<1> HIDE DEF v, g
<1>8. /\ \A s \in Below : nodes'[s] = nodes[s]
      /\ \A i \in 1..Len(Vals) : nodes'[Vals[i].set] = nodes[Vals[i].set]
      /\ nodes'[Fresh] = {}
  BY <1>1, <1>3, SetsStay
<1>9. r.set \notin DOMAIN Vips /\ nodes'[r.set] = {} BY <1>1, <1>4, <1>8, VipsAre
<1>10. \A w \in DOMAIN Vips : w \in live => w \in live' BY <1>1
<1>11. VipsKept' BY <1>1, <1>3, <1>10, AppendKept
<1>12. ~AsksVips(e)
  <2>1. ASSUME AsksVips(e) PROVE FALSE
    <3>1. name = e.kids[1].name BY <1>2, <1>3, <2>1 DEF Asking
    <3>2. QED BY <1>2, <2>1, <3>1 DEF AsksVips
  <2>2. QED BY <2>1
<1>13. NotAsking(Top, nodes) BY <1>3, <1>12
<1>14. ASSUME NEW i \in 1..Len(v)
       PROVE  v[i].set \notin DOMAIN Vips /\ nodes'[v[i].set] \subseteq PlainName
  <2>1. CASE i \in 1..Len(Vals) BY <1>7, <1>8, <1>13, <2>1 DEF NotAsking, Vals
  <2>2. CASE i = Len(Vals) + 1 BY <1>7, <1>9, <2>2
  <2>3. QED BY <1>6, <1>7, <2>1, <2>2
<1>15. NotAsking(g, nodes') BY <1>5, <1>13, <1>14 DEF NotAsking
<1>16. FrameSpares(g, nodes') BY <1>3, <1>5, <1>12, <1>15 DEF FrameSpares
<1>17. stack'[K] = g BY DEF g
<1>18. QED BY <1>1, <1>3, <1>5, <1>8, <1>11, <1>16, <1>17, TopSpares

(* The name asked for is looked up: the cached set joins an empty range. *)
LEMMA CachedVipsSpares == Sparing /\ CachedVips => SparesInv'
<1> SUFFICES ASSUME Sparing, CachedVips PROVE SparesInv' OBVIOUS
<1> DEFINE e == Top.expr  K == Len(stack)  g == stack'[K]
<1>1. /\ InCluster(1) /\ nodes' = nodes /\ live' = live /\ TypeInv /\ SparesInv
  BY DEF CachedVips, sets, Sparing
<1>2. PICK w \in DOMAIN Vips :
        /\ Vips[w].name \in Top.todo
        /\ stack' = [Looking(Vips[w].name) EXCEPT ![K].vals = Append(@, RangeOf(w, FALSE))]
  BY DEF CachedVips
<1> DEFINE r == RangeOf(w, FALSE)  v == Append(Vals, r)  name == Vips[w].name
<1>3. /\ stack # <<>> /\ Top.at = "cluster" /\ Len(Vals) = 1 /\ e.op = "function" /\ VipsKept
      /\ IF AsksVips(e) THEN Asking(Top, nodes) ELSE NotAsking(Top, nodes)
  BY <1>1, LoopSparing
<1>4. r.set = w BY DEF RangeOf
<1>5. name \in VipNames /\ name \in Top.todo BY <1>2 DEF VipNames
<1>6. /\ Len(stack') = K /\ stack' # <<>> /\ K \in Nat \ {0}
      /\ \A k \in 1..K - 1 : stack'[k] = stack[k]
      /\ g.at = Top.at /\ g.expr = e /\ g.todo = Top.todo \ {name} /\ g.vals = v
  BY <1>1, <1>2, <1>3, LoopTakes
<1>7. Vals \in Seq(Ranges(N)) BY <1>1, <1>3, TopFrame
<1> HIDE DEF r
<1>8. Len(v) = 2 /\ v[2] = r /\ v[1] = Vals[1]
  <2>1. /\ Len(v) = Len(Vals) + 1 /\ v[Len(Vals) + 1] = r
        /\ \A i \in 1..Len(Vals) : v[i] = Vals[i]
    BY <1>7
  <2> HIDE DEF v
  <2>2. QED BY <1>3, <2>1
<1>9. Vips[w].name = name OBVIOUS
<1> HIDE DEF v, g, name
<1>10. AsksVips(e) BY <1>3, <1>5 DEF NotAsking
<1>11. Asking(Top, nodes) BY <1>3, <1>10
<1>12. name = e.kids[1].name /\ Top.todo \ {name} = {} BY <1>5, <1>11 DEF Asking
<1>13. Vals[1].set \notin DOMAIN Vips /\ nodes[Vals[1].set] = {} BY <1>5, <1>11 DEF Asking, Vals
<1>14. Asking(g, nodes')
  <2>1. g.vals = v /\ g.expr = e /\ g.todo = {} BY <1>6, <1>12
  <2>2. v[2].set \in DOMAIN Vips /\ Vips[v[2].set].name = e.kids[1].name BY <1>2, <1>4, <1>8, <1>9, <1>12
  <2>3. v[1].set \notin DOMAIN Vips /\ nodes'[v[1].set] = {} BY <1>1, <1>8, <1>13
  <2>4. QED BY <2>1, <2>2, <2>3 DEF Asking
<1>15. FrameSpares(g, nodes') BY <1>3, <1>6, <1>10, <1>14 DEF FrameSpares
<1>16. VipsKept' BY <1>1, <1>3 DEF VipsKept
<1>17. stack'[K] = g BY DEF g
<1>18. \A s \in Below : nodes'[s] = nodes[s] BY <1>1
<1>19. QED BY <1>1, <1>3, <1>6, <1>15, <1>16, <1>17, <1>18, TopSpares

LEMMA VipNodesAre ==
  ASSUME TypeInv, NEW v \in DOMAIN Vips
  PROVE  VipNodes(Vips[v].name) = Vips[v].nodes
<1> DEFINE S == {w \in DOMAIN Vips : Vips[w].name = Vips[v].name}
<1>1. \A w \in DOMAIN Vips : Vips[w].name = Vips[v].name => w = v
  BY VipsAssumption DEF VipsAssumption
<1>2. S = {v} BY <1>1
<1>3. VipNodes(Vips[v].name) = UNION {Vips[w].nodes : w \in S} BY DEF VipNodes
<1> HIDE DEF S
<1>4. {Vips[w].nodes : w \in S} = {Vips[v].nodes} BY <1>2
<1>5. QED BY <1>3, <1>4

(* What is merged: two sets of the loop's own; or the cached one, which is *)
(* the bigger and takes nothing in.                                        *)
LEMMA MergeClusterSpares == Sparing /\ MergeCluster => SparesInv'
<1> SUFFICES ASSUME Sparing, MergeCluster PROVE SparesInv' OBVIOUS
<1> DEFINE e == Top.expr  K == Len(stack)
<1>1. InCluster(2) /\ TypeInv /\ OwnInv /\ SparesVips /\ SparesInv BY DEF MergeCluster, Sparing
<1>2. /\ stack # <<>> /\ Top.at = "cluster" /\ Len(Vals) = 2 /\ e.op = "function" /\ VipsKept
      /\ IF AsksVips(e) THEN Asking(Top, nodes) ELSE NotAsking(Top, nodes)
  BY <1>1, LoopSparing
<1>3. 1 \in 1..Len(Vals) /\ 2 \in 1..Len(Vals) BY <1>2
<1>4. stack \in Seq(FrameIn(N)) /\ K \in Nat \ {0} /\ Top \in FrameIn(N) /\ e \in Expression
  BY <1>1, <1>2, TopFrame DEF TypeInv, StackOK
<1>5. ASSUME NEW i \in {1, 2}, NEW j \in {1, 2}, i # j, Merge(Vals[i], Vals[j]), stack' = WithVals(<<Vals[i]>>),
             \/ AsksVips(e) /\ i = 2
             \/ ~AsksVips(e)
      PROVE  SparesInv'
  <2> DEFINE v == <<Vals[i]>>  g == [Top EXCEPT !.vals = v]  X == Nodes(Vals[i]) \union Nodes(Vals[j])
  <2>1. g.at = "cluster" /\ g.expr = e /\ g.todo = Top.todo /\ g.vals = v
    BY <1>2, <1>4 DEF FrameIn
  <2>2. Len(v) = 1 /\ v[1] = Vals[i] OBVIOUS
  <2>3. stack' = [stack EXCEPT ![K] = g] BY <1>5 DEF WithVals, Top
  <2> HIDE DEF v, g
  <2>4. /\ Len(stack') = K /\ stack' # <<>> /\ stack'[K] = g
        /\ \A k \in 1..K - 1 : stack'[k] = stack[k]
    BY <1>4, <2>3
  <2>5. /\ nodes' = [nodes EXCEPT ![Vals[i].set] = X] /\ live' = live \ {Vals[j].set}
    BY <1>5 DEF Merge, Nodes, Destroy
  <2>6. i \in 1..Len(Vals) /\ j \in 1..Len(Vals) BY <1>2
  <2> HIDE DEF X
  <2>7. (\A s \in Below : nodes'[s] = nodes[s]) /\ nodes'[Vals[i].set] = X
    BY <1>1, <1>2, <2>5, <2>6, SetsStay
  <2>8. Vals[i].set \in 1..N BY <1>1, <1>2, <2>6, TopFrame
  <2>9. CASE AsksVips(e)
    <3>1. i = 2 /\ j = 1 BY <1>5, <2>9
    <3>2. Asking(Top, nodes) BY <1>2, <2>9
    <3>3. /\ Vals[1].set \notin DOMAIN Vips /\ nodes[Vals[1].set] = {} /\ Top.todo = {}
      BY <1>2, <3>2 DEF Asking, Vals
    <3>4. X = nodes[Vals[2].set] BY <3>1, <3>3 DEF X, Nodes
    <3>5. nodes' = nodes
      <4>1. DOMAIN nodes = 1..N /\ nodes \in Seq(SUBSET Name) BY <1>1 DEF TypeInv, N
      <4>2. nodes' = [nodes EXCEPT ![Vals[2].set] = nodes[Vals[2].set]] BY <2>5, <3>1, <3>4
      <4>3. QED BY <4>1, <4>2
    <3>6. \A w \in DOMAIN Vips : w \in live => w \in live' BY <2>5, <3>1, <3>3
    <3>7. VipsKept' BY <1>2, <3>5, <3>6, StillKept
    <3>8. Asking(g, nodes') BY <2>1, <2>2, <3>3 DEF Asking
    <3>9. FrameSpares(g, nodes') BY <1>2, <2>1, <2>9, <3>8 DEF FrameSpares
    <3>10. QED BY <1>1, <1>2, <2>1, <2>4, <2>7, <3>7, <3>9, TopSpares
  <2>10. CASE ~AsksVips(e)
    <3>1. NotAsking(Top, nodes) BY <1>2, <2>10
    <3>2. /\ Vals[i].set \notin DOMAIN Vips /\ nodes[Vals[i].set] \subseteq PlainName
          /\ Vals[j].set \notin DOMAIN Vips /\ nodes[Vals[j].set] \subseteq PlainName
      BY <2>6, <3>1 DEF NotAsking, Vals
    <3>3. X \subseteq PlainName BY <3>2 DEF X, Nodes
    <3>4. \A w \in DOMAIN Vips : w \in live => w \in live' BY <2>5, <3>2
    <3>5. VipsKept' BY <1>1, <1>2, <2>5, <2>8, <3>2, <3>4, ChangeKept
    <3>6. \A k \in 1..Len(v) : v[k] = Vals[i] BY <2>2
    <3>7. nodes'[Vals[i].set] \subseteq PlainName BY <2>7, <3>3
    <3>8. NotAsking(g, nodes') BY <2>1, <3>1, <3>2, <3>6, <3>7 DEF NotAsking
    <3>9. FrameSpares(g, nodes') BY <1>2, <2>1, <2>10, <3>8 DEF FrameSpares
    <3>10. QED BY <1>1, <1>2, <2>1, <2>4, <2>7, <3>5, <3>9, TopSpares
  <2>11. QED BY <2>9, <2>10
<1>6. AsksVips(e) => Bigger(Vals[2], Vals[1])
  <2>1. SUFFICES ASSUME AsksVips(e) PROVE Bigger(Vals[2], Vals[1]) OBVIOUS
  <2>2. Asking(Top, nodes) BY <1>2, <2>1
  <2> DEFINE w == Vals[2].set
  <2>3. /\ nodes[Vals[1].set] = {} /\ w \in DOMAIN Vips /\ Vips[w].name = e.kids[1].name
    BY <1>2, <2>2 DEF Asking, Vals
  <2>4. nodes[w] = Vips[w].nodes BY <1>2, <2>3 DEF VipsKept
  <2>5. VipNodes(e.kids[1].name) # {} BY <1>1, <1>4, <2>1 DEF SparesVips
  <2> HIDE DEF w
  <2>6. nodes[w] # {} BY <1>1, <2>3, <2>4, <2>5, VipNodesAre
  <2>7. IsFiniteSet(nodes[w]) BY <2>3, <2>4, VipsAssumption DEF VipsAssumption
  <2> DEFINE S == nodes[w]
  <2>8. IsFiniteSet(S) /\ S # {} BY <2>6, <2>7
  <2> HIDE DEF S
  <2>9. Cardinality(S) \in Nat BY <2>8, FS_CardinalityType
  <2>10. Cardinality(S) # 0 BY <2>8, FS_EmptySet
  <2>11. IsFiniteSet({}) BY FS_EmptySet
  <2>12. Cardinality({}) = 0 BY <2>11, FS_EmptySet
  <2>13. Cardinality(S) > Cardinality({}) BY <2>9, <2>10, <2>12
  <2>14. Nodes(Vals[2]) = S /\ Nodes(Vals[1]) = {} BY <2>3 DEF Nodes, S, w
  <2>15. QED BY <2>13, <2>14 DEF Bigger
<1>7. CASE Bigger(Vals[2], Vals[1])
  <2>1. Merge(Vals[2], Vals[1]) /\ stack' = WithVals(<<Vals[2]>>) BY <1>7 DEF MergeCluster
  <2>2. 2 \in {1, 2} /\ 1 \in {1, 2} /\ 2 # 1 /\ (AsksVips(e) \/ ~AsksVips(e)) OBVIOUS
  <2>3. QED BY <1>5, <2>1, <2>2
<1>8. CASE ~Bigger(Vals[2], Vals[1])
  <2>1. Merge(Vals[1], Vals[2]) /\ stack' = WithVals(<<Vals[1]>>) BY <1>8 DEF MergeCluster
  <2>2. 2 \in {1, 2} /\ 1 \in {1, 2} /\ 2 # 1 /\ ~AsksVips(e) BY <1>6, <1>8
  <2>3. QED BY <1>5, <2>1, <2>2
<1>9. QED BY <1>7, <1>8

LEMMA ClusterDoneSpares == Sparing /\ ClusterDone => SparesInv'
<1> SUFFICES ASSUME Sparing, ClusterDone PROVE SparesInv' OBVIOUS
<1> DEFINE e == Top.expr  r == Vals[1]
<1>1. /\ InCluster(1) /\ Return(Vals[1]) /\ nodes' = nodes /\ live' = live
      /\ TypeInv /\ SparesVips /\ SparesInv
  BY DEF ClusterDone, sets, Sparing
<1>2. /\ stack # <<>> /\ Len(Vals) = 1 /\ e.op = "function" /\ VipsKept
      /\ IF AsksVips(e) THEN Asking(Top, nodes) ELSE NotAsking(Top, nodes)
  BY <1>1, LoopSparing
<1>3. 1 \in 1..Len(Vals) BY <1>2
<1>4. N \in Nat /\ N <= N /\ r \in Ranges(N) BY <1>1, <1>2, <1>3, TopFrame
<1>5. Spared(e, r, nodes')
  <2>1. CASE AsksVips(e) BY <1>2, <2>1 DEF Spared, Bound
  <2>2. CASE ~AsksVips(e)
    <3>1. r.set \notin DOMAIN Vips /\ nodes[r.set] \subseteq PlainName
      BY <1>2, <1>3, <2>2 DEF NotAsking, Vals
    <3>2. QED BY <1>1, <1>2, <3>1 DEF Spared, Bound
  <2>3. QED BY <2>1, <2>2
<1>6. VipsKept' BY <1>1, <1>2 DEF VipsKept
<1>7. \A s \in Below : nodes'[s] = nodes[s] BY <1>1
<1>8. Return(r) /\ Spared(Top.expr, r, nodes') BY <1>1, <1>5
<1> HIDE DEF r
<1>9. QED BY <1>1, <1>2, <1>4, <1>6, <1>7, <1>8, ReturnSpares

(* A new request meets the cache as the last one left it. *)
LEMMA AskSpares == ASSUME NEW q \in Queries PROVE Sparing /\ Ask(q) => SparesInv'
<1> SUFFICES ASSUME Sparing, Ask(q) PROVE SparesInv' OBVIOUS
<1> DEFINE f == Evaluation(q, TRUE)  m == Len(Vips)
<1>1. /\ nodes' = SubSeq(nodes, 1, m) /\ live' = live \intersect DOMAIN Vips /\ stack' = <<f>>
      /\ TypeInv /\ VipsKept
  BY DEF Ask, Sparing, SparesInv
<1>2. f.at = "ast" /\ Len(f.vals) = 0 BY DEF Evaluation
<1> HIDE DEF f
<1>3. Len(stack') = 1 /\ stack'[1] = f BY <1>1
<1>4. /\ DOMAIN Vips = 1..m /\ m \in Nat /\ N \in Nat /\ m <= N /\ N = Len(nodes)
      /\ nodes \in Seq(SUBSET Name)
  BY <1>1, VipsAre DEF TypeInv, N
<1> HIDE DEF m
<1>5. ASSUME NEW v \in DOMAIN Vips PROVE nodes'[v] = nodes[v] /\ (v \in live => v \in live')
  <2>1. v \in 1..m /\ 1..m \subseteq 1..N BY <1>4
  <2>2. nodes'[v] = nodes[1 + v - 1] BY <1>1, <1>4, <2>1, SubSeqProperties
  <2>3. QED BY <1>1, <1>4, <2>1, <2>2
<1>6. VipsKept' BY <1>1, <1>5, StillKept
<1>7. FrameSpares(f, nodes') BY <1>2 DEF FrameSpares
<1>8. QED BY <1>3, <1>6, <1>7 DEF SparesInv

LEMMA StillSpares == Sparing /\ UNCHANGED vars => SparesInv'
<1> SUFFICES ASSUME Sparing, UNCHANGED vars PROVE SparesInv' OBVIOUS
<1>1. nodes' = nodes /\ live' = live /\ stack' = stack /\ SparesInv BY DEF vars, sets, Sparing
<1>2. QED BY <1>1 DEF SparesInv, VipsKept

LEMMA NextSpares == Sparing /\ [Next]_vars => SparesInv'
BY LeafSpares, UnionSpares, DiffSpares, InterSpares, NotSpares, RegexSpares, BracesSpares,
   DescendSpares, NoFunctionSpares, CallClusterSpares, FunctionDoneSpares, ExpandTextSpares,
   NoClusterSpares, CachedVipsSpares, MergeClusterSpares, ClusterDoneSpares, AskSpares, StillSpares
DEF Next, Step

LEMMA InitSpares == Init => SparesInv
<1> SUFFICES ASSUME Init PROVE SparesInv OBVIOUS
<1>1. Len(stack) = 0 /\ VipsKept BY DEF Init, VipsKept
<1>2. QED BY <1>1 DEF SparesInv

(* A call that waits holds no cached set: what it has in hand is the value *)
(* of one of its operands, and not of the last.                            *)
LEMMA BelowUncached ==
  ASSUME Sparing, NEW v \in DOMAIN Vips
  PROVE  v \notin Below
<1> SUFFICES ASSUME v \in Below PROVE FALSE OBVIOUS
<1>1. PICK p \in (1..Len(stack) - 1) \X Nat : p[2] \in 1..Len(stack[p[1]].vals) /\ stack[p[1]].vals[p[2]].set = v
  BY DEF Below
<1> DEFINE k == p[1]  i == p[2]  f == stack[k]  g == stack[k + 1]
<1>2. k \in 1..Len(stack) - 1 /\ i \in 1..Len(f.vals) /\ f.vals[i].set = v BY <1>1
<1>3. TypeInv /\ SparesInv /\ SparesVips /\ Len(stack) \in Nat BY DEF Sparing, TypeInv, StackOK
<1>4. k \in 1..Len(stack) BY <1>2, <1>3
<1>5. /\ FrameSpares(f, nodes) /\ Awaits(f, g) /\ Waits(f, g) /\ f \in FrameIn(N)
  <2>1. FrameSpares(f, nodes) BY <1>3, <1>4 DEF SparesInv
  <2>2. Awaits(f, g) BY <1>2, <1>3 DEF SparesInv
  <2>3. Waits(f, g) BY <1>2, <1>3 DEF TypeInv, StackOK
  <2>4. f \in FrameIn(N) BY <1>3, <1>4 DEF TypeInv, StackOK
  <2>5. QED BY <2>1, <2>2, <2>3, <2>4
<1>6. f.expr \in Expression /\ Len(f.vals) \in Nat /\ f.at \in {"ast", "cluster"} BY <1>5 DEF FrameIn
<1> DEFINE e == f.expr
<1>7. Len(Operands(e)) \in Nat /\ (e.op = "diff" => Len(Operands(e)) <= 2)
  <2>1. Len(Operands(e)) \in Nat BY <1>6, OperandsOK
  <2>2. e.op = "diff" => Len(Operands(e)) = IF RegexOperand(e) THEN 1 ELSE 2 BY <1>6, OperandsOK
  <2>3. QED BY <2>1, <2>2
<1> HIDE DEF k, i, f, g
<1>8. CASE f.at = "cluster"
  <2>1. NotAsking(f, nodes) BY <1>5, <1>8 DEF FrameSpares, Awaits
  <2>2. QED BY <1>2, <2>1 DEF NotAsking
<1>9. CASE f.at = "ast"
  <2>1. \/ Len(f.vals) < Len(Operands(e))
        \/ e.op = "function" /\ Len(f.vals) = Len(Operands(e))
    BY <1>5, <1>9 DEF Waits
  <2>2. i \in 1..Len(Operands(e)) BY <1>2, <1>6, <1>7, <2>1
  <2>3. Spared(Operands(e)[i], f.vals[i], nodes) BY <1>2, <1>5, <1>9, <2>2 DEF FrameSpares, Due
  <2>4. AsksVips(Operands(e)[i]) BY <1>2, <2>3 DEF Spared
  <2>5. ~Direct(e)
    <3>1. ASSUME Direct(e) PROVE FALSE
      <4>1. Operands(e) = e.kids /\ Len(e.kids) = 1 /\ e.kids[1].op = "literal"
        BY <3>1 DEF Direct, LooksUp, Operands
      <4>2. i = 1 BY <2>2, <4>1
      <4>3. Operands(e)[i].op = "literal" BY <4>1, <4>2
      <4>4. QED BY <2>4, <4>3 DEF AsksVips, Direct, LooksUp
    <3>2. QED BY <3>1
  <2>6. ~(e.op = "diff" /\ i = 2) BY <1>2, <1>6, <1>7, <2>1
  <2>7. Plain(Operands(e)[i]) BY <1>3, <1>6, <2>2, <2>5, <2>6 DEF SparesVips
  <2>8. QED BY <2>4, <2>7 DEF Plain
<1>10. QED BY <1>6, <1>8, <1>9

(* So the cached set a loop is about to take is nobody else's. *)
LEMMA SparesFree == Sparing => VipsFree
<1> SUFFICES ASSUME Sparing, NEW v \in DOMAIN Vips, InCluster(1), Vips[v].name \in Top.todo
             PROVE  v \in live /\ v \notin Below /\ v # Vals[1].set
  BY DEF VipsFree
<1>1. VipsKept /\ IF AsksVips(Top.expr) THEN Asking(Top, nodes) ELSE NotAsking(Top, nodes)
  BY LoopSparing
<1>2. Vips[v].name \in VipNames BY DEF VipNames
<1>3. Asking(Top, nodes) BY <1>1, <1>2 DEF NotAsking
<1>4. Vals[1].set \notin DOMAIN Vips BY <1>3 DEF Asking, Vals
<1>5. QED BY <1>1, <1>4, BelowUncached DEF VipsKept

LEMMA NextSparing == Sparing /\ [Next]_vars => Sparing'
<1> SUFFICES ASSUME Sparing, [Next]_vars PROVE Sparing' OBVIOUS
<1>1. TypeInv /\ OwnInv /\ VipsFree BY SparesFree DEF Sparing
<1>2. TypeInv' /\ OwnInv' BY <1>1, NextKeeps DEF Keeps
<1>3. SparesInv' BY NextSpares
<1>4. QED BY <1>2, <1>3 DEF Sparing

(* Without cached VIPs there is nothing to spare. *)
LEMMA NoVipsSpares == Vips = <<>> => SparesVips
<1> SUFFICES ASSUME Vips = <<>> PROVE SparesVips OBVIOUS
<1>1. DOMAIN Vips = {} OBVIOUS
<1>2. VipMarks = {} /\ VipNames = {} BY <1>1 DEF VipMarks, VipNames
<1>3. Symbol \ VipMarks = Symbol BY <1>2
<1>4. PlainName = Name BY <1>3 DEF PlainName, Name
<1>5. \A e \in Expression : SyntaxOK(e) BY SyntaxAssumption DEF SyntaxAssumption
<1>6. \A e : ~AsksVips(e) BY <1>2 DEF AsksVips
<1>7. \A e \in Expression : Plain(e) BY <1>4, <1>5, <1>6 DEF Plain, SyntaxOK
<1>8. \A n \in DOMAIN Texts : Plain(Texts[n]) BY <1>7, TextsAssumption DEF TextsAssumption
<1>9. ASSUME NEW e \in Expression
      PROVE  /\ e.op = "string" => e.name \in PlainName
             /\ e.op = "parts" => e.names \subseteq PlainName
             /\ AsksVips(e) => VipNodes(e.kids[1].name) # {}
             /\ \A i \in 1..Len(Operands(e)) : Plain(Operands(e)[i])
  <2>1. Operands(e) \in Seq(Expression) BY OperandsOK
  <2>2. \A i \in 1..Len(Operands(e)) : Operands(e)[i] \in Expression BY <2>1
  <2>3. \A i \in 1..Len(Operands(e)) : Plain(Operands(e)[i]) BY <1>7, <2>2
  <2>4. /\ e.op = "string" => e.name \in PlainName
        /\ e.op = "parts" => e.names \subseteq PlainName
    BY <1>4, <1>5 DEF SyntaxOK
  <2>5. QED BY <1>6, <2>3, <2>4
<1>10. QED BY <1>1, <1>2, <1>8, <1>9 DEF SparesVips

(* Whatever is asked for, as long as cached VIPs are only asked for by     *)
(* name.                                                                   *)
LEMMA AlwaysSparing == ASSUME SparesVips PROVE Spec => []Sparing
<1>1. Init => Sparing BY InitTypes, InitOwns, InitSpares DEF Sparing
<1>2. Sparing /\ [Next]_vars => Sparing' BY NextSparing
<1>3. QED BY <1>1, <1>2, PTL DEF Spec

(* Where cached VIPs are only asked for by name, alone or on the right of  *)
(* a difference, no range that a call of range_evaluate or                 *)
(* rangefunc_cluster holds has been destroyed or is held by another:       *)
(* swapping operands by size, in a union or a merge, never frees a set in  *)
(* use.                                                                    *)
THEOREM AlwaysOwned == ASSUME SparesVips PROVE Spec => []OwnedOnce
<1>1. Sparing => OwnedOnce BY OwnInvOwns DEF Sparing
<1>2. QED BY <1>1, AlwaysSparing, PTL

(* There, the range that do_range_expand leaves for the caller of a        *)
(* request has not been destroyed, though every inner expansion writes     *)
(* rr->r too.                                                              *)
THEOREM AlwaysLive == ASSUME SparesVips PROVE Spec => []ResultLive
<1>1. Sparing => ResultLive BY OwnInvOwns DEF Sparing
<1>2. QED BY <1>1, AlwaysSparing, PTL

(* There, _cluster_vips hands out the sets of the cache themselves, and    *)
(* they stay what the file of their cluster said, whatever is evaluated    *)
(* and however many requests come: rangefunc_cluster keeps a cached set    *)
(* and drops its own empty one, nothing is merged into what it returns,    *)
(* and what a difference takes away is neither changed nor destroyed.      *)
THEOREM AlwaysKept == ASSUME SparesVips PROVE Spec => []VipsKept
<1>1. Sparing => VipsKept BY DEF Sparing, SparesInv
<1>2. QED BY <1>1, AlwaysSparing, PTL

(***************************************************************************)
(* What expressions are worth, and what is met in them.                    *)
(***************************************************************************)
AllNames == TextOf(Meaning, <<"all:CLUSTER">>)

LEMMA MeaningIs ==
  ASSUME NEW e \in Expression
  PROVE  /\ e.op \in {"literal", "string"} => Meaning[e] = {e.name}
         /\ e.op = "parts" => Meaning[e] = e.names
         /\ e.op \in {"nothing", "unparsable"} => Meaning[e] = {}
         /\ e.op = "union" => Meaning[e] = Meaning[e.kids[1]] \union Meaning[e.kids[2]]
         /\ e.op = "diff" => Meaning[e] = Meaning[e.kids[1]] \
              IF RegexOperand(e) THEN Matching(e.kids[2].regex, Meaning[e.kids[1]])
              ELSE Meaning[e.kids[2]]
         /\ e.op = "inter" => Meaning[e] = Meaning[e.kids[1]] \intersect
              IF RegexOperand(e) THEN Matching(e.kids[2].regex, Meaning[e.kids[1]])
              ELSE Meaning[e.kids[2]]
         /\ e.op = "not" => Meaning[e] = AllNames \ Meaning[e.kids[1]]
         /\ e.op = "regex" => Meaning[e] = Matching(e.regex, AllNames)
         /\ e.op = "braces" => Meaning[e] =
              {b[1] \o b[2] \o b[3] : b \in OrEmpty(Meaning[e.kids[1]]) \X OrEmpty(Meaning[e.kids[2]])
                                              \X OrEmpty(Meaning[e.kids[3]])}
         /\ e.op = "function" => Meaning[e] = UNION {TextOf(Meaning, n) : n \in Named(e)}
<1> DEFINE M == Meaning
<1>1. M[e] = Worth(M, e) BY MeaningAssumption DEF MeaningAssumption
<1> HIDE DEF M
<1>2. CASE e.op \in {"literal", "string"} BY <1>1, <1>2 DEF Worth, M
<1>3. CASE e.op = "parts" BY <1>1, <1>3 DEF Worth, M
<1>4. CASE e.op \in {"nothing", "unparsable"} BY <1>1, <1>4 DEF Worth, M
<1>5. CASE e.op = "union" BY <1>1, <1>5 DEF Worth, M
<1>6. CASE e.op = "diff" BY <1>1, <1>6 DEF Worth, M
<1>7. CASE e.op = "inter" BY <1>1, <1>7 DEF Worth, M
<1>8. CASE e.op = "not" BY <1>1, <1>8 DEF Worth, AllNames, M
<1>9. CASE e.op = "regex" BY <1>1, <1>9 DEF Worth, AllNames, M
<1>10. CASE e.op = "braces" BY <1>1, <1>10 DEF Worth, M
<1>11. CASE e.op = "function"
  <2>1. M[e] = IF LooksUp(e) THEN UNION {TextOf(M, n) : n \in M[e.kids[1]]} ELSE {}
    BY <1>1, <1>11 DEF Worth
  <2>2. M[e] = UNION {TextOf(M, n) : n \in Named(e)} BY <2>1 DEF Named, M
  <2>3. QED BY <1>11, <2>2 DEF M
<1>12. QED BY <1>2, <1>3, <1>4, <1>5, <1>6, <1>7, <1>8, <1>9, <1>10, <1>11 DEF M

LEMMA MetIs ==
  ASSUME NEW e \in Expression
  PROVE  /\ e \in Met[e]
         /\ \A i \in 1..Len(Operands(e)) : Met[Operands(e)[i]] \subseteq Met[e]
         /\ \A n \in Named(e) \intersect DOMAIN Texts : Met[Texts[n]] \subseteq Met[e]
         /\ \A p \in Met[e] : \/ p = e
                              \/ \E i \in 1..Len(Operands(e)) : p \in Met[Operands(e)[i]]
                              \/ \E n \in Named(e) \intersect DOMAIN Texts : p \in Met[Texts[n]]
<1> DEFINE M == Met  T == Named(e) \intersect DOMAIN Texts
<1>1. M[e] = Meets(M, e) BY MetAssumption DEF MetAssumption
<1> HIDE DEF M
<1> DEFINE S == UNION {M[Operands(e)[i]] : i \in 1..Len(Operands(e))}
           U == UNION {M[Texts[n]] : n \in T}
<1>2. M[e] = {e} \union S \union U BY <1>1, Zenon DEF Meets
<1>3. \A p : p \in S <=> \E i \in 1..Len(Operands(e)) : p \in M[Operands(e)[i]] BY Zenon
<1>4. \A p : p \in U <=> \E n \in T : p \in M[Texts[n]] BY Zenon
<1> HIDE DEF T, S, U
<1>5. e \in M[e] /\ \A i \in 1..Len(Operands(e)) : M[Operands(e)[i]] \subseteq M[e] BY <1>2, <1>3
<1>6. \A n \in T : M[Texts[n]] \subseteq M[e] BY <1>2, <1>4, Zenon
<1>7. \A p \in M[e] : \/ p = e
                      \/ \E i \in 1..Len(Operands(e)) : p \in M[Operands(e)[i]]
                      \/ \E n \in T : p \in M[Texts[n]]
  BY <1>2, <1>3, <1>4, Zenon
<1>8. /\ \A n \in Named(e) \intersect DOMAIN Texts : M[Texts[n]] \subseteq M[e]
      /\ \A p \in M[e] : \/ p = e
                         \/ \E i \in 1..Len(Operands(e)) : p \in M[Operands(e)[i]]
                         \/ \E n \in Named(e) \intersect DOMAIN Texts : p \in M[Texts[n]]
  BY <1>6, <1>7, Zenon DEF T
<1>9. e \in Met[e] /\ \A i \in 1..Len(Operands(e)) : Met[Operands(e)[i]] \subseteq Met[e]
  BY <1>5 DEF M
<1>10. \A n \in Named(e) \intersect DOMAIN Texts : Met[Texts[n]] \subseteq Met[e] BY <1>8 DEF M
<1>11. \A p \in Met[e] : \/ p = e
                         \/ \E i \in 1..Len(Operands(e)) : p \in Met[Operands(e)[i]]
                         \/ \E n \in Named(e) \intersect DOMAIN Texts : p \in Met[Texts[n]]
  BY <1>8 DEF M
<1>12. QED BY <1>9, <1>10, <1>11, Zenon

LEMMA WarningsIs ==
  ASSUME NEW e \in Expression
  PROVE  /\ Missing(e) \subseteq Warnings(e)
         /\ \A i \in 1..Len(Operands(e)) : Warnings(Operands(e)[i]) \subseteq Warnings(e)
         /\ \A n \in Named(e) \intersect DOMAIN Texts : Warnings(Texts[n]) \subseteq Warnings(e)
         /\ \A w \in Warnings(e) :
              \/ w \in Missing(e)
              \/ \E i \in 1..Len(Operands(e)) : w \in Warnings(Operands(e)[i])
              \/ \E n \in Named(e) \intersect DOMAIN Texts : w \in Warnings(Texts[n])
<1>1. \A d : \A w : w \in Warnings(d) <=> \E p \in Met[d] : w \in Missing(p) BY DEF Warnings
<1>2. Missing(e) \subseteq Warnings(e) BY <1>1, MetIs
<1>3. ASSUME NEW d, Met[d] \subseteq Met[e] PROVE Warnings(d) \subseteq Warnings(e) BY <1>1, <1>3
<1>4. \A i \in 1..Len(Operands(e)) : Warnings(Operands(e)[i]) \subseteq Warnings(e) BY <1>3, MetIs
<1>5. \A n \in Named(e) \intersect DOMAIN Texts : Warnings(Texts[n]) \subseteq Warnings(e)
  BY <1>3, MetIs
<1>6. ASSUME NEW w \in Warnings(e)
      PROVE  \/ w \in Missing(e)
             \/ \E i \in 1..Len(Operands(e)) : w \in Warnings(Operands(e)[i])
             \/ \E n \in Named(e) \intersect DOMAIN Texts : w \in Warnings(Texts[n])
  <2>1. PICK p \in Met[e] : w \in Missing(p) BY <1>1
  <2>2. CASE p = e BY <2>1, <2>2
  <2>3. CASE \E i \in 1..Len(Operands(e)) : p \in Met[Operands(e)[i]] BY <1>1, <2>1, <2>3
  <2>4. CASE \E n \in Named(e) \intersect DOMAIN Texts : p \in Met[Texts[n]] BY <1>1, <2>1, <2>4
  <2>5. QED BY <2>1, <2>2, <2>3, <2>4, MetIs
<1>7. QED BY <1>2, <1>4, <1>5, <1>6

LEMMA QuotesUp ==
  ASSUME NEW e \in Expression
  PROVE  /\ e.op = "string" => Quotes(e)
         /\ \A i \in 1..Len(Operands(e)) : Quotes(Operands(e)[i]) => Quotes(e)
         /\ \A n \in Named(e) \intersect DOMAIN Texts : Quotes(Texts[n]) => Quotes(e)
BY MetIs DEF Quotes

LEMMA AllNodesIs == AllNodes \in Expression /\ Meaning[AllNodes] = AllNames
<1>1. AllNodes \in Expression /\ AllLiteral \in Expression
  BY TextsAssumption DEF TextsAssumption
<1>2. Meaning[AllLiteral] = {<<"all:CLUSTER">>} BY <1>1, MeaningIs DEF AllLiteral
<1>3. /\ AllNodes.op = "function" /\ AllNodes.fn = "cluster" /\ AllNodes.kids = <<AllLiteral>>
      /\ Len(AllNodes.kids) = 1 /\ AllNodes.kids[1] = AllLiteral
  BY DEF AllNodes
<1>4. Named(AllNodes) = {<<"all:CLUSTER">>} BY <1>2, <1>3 DEF Named, LooksUp
<1>5. Meaning[AllNodes] = UNION {TextOf(Meaning, n) : n \in Named(AllNodes)} BY <1>1, <1>3, MeaningIs
<1>6. QED BY <1>1, <1>4, <1>5 DEF AllNames

(* What is missing, by operation. *)
LEMMA MissingIs ==
  ASSUME NEW e \in Expression
  PROVE  /\ e.op = "unparsable" => Missing(e) = {"PARSE"}
         /\ e.op \in {"literal", "string", "parts", "nothing", "union", "not", "braces"} => Missing(e) = {}
         /\ e.op \in {"diff", "inter"} =>
              Missing(e) = IF RegexOperand(e) /\ e.kids[2].regex \in BadRegex THEN {"REGEX"} ELSE {}
         /\ e.op = "regex" => Missing(e) = IF e.regex \in BadRegex THEN {"REGEX"} ELSE {}
         /\ e.op = "function" /\ e.fn # "cluster" => Missing(e) = {"NO_FUNCTION"}
         /\ e.op = "function" /\ e.fn = "cluster" =>
              Missing(e) = IF Named(e) \subseteq DOMAIN Texts \union VipNames THEN {} ELSE {"NOCLUSTER"}
<1>1. e.op # "function" => Named(e) = {} BY DEF Named, LooksUp
<1>2. Patterns(e) = CASE e.op = "regex" -> {e.regex}
                      [] RegexOperand(e) -> {e.kids[2].regex}
                      [] OTHER -> {}
  BY DEF Patterns
<1>3. RegexOperand(e) => e.op \in {"diff", "inter"} BY DEF RegexOperand
<1>4. CASE e.op = "unparsable"
  <2>1. Patterns(e) = {} BY <1>2, <1>3, <1>4
  <2>2. QED BY <1>1, <1>4, <2>1 DEF Missing
<1>5. CASE e.op \in {"literal", "string", "parts", "nothing", "union", "not", "braces"}
  BY <1>1, <1>2, <1>3, <1>5 DEF Missing
<1>6. CASE e.op \in {"diff", "inter"}
  <2>1. Patterns(e) = IF RegexOperand(e) THEN {e.kids[2].regex} ELSE {} BY <1>2, <1>6
  <2>2. QED BY <1>1, <1>6, <2>1 DEF Missing
<1>7. CASE e.op = "regex"
  <2>1. Patterns(e) = {e.regex} BY <1>2, <1>3, <1>7
  <2>2. QED BY <1>1, <1>7, <2>1 DEF Missing
<1>8. CASE e.op = "function"
  <2>1. Patterns(e) = {} BY <1>2, <1>3, <1>8
  <2>2. Patterns(e) \intersect BadRegex = {} BY <2>1
  <2>3. CASE e.fn # "cluster"
    <3>1. Named(e) = {} BY <2>3 DEF Named, LooksUp
    <3>2. Missing(e) = {"NO_FUNCTION"} BY <1>8, <2>2, <2>3, <3>1 DEF Missing
    <3>3. QED BY <1>8, <2>3, <3>2
  <2>4. CASE e.fn = "cluster"
    <3>1. Missing(e) = IF Named(e) \subseteq DOMAIN Texts \union VipNames THEN {} ELSE {"NOCLUSTER"}
      BY <1>8, <2>2, <2>4 DEF Missing
    <3>2. QED BY <1>8, <2>4, <3>1
  <2>5. QED BY <2>3, <2>4
<1>9. QED BY <1>4, <1>5, <1>6, <1>7, <1>8

LEMMA PlainRange ==
  ASSUME NEW r
  PROVE  /\ ~r.quoted => Hostnames(r) = Nodes(r)
         /\ ~r.quoted => \A regex : Matches(regex, r) = Matching(regex, Nodes(r))
         /\ Factor(r) = OrEmpty(Nodes(r))
BY DEF Hostnames, Matches, Matching, Factor, OrEmpty

(***************************************************************************)
(* What each call knows.  The i-th range of a range_evaluate is the value  *)
(* of its i-th operand, and the last one of a function its own; what a     *)
(* rangefunc_cluster has collected, with what is coming from the text that *)
(* is evaluated for it, is what the names looked up so far stand for.      *)
(***************************************************************************)
Answers(f, nd, w) ==
  \A i \in 1..Len(f.vals) : /\ nd[f.vals[i].set] = Meaning[Due(f, i)]
                            /\ f.vals[i].quoted => Quotes(Due(f, i))
                            /\ Warnings(Due(f, i)) \subseteq w

Seen(f) == Named(f.expr) \ f.todo
TextWarnings(n) ==
  IF n \in DOMAIN Texts THEN Warnings(Texts[n]) ELSE IF n \in VipNames THEN {} ELSE {"NOCLUSTER"}

Collected(f, coming, nd) ==
  \A x : (\E n \in Seen(f) : x \in TextOf(Meaning, n))
           <=> \/ \E i \in 1..Len(f.vals) : x \in nd[f.vals[i].set]
               \/ \E e \in coming : x \in Meaning[e]
Told(f, coming, w) ==
  \A n \in Seen(f) : \A x \in TextWarnings(n) : x \in w \/ \E e \in coming : x \in Warnings(e)

Collects(f, coming, nd, w) ==
  /\ f.expr.op = "function" /\ f.expr.fn = "cluster" /\ f.todo \subseteq Named(f.expr)
  /\ \A i \in 1..Len(f.vals) : f.vals[i].quoted => Quotes(f.expr)
  /\ \A i \in 1..Len(Operands(f.expr)) : Warnings(Operands(f.expr)[i]) \subseteq w
  /\ Collected(f, coming, nd)
  /\ Told(f, coming, w)

FrameExact(f, coming, nd, w) ==
  IF f.at = "ast" THEN Answers(f, nd, w) ELSE Collects(f, coming, nd, w)
Coming(st, k) == IF k < Len(st) THEN {st[k + 1].expr} ELSE {}

(* Why the call g was made. *)
Linked(f, g) ==
  IF f.at = "ast" THEN g.expr = Due(f, Len(f.vals) + 1)
  ELSE \E n \in Seen(f) \intersect DOMAIN Texts : g.expr = Texts[n]

StackExact(st, nd, w, q) ==
  /\ \A k \in 1..Len(st) : FrameExact(st[k], Coming(st, k), nd, w)
  /\ \A k \in 1..Len(st) : Met[st[k].expr] \subseteq Met[q]
  /\ \A k \in 1..Len(st) - 1 : Linked(st[k], st[k + 1])
  /\ st[1].expr = q

ExactInv == ~Exposed =>
  /\ stack # <<>> => StackExact(stack, nodes, warned, query) /\ warned \subseteq Warnings(query)
  /\ Answered => Value = Meaning[query] /\ warned = Warnings(query)

LEMMA FrameStays ==
  ASSUME NEW f, NEW coming, NEW nd, NEW w, FrameExact(f, coming, nd, w), NEW nd2, NEW w2, w \subseteq w2,
         \A i \in 1..Len(f.vals) : nd2[f.vals[i].set] = nd[f.vals[i].set]
  PROVE  FrameExact(f, coming, nd2, w2)
<1>1. CASE f.at = "ast" BY <1>1 DEF FrameExact, Answers
<1>2. CASE f.at # "ast"
  <2>1. Collects(f, coming, nd, w) BY <1>2 DEF FrameExact
  <2>2. Collected(f, coming, nd2) BY <2>1 DEF Collects, Collected
  <2>3. Told(f, coming, w2) BY <2>1 DEF Collects, Told
  <2>4. Collects(f, coming, nd2, w2) BY <2>1, <2>2, <2>3 DEF Collects
  <2>5. QED BY <1>2, <2>4 DEF FrameExact
<1>3. QED BY <1>1, <1>2

(* The calls below the top keep what they know when a step leaves their    *)
(* sets alone and they still wait for the same expression.                 *)
LEMMA BelowExact ==
  ASSUME TypeInv, StackExact(stack, nodes, warned, query), warned \subseteq warned',
         \A s \in Below : nodes'[s] = nodes[s],
         NEW st, NEW k \in 1..Len(stack) - 1, k + 1 \in 1..Len(st), Len(st) \in Nat,
         st[k] = stack[k], st[k + 1].expr = stack[k + 1].expr
  PROVE  FrameExact(st[k], Coming(st, k), nodes', warned')
<1>1. Len(stack) \in Nat BY DEF TypeInv, StackOK
<1>2. Coming(st, k) = Coming(stack, k) BY <1>1 DEF Coming
<1>3. FrameExact(stack[k], Coming(stack, k), nodes, warned) BY <1>1 DEF StackExact
<1>4. \A i \in 1..Len(stack[k].vals) : nodes'[stack[k].vals[i].set] = nodes[stack[k].vals[i].set]
  BY BelowIs
<1>5. QED BY <1>2, <1>3, <1>4, FrameStays

(* A call that returns gives the one below what it waits for. *)
LEMMA TakesAnswer ==
  ASSUME NEW n \in Nat, NEW f \in FrameIn(n), NEW g, Linked(f, g), NEW nd, NEW w,
         FrameExact(f, {g.expr}, nd, w), NEW nd2, NEW w2, w \subseteq w2,
         \A i \in 1..Len(f.vals) : nd2[f.vals[i].set] = nd[f.vals[i].set],
         NEW r, nd2[r.set] = Meaning[g.expr], r.quoted => Quotes(g.expr), Warnings(g.expr) \subseteq w2,
         NEW h, h.at = f.at, h.expr = f.expr, h.todo = f.todo, h.vals = Append(f.vals, r)
  PROVE  FrameExact(h, {}, nd2, w2)
<1> DEFINE e == g.expr  v == h.vals
<1>1. f.vals \in Seq(Ranges(n)) /\ f.expr \in Expression BY DEF FrameIn
<1>2. /\ Len(f.vals) \in Nat /\ Len(v) = Len(f.vals) + 1 /\ v[Len(f.vals) + 1] = r
      /\ \A i \in 1..Len(f.vals) : v[i] = f.vals[i]
  BY <1>1
<1>3. FrameExact(f, {e}, nd2, w2) BY FrameStays
<1>4. \A i \in 1..Len(v) : i \in 1..Len(f.vals) \/ i = Len(f.vals) + 1 BY <1>2
<1>5. \A i : Due(h, i) = Due(f, i) BY DEF Due
<1>6. CASE f.at = "ast"
  <2>1. Answers(f, nd2, w2) /\ e = Due(f, Len(f.vals) + 1) BY <1>3, <1>6 DEF FrameExact, Linked
  <2>2. ASSUME NEW i \in 1..Len(v)
        PROVE  /\ nd2[v[i].set] = Meaning[Due(f, i)]
               /\ v[i].quoted => Quotes(Due(f, i))
               /\ Warnings(Due(f, i)) \subseteq w2
    <3>1. CASE i \in 1..Len(f.vals) BY <1>2, <2>1, <3>1 DEF Answers
    <3>2. CASE i = Len(f.vals) + 1 BY <1>2, <2>1, <3>2
    <3>3. QED BY <1>4, <3>1, <3>2
  <2>3. Answers(h, nd2, w2) BY <1>5, <2>2 DEF Answers
  <2>4. QED BY <1>6, <2>3 DEF FrameExact
<1>7. CASE f.at # "ast"
  <2>1. Collects(f, {e}, nd2, w2) BY <1>3, <1>7 DEF FrameExact
  <2>2. PICK n0 \in Seen(f) \intersect DOMAIN Texts : e = Texts[n0] BY <1>7 DEF Linked
  <2>3. n0 \in Named(f.expr) \intersect DOMAIN Texts BY <2>2 DEF Seen
  <2>4. Quotes(e) => Quotes(f.expr) BY <1>1, <2>2, <2>3, QuotesUp
  <2>5. \A i \in 1..Len(v) : v[i].quoted => Quotes(f.expr) BY <1>2, <1>4, <2>1, <2>4 DEF Collects
  <2>6. Seen(h) = Seen(f) BY DEF Seen
  <2>7. Collected(h, {}, nd2)
    <3>1. ASSUME NEW x
          PROVE  (\E n1 \in Seen(f) : x \in TextOf(Meaning, n1)) <=> \E i \in 1..Len(v) : x \in nd2[v[i].set]
      <4>1. (\E n1 \in Seen(f) : x \in TextOf(Meaning, n1))
              <=> (\E i \in 1..Len(f.vals) : x \in nd2[f.vals[i].set]) \/ x \in Meaning[e]
        BY <2>1 DEF Collects, Collected
      <4>2. (\E i \in 1..Len(v) : x \in nd2[v[i].set])
              <=> (\E i \in 1..Len(f.vals) : x \in nd2[f.vals[i].set]) \/ x \in nd2[r.set]
        <5>1. ASSUME NEW i \in 1..Len(f.vals) PROVE i \in 1..Len(v) /\ v[i] = f.vals[i] BY <1>2
        <5>2. Len(f.vals) + 1 \in 1..Len(v) BY <1>2
        <5>3. QED BY <1>2, <1>4, <5>1, <5>2
      <4>3. QED BY <4>1, <4>2
    <3>2. QED BY <2>6, <3>1 DEF Collected
  <2>8. Told(h, {}, w2) BY <2>1, <2>6 DEF Collects, Told
  <2>9. Collects(h, {}, nd2, w2) BY <2>1, <2>5, <2>7, <2>8 DEF Collects
  <2>10. QED BY <1>7, <2>9 DEF FrameExact
<1>8. QED BY <1>6, <1>7

LEMMA ReturnExact ==
  ASSUME TypeInv, ExactInv, stack # <<>>, NEW m \in Nat, N <= m, NEW r \in Ranges(m), Return(r),
         query' = query, \A s \in Below : nodes'[s] = nodes[s],
         ~Exposed => /\ nodes'[r.set] = Meaning[Top.expr]
                     /\ r.quoted => Quotes(Top.expr)
                     /\ Warnings(Top.expr) \subseteq warned'
                     /\ warned \subseteq warned' /\ warned' \subseteq Warnings(query)
  PROVE  ExactInv'
<1> DEFINE K == Len(stack) - 1
<1>1. /\ Len(stack') = Len(stack) - 1 /\ Len(stack) \in Nat \ {0}
      /\ stack' = <<>> => rr_r' = <<r>>
      /\ stack' # <<>> => /\ Len(stack) > 1 
                          /\ \A k \in 1..Len(stack) - 2 : stack'[k] = stack[k]
                          /\ stack'[K] = [stack[K] EXCEPT !.vals = Append(stack[K].vals, r)]
  BY ReturnStack
<1>2. Len(stack) = K + 1 /\ K \in Nat BY <1>1
<1> HIDE DEF K
<1>3. Exposed' = Exposed BY DEF Exposed
<1>4. SUFFICES ASSUME ~Exposed
               PROVE  /\ stack' # <<>> => /\ StackExact(stack', nodes', warned', query)
                                          /\ warned' \subseteq Warnings(query)
                      /\ Answered' => Value' = Meaning[query] /\ warned' = Warnings(query)
  BY <1>3 DEF ExactInv
<1>5. /\ StackExact(stack, nodes, warned, query) /\ Top = stack[K + 1]
      /\ nodes'[r.set] = Meaning[Top.expr]
      /\ r.quoted => Quotes(Top.expr)
      /\ Warnings(Top.expr) \subseteq warned'
      /\ warned \subseteq warned' /\ warned' \subseteq Warnings(query)
  BY <1>2, <1>4 DEF ExactInv, Top
<1>6. CASE stack' = <<>>
  <2>1. K = 0 /\ rr_r' = <<r>> BY <1>1, <1>2, <1>6
  <2>2. Top.expr = query BY <1>5, <2>1 DEF StackExact
  <2>3. rr_r'[1] = r BY <2>1
  <2>4. Value' = Meaning[query]
    <3>1. Value' = nodes'[rr_r'[1].set] BY DEF Value, Nodes
    <3>2. QED BY <1>5, <2>2, <2>3, <3>1
  <2>5. warned' = Warnings(query) BY <1>5, <2>2
  <2>6. QED BY <1>6, <2>4, <2>5
<1>7. CASE stack' # <<>>
  <2>1. /\ K \in 1..Len(stack) - 1 /\ K \in 1..Len(stack) /\ Len(stack') = K /\ K + 1 \in 1..Len(stack)
        /\ \A k \in 1..K - 1 : stack'[k] = stack[k]
    BY <1>1, <1>2, <1>7
  <2>2. stack[K] \in FrameIn(N) /\ Top.expr \in Expression /\ N \in Nat
    BY <2>1, TopFrame DEF TypeInv, StackOK
  <2>3. /\ stack'[K].at = stack[K].at /\ stack'[K].expr = stack[K].expr
        /\ stack'[K].todo = stack[K].todo /\ stack'[K].vals = Append(stack[K].vals, r)
    BY <1>1, <1>7, <2>2 DEF FrameIn
  <2>4. FrameExact(stack[K], {Top.expr}, nodes, warned) /\ Linked(stack[K], Top)
    <3>1. Coming(stack, K) = {Top.expr} BY <1>2, <1>5 DEF Coming
    <3>2. QED BY <1>2, <1>5, <2>1, <3>1 DEF StackExact
  <2>5. \A i \in 1..Len(stack[K].vals) : nodes'[stack[K].vals[i].set] = nodes[stack[K].vals[i].set]
    BY <2>1, BelowIs
  <2>6. FrameExact(stack'[K], {}, nodes', warned')
    <3> DEFINE f == stack[K]  h == stack'[K]  nd == nodes'  w == warned'
    <3>1. f \in FrameIn(N) /\ N \in Nat /\ FrameExact(f, {Top.expr}, nodes, warned)
      BY <2>2, <2>4
    <3>2. /\ warned \subseteq w /\ nd[r.set] = Meaning[Top.expr]
          /\ r.quoted => Quotes(Top.expr)
          /\ Warnings(Top.expr) \subseteq w /\ Linked(f, Top)
      BY <1>5, <2>4
    <3>3. \A i \in 1..Len(f.vals) : nd[f.vals[i].set] = nodes[f.vals[i].set] BY <2>5
    <3>4. h.at = f.at /\ h.expr = f.expr /\ h.todo = f.todo /\ h.vals = Append(f.vals, r)
      BY <2>3
    <3> HIDE DEF f, h, nd, w
    <3>5. FrameExact(h, {}, nd, w) BY <3>1, <3>2, <3>3, <3>4, TakesAnswer
    <3>6. QED BY <3>5 DEF h, nd, w
  <2>7. ASSUME NEW k \in 1..K PROVE FrameExact(stack'[k], Coming(stack', k), nodes', warned')
    <3>1. CASE k = K BY <2>1, <2>6, <3>1 DEF Coming
    <3>2. CASE k # K
      <4>1. k \in 1..Len(stack) - 1 /\ k \in 1..K - 1 /\ k + 1 \in 1..Len(stack') /\ Len(stack') \in Nat
        BY <1>2, <2>1, <3>2
      <4>2. stack'[k] = stack[k] /\ stack'[k + 1].expr = stack[k + 1].expr
        BY <2>1, <2>3, <4>1
      <4>3. QED BY <1>5, <4>1, <4>2, BelowExact
    <3>3. QED BY <3>1, <3>2
  <2>8. \A k \in 1..K : stack'[k].expr = stack[k].expr /\ stack'[k].at = stack[k].at BY <2>1, <2>3
  <2>9. \A k \in 1..K : Met[stack'[k].expr] \subseteq Met[query] BY <1>2, <1>5, <2>8 DEF StackExact
  <2>10. ASSUME NEW k \in 1..K - 1 PROVE Linked(stack'[k], stack'[k + 1])
    <3>1. stack'[k] = stack[k] /\ stack'[k + 1].expr = stack[k + 1].expr BY <2>1, <2>8
    <3>2. Linked(stack[k], stack[k + 1]) BY <1>2, <1>5 DEF StackExact
    <3>3. QED BY <3>1, <3>2 DEF Linked
  <2>11. stack'[1].expr = query BY <1>5, <2>1, <2>8 DEF StackExact
  <2>12. StackExact(stack', nodes', warned', query)
    BY <2>1, <2>7, <2>9, <2>10, <2>11 DEF StackExact
  <2>13. QED BY <1>5, <1>7, <2>12 DEF Answered
<1>8. QED BY <1>6, <1>7

(* The top changes, or calls: the calls below it wait as they did. *)
LEMMA TopExact ==
  ASSUME TypeInv, ExactInv, stack # <<>>, query' = query, stack' # <<>>,
         NEW st, Len(st) = Len(stack), \A k \in 1..Len(stack) - 1 : st[k] = stack[k],
         st[Len(stack)].expr = Top.expr,
         \/ stack' = st
         \/ /\ Len(stack') = Len(stack) + 1
            /\ \A k \in 1..Len(stack) : stack'[k] = st[k]
            /\ ~Exposed => /\ FrameExact(stack'[Len(stack) + 1], {}, nodes', warned')
                           /\ Met[stack'[Len(stack) + 1].expr] \subseteq Met[query]
                           /\ Linked(st[Len(stack)], stack'[Len(stack) + 1]),
         \A s \in Below : nodes'[s] = nodes[s],
         ~Exposed => /\ FrameExact(st[Len(stack)], Coming(stack', Len(stack)), nodes', warned')
                     /\ warned \subseteq warned' /\ warned' \subseteq Warnings(query)
  PROVE  ExactInv'
<1> DEFINE K == Len(stack)
<1>1. K \in Nat \ {0} BY TopFrame
<1>2. Exposed' = Exposed BY DEF Exposed
<1>3. SUFFICES ASSUME ~Exposed PROVE StackExact(stack', nodes', warned', query)
  BY <1>2 DEF ExactInv, Answered
<1>4. StackExact(stack, nodes, warned, query) /\ Top = stack[K] /\ warned \subseteq warned'
  BY <1>3 DEF ExactInv, Top
<1>5. /\ Len(stack') \in {K, K + 1} /\ \A k \in 1..K : stack'[k] = st[k]
      /\ Len(stack') = K + 1 => /\ FrameExact(stack'[K + 1], {}, nodes', warned')
                                /\ Met[stack'[K + 1].expr] \subseteq Met[query]
                                /\ Linked(st[K], stack'[K + 1])
  <2>1. CASE stack' = st BY <1>1, <2>1
  <2>2. CASE stack' # st BY <1>1, <1>3, <2>2
  <2>3. QED BY <2>1, <2>2
<1>6. FrameExact(st[K], Coming(stack', K), nodes', warned') BY <1>3
<1> HIDE DEF K
<1>7. \A k \in 1..K - 1 : stack'[k] = stack[k] BY <1>1, <1>5 DEF K
<1>8. stack'[K] = st[K] /\ stack'[K].expr = Top.expr BY <1>1, <1>5 DEF K
<1>9. \A k \in 1..Len(stack') : k \in 1..K - 1 \/ k = K \/ (k = K + 1 /\ Len(stack') = K + 1)
  BY <1>1, <1>5
<1>10. ASSUME NEW k \in 1..Len(stack') PROVE FrameExact(stack'[k], Coming(stack', k), nodes', warned')
  <2>1. CASE k \in 1..K - 1
    <3>1. k + 1 \in 1..Len(stack') /\ Len(stack') \in Nat /\ k \in 1..Len(stack) - 1
      BY <1>1, <1>5, <2>1 DEF K
    <3>2. stack'[k] = stack[k] /\ stack'[k + 1].expr = stack[k + 1].expr
      <4>1. CASE k + 1 = K BY <1>4, <1>7, <1>8, <2>1, <4>1
      <4>2. CASE k + 1 # K BY <1>1, <1>7, <2>1, <4>2
      <4>3. QED BY <4>1, <4>2
    <3>3. QED BY <1>4, <3>1, <3>2, BelowExact
  <2>2. CASE k = K BY <1>6, <1>8, <2>2
  <2>3. CASE k = K + 1 /\ Len(stack') = K + 1
    <3>1. Coming(stack', k) = {} BY <1>1, <2>3 DEF Coming
    <3>2. QED BY <1>5, <2>3, <3>1
  <2>4. QED BY <1>9, <2>1, <2>2, <2>3
<1>11. ASSUME NEW k \in 1..Len(stack') PROVE Met[stack'[k].expr] \subseteq Met[query]
  <2>1. \A l \in 1..K : Met[stack[l].expr] \subseteq Met[query] BY <1>4 DEF StackExact, K
  <2>2. CASE k \in 1..K - 1 BY <1>1, <1>7, <2>1, <2>2
  <2>3. CASE k = K BY <1>1, <1>4, <1>8, <2>1, <2>3
  <2>4. CASE k = K + 1 /\ Len(stack') = K + 1 BY <1>5, <2>4
  <2>5. QED BY <1>9, <2>2, <2>3, <2>4
<1>12. ASSUME NEW k \in 1..Len(stack') - 1 PROVE Linked(stack'[k], stack'[k + 1])
  <2>1. \A l \in 1..K - 1 : Linked(stack[l], stack[l + 1]) BY <1>4 DEF StackExact, K
  <2>2. CASE k = K BY <1>1, <1>5, <1>8, <2>2
  <2>3. CASE k # K
    <3>1. k \in 1..K - 1 BY <1>1, <1>5, <2>3
    <3>2. stack'[k + 1].expr = stack[k + 1].expr
      <4>1. CASE k + 1 = K BY <1>4, <1>8, <4>1
      <4>2. CASE k + 1 # K BY <1>1, <1>7, <3>1, <4>2
      <4>3. QED BY <4>1, <4>2
    <3>3. Linked(stack[k], stack[k + 1]) /\ stack'[k] = stack[k] BY <1>7, <2>1, <3>1
    <3>4. QED BY <3>2, <3>3 DEF Linked
  <2>4. QED BY <2>2, <2>3
<1>13. stack'[1].expr = query
  <2>1. stack[1].expr = query BY <1>4 DEF StackExact
  <2>2. CASE K = 1 BY <1>4, <1>8, <2>1, <2>2
  <2>3. CASE K # 1 BY <1>1, <1>7, <2>1, <2>3
  <2>4. QED BY <2>2, <2>3
<1>14. QED BY <1>10, <1>11, <1>12, <1>13 DEF StackExact

(***************************************************************************)
(* What a step knows and what it does to the sets.                         *)
(***************************************************************************)
LEMMA WarnsWithin ==
  ASSUME NEW d, NEW e, Met[d] \subseteq Met[e]
  PROVE  Warnings(d) \subseteq Warnings(e)
<1>1. \A f : \A w : w \in Warnings(f) <=> \E p \in Met[f] : w \in Missing(p) BY DEF Warnings
<1>2. QED BY <1>1

LEMMA TopKnows ==
  ASSUME TypeInv, ExactInv, stack # <<>>, ~Exposed
  PROVE  /\ FrameExact(Top, {}, nodes, warned)
         /\ Met[Top.expr] \subseteq Met[query] /\ ~SeesQuotes(Top.expr)
         /\ warned \subseteq Warnings(query) /\ Warnings(Top.expr) \subseteq Warnings(query)
         /\ Missing(Top.expr) \subseteq Warnings(query)
<1>1. Len(stack) \in Nat \ {0} /\ Top.expr \in Expression BY TopFrame
<1>2. StackExact(stack, nodes, warned, query) /\ warned \subseteq Warnings(query) BY DEF ExactInv
<1>3. Coming(stack, Len(stack)) = {} BY <1>1 DEF Coming
<1>4. Len(stack) \in 1..Len(stack) BY <1>1
<1>5. FrameExact(Top, {}, nodes, warned) BY <1>2, <1>3, <1>4 DEF StackExact, Top
<1>6. Met[Top.expr] \subseteq Met[query] BY <1>2, <1>4 DEF StackExact, Top
<1>7. Top.expr \in Met[query] BY <1>1, <1>6, MetIs
<1>8. ~SeesQuotes(Top.expr) BY <1>7 DEF Exposed
<1>9. Warnings(Top.expr) \subseteq Warnings(query) BY <1>6, WarnsWithin
<1>10. Missing(Top.expr) \subseteq Warnings(query) BY <1>1, <1>9, WarningsIs
<1>11. QED BY <1>2, <1>5, <1>6, <1>8, <1>9, <1>10

LEMMA OperandsAre ==
  ASSUME NEW e \in Expression
  PROVE  /\ e.op \in {"union", "braces", "function"} => Operands(e) = e.kids
         /\ e.op \in {"diff", "inter"} => /\ Operands(e)[1] = e.kids[1]
                                          /\ ~RegexOperand(e) => Operands(e)[2] = e.kids[2]
         /\ e.op = "not" => Operands(e)[1] = AllNodes /\ Operands(e)[2] = e.kids[1]
         /\ e.op = "regex" => Operands(e)[1] = AllNodes
<1>1. CASE e.op \in {"union", "braces", "function"} BY <1>1 DEF Operands
<1>2. CASE e.op \in {"diff", "inter"}
  <2>1. Operands(e) = IF RegexOperand(e) THEN <<e.kids[1]>> ELSE e.kids BY <1>2 DEF Operands
  <2>2. QED BY <1>2, <2>1
<1>3. CASE e.op = "not"
  <2>1. Operands(e) = <<AllNodes, e.kids[1]>> BY <1>3 DEF Operands
  <2>2. QED BY <1>3, <2>1
<1>4. CASE e.op = "regex"
  <2>1. Operands(e) = <<AllNodes>> BY <1>4 DEF Operands
  <2>2. QED BY <1>4, <2>1
<1>5. CASE e.op \notin {"union", "braces", "function", "diff", "inter", "not", "regex"} BY <1>5
<1>6. QED BY <1>1, <1>2, <1>3, <1>4, <1>5

LEMMA ReadyKnows ==
  ASSUME TypeInv, ExactInv, NEW op, Ready(op), ~Exposed
  PROVE  /\ \A i \in 1..Len(Vals) : /\ Nodes(Vals[i]) = Meaning[Operands(Top.expr)[i]]
                                    /\ Vals[i].quoted => Quotes(Operands(Top.expr)[i])
                                    /\ Vals[i].quoted => Quotes(Top.expr)
                                    /\ Warnings(Operands(Top.expr)[i]) \subseteq warned
         /\ op # "function" => Warnings(Top.expr) \subseteq warned \union Missing(Top.expr)
         /\ warned \union Missing(Top.expr) \subseteq Warnings(query)
<1>1. /\ stack # <<>> /\ Top.at = "ast" /\ Top.expr.op = op /\ Len(Vals) = Len(Operands(Top.expr))
      /\ Top.expr \in Expression /\ Len(Vals) \in Nat
  BY TopFrame DEF Ready, Evaluating
<1>2. Answers(Top, nodes, warned) BY <1>1, TopKnows DEF FrameExact
<1>3. \A i \in 1..Len(Vals) : Due(Top, i) = Operands(Top.expr)[i] BY <1>1 DEF Due
<1>4. \A i \in 1..Len(Vals) : /\ Nodes(Vals[i]) = Meaning[Operands(Top.expr)[i]]
                              /\ Vals[i].quoted => Quotes(Operands(Top.expr)[i])
                              /\ Warnings(Operands(Top.expr)[i]) \subseteq warned
  BY <1>2, <1>3 DEF Answers, Nodes, Vals
<1>5. \A i \in 1..Len(Vals) : Vals[i].quoted => Quotes(Top.expr) BY <1>1, <1>4, QuotesUp
<1>6. ASSUME op # "function" PROVE Warnings(Top.expr) \subseteq warned \union Missing(Top.expr)
  <2>1. Named(Top.expr) = {} BY <1>1, <1>6 DEF Named, LooksUp
  <2>2. QED BY <1>1, <1>4, <2>1, WarningsIs
<1>7. QED BY <1>1, <1>4, <1>5, <1>6, TopKnows

LEMMA ReturnNewExact ==
  ASSUME TypeInv, OwnInv, ExactInv, stack # <<>>, query' = query,
         NEW names, NEW q \in BOOLEAN, NEW D, ReturnNew(names, q, D),
         ~Exposed => /\ names = Meaning[Top.expr]
                     /\ q => Quotes(Top.expr)
                     /\ Warnings(Top.expr) \subseteq warned'
                     /\ warned \subseteq warned' /\ warned' \subseteq Warnings(query)
  PROVE  ExactInv'
<1> DEFINE r == RangeOf(Fresh, q)
<1>1. nodes' = Append(nodes, names) /\ Return(r) BY DEF ReturnNew, Allocate
<1>2. N \in Nat /\ Fresh = N + 1 BY TopFrame DEF Fresh, N
<1>3. r \in Ranges(N + 1) /\ r.set = Fresh /\ r.quoted = q BY <1>2 DEF RangeOf, Ranges
<1>4. (\A s \in Below : nodes'[s] = nodes[s]) /\ nodes'[r.set] = names BY <1>1, <1>3, SetsStay
<1> HIDE DEF r
<1>5. N + 1 \in Nat /\ N <= N + 1 BY <1>2
<1>6. ~Exposed => /\ nodes'[r.set] = Meaning[Top.expr]
                  /\ r.quoted => Quotes(Top.expr)
                  /\ Warnings(Top.expr) \subseteq warned'
                  /\ warned \subseteq warned' /\ warned' \subseteq Warnings(query)
  BY <1>3, <1>4
<1>7. Return(r) BY <1>1 DEF r
<1>8. QED BY <1>3, <1>4, <1>5, <1>6, <1>7, ReturnExact

LEMMA ReturnHeldExact ==
  ASSUME TypeInv, OwnInv, ExactInv, stack # <<>>, query' = query,
         NEW i \in 1..Len(Vals), Return(Vals[i]),
         \A s \in Below : nodes'[s] = nodes[s],
         ~Exposed => /\ nodes'[Vals[i].set] = Meaning[Top.expr]
                     /\ Vals[i].quoted => Quotes(Top.expr)
                     /\ Warnings(Top.expr) \subseteq warned'
                     /\ warned \subseteq warned' /\ warned' \subseteq Warnings(query)
  PROVE  ExactInv'
<1>1. N \in Nat /\ Vals[i] \in Ranges(N) BY TopFrame
<1>2. QED BY <1>1, ReturnExact

(* The range a pattern or a look-up is given is not quoted. *)
LEMMA PlainFirst ==
  ASSUME TypeInv, ExactInv, NEW op, Ready(op), ~Exposed, 1 \in 1..Len(Vals),
         op = "regex" \/ RegexOperand(Top.expr) \/ LooksUp(Top.expr)
  PROVE  /\ ~Vals[1].quoted /\ Hostnames(Vals[1]) = Meaning[Operands(Top.expr)[1]]
         /\ \A regex : Matches(regex, Vals[1]) = Matching(regex, Meaning[Operands(Top.expr)[1]])
<1>1. stack # <<>> /\ Top.expr.op = op BY ReadyOperands
<1>2. CASE op = "regex" \/ RegexOperand(Top.expr)
  <2>1. Patterns(Top.expr) # {}
    <3>1. CASE op = "regex"
      <4>1. ~RegexOperand(Top.expr) BY <1>1, <3>1 DEF RegexOperand
      <4>2. Patterns(Top.expr) = {Top.expr.regex} BY <1>1, <3>1, <4>1 DEF Patterns
      <4>3. QED BY <4>2
    <3>2. CASE RegexOperand(Top.expr)
      <4>1. Top.expr.op # "regex" BY <3>2 DEF RegexOperand
      <4>2. Patterns(Top.expr) = {Top.expr.kids[2].regex} BY <3>2, <4>1 DEF Patterns
      <4>3. QED BY <4>2
    <3>3. QED BY <1>2, <3>1, <3>2
  <2>2. ~Quotes(Operands(Top.expr)[1]) BY <1>1, <2>1, TopKnows DEF SeesQuotes
  <2>3. QED BY <2>2, ReadyKnows, PlainRange
<1>3. CASE LooksUp(Top.expr)
  <2>1. ~Quotes(Operands(Top.expr)[1]) BY <1>1, <1>3, TopKnows DEF SeesQuotes
  <2>2. QED BY <2>1, ReadyKnows, PlainRange
<1>4. QED BY <1>2, <1>3

(***************************************************************************)
(* The actions, one lemma each.                                            *)
(***************************************************************************)
Holding == Sparing /\ ExactInv

LEMMA LeafExact ==
  Holding /\ (Literal \/ NonrangeLiteral \/ Parts \/ Nothing \/ Unparsable) => ExactInv'
<1> SUFFICES ASSUME TypeInv, OwnInv, ExactInv,
                    Literal \/ NonrangeLiteral \/ Parts \/ Nothing \/ Unparsable
             PROVE  ExactInv'
  BY DEF Holding, Sparing
<1>1. PICK op \in {"literal", "string", "parts", "nothing", "unparsable"} :
        /\ Ready(op) /\ query' = query
        /\ \/ op = "literal" /\ Literal
           \/ op = "string" /\ NonrangeLiteral
           \/ op = "parts" /\ Parts
           \/ op = "nothing" /\ Nothing
           \/ op = "unparsable" /\ Unparsable
  BY DEF Literal, NonrangeLiteral, Parts, Nothing, Unparsable
<1>2. stack # <<>> /\ Top.expr.op = op BY <1>1, ReadyOperands
<1>3. Top.expr \in Expression BY <1>2, TopFrame
<1>4. warned' = warned \union Missing(Top.expr)
  BY <1>1, <1>2, <1>3, MissingIs DEF Literal, NonrangeLiteral, Parts, Nothing, Unparsable, Warn
<1>5. ~Exposed => /\ Warnings(Top.expr) \subseteq warned'
                  /\ warned \subseteq warned' /\ warned' \subseteq Warnings(query)
  BY <1>1, <1>2, <1>4, ReadyKnows
<1>6. ReturnNew(Meaning[Top.expr], op = "string", {})
  BY <1>1, <1>2, <1>3, MeaningIs DEF Literal, NonrangeLiteral, Parts, Nothing, Unparsable
<1>7. op = "string" => Quotes(Top.expr) BY <1>2, <1>3, QuotesUp
<1>8. (op = "string") \in BOOLEAN OBVIOUS
<1>9. QED BY <1>1, <1>2, <1>5, <1>6, <1>7, <1>8, ReturnNewExact

LEMMA UnionExact == Holding /\ Union => ExactInv'
<1> SUFFICES ASSUME TypeInv, OwnInv, ExactInv, Union PROVE ExactInv' BY DEF Holding, Sparing
<1>1. /\ Ready("union") /\ stack # <<>> /\ 1 \in 1..Len(Vals) /\ 2 \in 1..Len(Vals)
      /\ Top.expr.op = "union" /\ query' = query /\ warned' = warned /\ Top.expr \in Expression
  BY ReadyOperands, TopFrame DEF Union
<1>2. PICK i \in {1, 2}, j \in {1, 2} : i # j /\ Merge(Vals[i], Vals[j]) /\ Return(Vals[i])
  BY DEF Union
<1>3. i \in 1..Len(Vals) /\ j \in 1..Len(Vals) BY <1>1, <1>2
<1>4. nodes' = [nodes EXCEPT ![Vals[i].set] = Nodes(Vals[i]) \union Nodes(Vals[j])]
  BY <1>2 DEF Merge, Nodes
<1>5. /\ \A s \in Below : nodes'[s] = nodes[s]
      /\ nodes'[Vals[i].set] = Nodes(Vals[i]) \union Nodes(Vals[j])
  BY <1>1, <1>3, <1>4, SetsStay
<1>6. ASSUME ~Exposed
      PROVE  /\ nodes'[Vals[i].set] = Meaning[Top.expr]
             /\ Vals[i].quoted => Quotes(Top.expr)
             /\ Warnings(Top.expr) \subseteq warned'
             /\ warned \subseteq warned' /\ warned' \subseteq Warnings(query)
  <2>1. /\ \A l \in 1..Len(Vals) : /\ Nodes(Vals[l]) = Meaning[Operands(Top.expr)[l]]
                                   /\ Vals[l].quoted => Quotes(Top.expr)
        /\ Warnings(Top.expr) \subseteq warned \union Missing(Top.expr)
        /\ warned \union Missing(Top.expr) \subseteq Warnings(query)
    BY <1>1, <1>6, ReadyKnows
  <2>2. Missing(Top.expr) = {} /\ Operands(Top.expr) = Top.expr.kids BY <1>1, MissingIs, OperandsAre
  <2>3. Meaning[Top.expr] = Meaning[Top.expr.kids[1]] \union Meaning[Top.expr.kids[2]]
    BY <1>1, MeaningIs
  <2>4. /\ Nodes(Vals[1]) = Meaning[Top.expr.kids[1]]
        /\ Nodes(Vals[2]) = Meaning[Top.expr.kids[2]]
    BY <1>1, <2>1, <2>2
  <2>5. Nodes(Vals[i]) \union Nodes(Vals[j]) = Meaning[Top.expr] BY <1>2, <2>3, <2>4
  <2>6. QED BY <1>1, <1>3, <1>5, <2>1, <2>2, <2>5
<1>7. QED BY <1>1, <1>2, <1>3, <1>5, <1>6, ReturnHeldExact

LEMMA NotExact == Holding /\ Not => ExactInv'
<1> SUFFICES ASSUME TypeInv, OwnInv, ExactInv, Not PROVE ExactInv' BY DEF Holding, Sparing
<1>1. /\ Ready("not") /\ stack # <<>> /\ 1 \in 1..Len(Vals) /\ 2 \in 1..Len(Vals)
      /\ Top.expr.op = "not" /\ query' = query /\ warned' = warned /\ Top.expr \in Expression
  BY ReadyOperands, TopFrame DEF Not
<1>2. /\ nodes' = [nodes EXCEPT ![Vals[1].set] = Nodes(Vals[1]) \ Nodes(Vals[2])]
      /\ Return(Vals[1])
  BY DEF Not, Nodes
<1>3. /\ \A s \in Below : nodes'[s] = nodes[s]
      /\ nodes'[Vals[1].set] = Nodes(Vals[1]) \ Nodes(Vals[2])
  BY <1>1, <1>2, SetsStay
<1>4. ASSUME ~Exposed
      PROVE  /\ nodes'[Vals[1].set] = Meaning[Top.expr]
             /\ Vals[1].quoted => Quotes(Top.expr)
             /\ Warnings(Top.expr) \subseteq warned'
             /\ warned \subseteq warned' /\ warned' \subseteq Warnings(query)
  <2>1. /\ \A l \in 1..Len(Vals) : /\ Nodes(Vals[l]) = Meaning[Operands(Top.expr)[l]]
                                   /\ Vals[l].quoted => Quotes(Top.expr)
        /\ Warnings(Top.expr) \subseteq warned \union Missing(Top.expr)
        /\ warned \union Missing(Top.expr) \subseteq Warnings(query)
    BY <1>1, <1>4, ReadyKnows
  <2>2. Missing(Top.expr) = {} BY <1>1, MissingIs
  <2>3. Nodes(Vals[1]) = AllNames /\ Nodes(Vals[2]) = Meaning[Top.expr.kids[1]]
    BY <1>1, <2>1, OperandsAre, AllNodesIs
  <2>4. Meaning[Top.expr] = AllNames \ Meaning[Top.expr.kids[1]] BY <1>1, MeaningIs
  <2>5. QED BY <1>1, <1>3, <2>1, <2>2, <2>3, <2>4
<1>5. QED BY <1>1, <1>2, <1>3, <1>4, ReturnHeldExact

LEMMA DiffExact == Holding /\ Diff => ExactInv'
<1> SUFFICES ASSUME TypeInv, OwnInv, ExactInv, Diff PROVE ExactInv' BY DEF Holding, Sparing
<1> DEFINE e == Top.expr  regex == e.kids[2].regex
<1>1. /\ Ready("diff") /\ stack # <<>> /\ 1 \in 1..Len(Vals) /\ (~RegexOperand(e) => 2 \in 1..Len(Vals))
      /\ e.op = "diff" /\ query' = query /\ e \in Expression /\ Return(Vals[1])
  BY ReadyOperands, TopFrame DEF Diff
<1>2. \/ Exposed
      \/ Warnings(e) \subseteq warned' /\ warned \subseteq warned' /\ warned' \subseteq Warnings(query)
  <2>1. CASE RegexOperand(e)
    <3>1. warned' = warned \union Missing(e) BY <1>1, <2>1, MissingIs DEF Diff, Warn, RegexWarning
    <3>2. QED BY <1>1, <3>1, ReadyKnows
  <2>2. CASE ~RegexOperand(e)
    <3>1. warned' = warned \union Missing(e) BY <1>1, <2>2, MissingIs DEF Diff, Warn
    <3>2. QED BY <1>1, <3>1, ReadyKnows
  <2>3. QED BY <2>1, <2>2
<1>3. ASSUME ~Exposed
      PROVE  Nodes(Vals[1]) = Meaning[e.kids[1]] /\ (Vals[1].quoted => Quotes(e))
  BY <1>1, <1>3, ReadyKnows, OperandsAre
<1>4. /\ \A s \in Below : nodes'[s] = nodes[s]
      /\ ~Exposed => nodes'[Vals[1].set] = Meaning[e]
  <2>1. CASE RegexOperand(e)
    <3> DEFINE matched == Matches(regex, Vals[1])  left == Nodes(Vals[1]) \ matched
               new == [nodes EXCEPT ![Vals[1].set] = left]
    <3>1. nodes' = Append(new, matched) BY <2>1 DEF Diff, Nodes
    <3>2. nodes \in Seq(SUBSET Name) /\ Below \subseteq live /\ live \subseteq 1..N /\ N \in Nat
      BY <1>1, TopApart, TopFrame DEF TypeInv
    <3>3. Vals[1].set \in 1..N /\ Vals[1].set \notin Below /\ Nodes(Vals[1]) \subseteq Name
      BY <1>1, TopFrame, TopApart
    <3> HIDE DEF matched
    <3>4. left \in SUBSET Name BY <3>3
    <3> HIDE DEF left
    <3>5. /\ new \in Seq(SUBSET Name) /\ Len(new) = N
          /\ \A s \in 1..N : new[s] = IF s = Vals[1].set THEN left ELSE nodes[s]
      BY <3>2, <3>3, <3>4, ExceptSeq DEF N
    <3> HIDE DEF new
    <3>6. \A s \in 1..N : nodes'[s] = new[s] BY <3>1, <3>5
    <3>7. nodes'[Vals[1].set] = left BY <3>3, <3>5, <3>6
    <3>8. ASSUME ~Exposed PROVE left = Meaning[e]
      <4>1. matched = Matching(regex, Meaning[e.kids[1]])
        BY <1>1, <2>1, <3>8, PlainFirst, OperandsAre DEF matched
      <4>2. QED BY <1>1, <1>3, <2>1, <3>8, <4>1, MeaningIs DEF left
    <3>9. QED BY <3>2, <3>3, <3>5, <3>6, <3>7, <3>8
  <2>2. CASE ~RegexOperand(e)
    <3>1. nodes' = [nodes EXCEPT ![Vals[1].set] = Nodes(Vals[1]) \ Nodes(Vals[2])]
      BY <2>2 DEF Diff, Nodes
    <3>2. /\ \A s \in Below : nodes'[s] = nodes[s]
          /\ nodes'[Vals[1].set] = Nodes(Vals[1]) \ Nodes(Vals[2])
      BY <1>1, <3>1, SetsStay
    <3>3. ASSUME ~Exposed PROVE Nodes(Vals[1]) \ Nodes(Vals[2]) = Meaning[e]
      <4>1. Nodes(Vals[2]) = Meaning[e.kids[2]] BY <1>1, <2>2, <3>3, ReadyKnows, OperandsAre
      <4>2. QED BY <1>1, <1>3, <2>2, <3>3, <4>1, MeaningIs
    <3>4. QED BY <3>2, <3>3
  <2>3. QED BY <2>1, <2>2
<1> HIDE DEF e
<1>5. Top.expr = e BY DEF e
<1>6. QED BY <1>1, <1>2, <1>3, <1>4, <1>5, ReturnHeldExact

LEMMA InterExact == Holding /\ Inter => ExactInv'
<1> SUFFICES ASSUME TypeInv, OwnInv, ExactInv, Inter PROVE ExactInv' BY DEF Holding, Sparing
<1> DEFINE e == Top.expr  regex == e.kids[2].regex
<1>1. /\ Ready("inter") /\ stack # <<>> /\ 1 \in 1..Len(Vals) /\ (~RegexOperand(e) => 2 \in 1..Len(Vals))
      /\ e.op = "inter" /\ query' = query /\ e \in Expression
  BY ReadyOperands, TopFrame DEF Inter
<1>2. Vals[1].quoted \in BOOLEAN /\ (~RegexOperand(e) => Vals[2].quoted \in BOOLEAN) BY <1>1, TopFrame
<1>3. CASE RegexOperand(e)
  <2> DEFINE names == Nodes(Vals[1]) \intersect Matches(regex, Vals[1])
  <2>1. ReturnNew(names, Vals[1].quoted, {Vals[1]}) BY <1>3 DEF Inter
  <2>2. warned' = warned \union Missing(e) BY <1>1, <1>3, MissingIs DEF Inter, Warn, RegexWarning
  <2>3. ASSUME ~Exposed
        PROVE  /\ names = Meaning[e]
               /\ Vals[1].quoted => Quotes(e)
               /\ Warnings(e) \subseteq warned'
               /\ warned \subseteq warned' /\ warned' \subseteq Warnings(query)
    <3>1. Matches(regex, Vals[1]) = Matching(regex, Meaning[e.kids[1]])
      BY <1>1, <1>3, <2>3, PlainFirst, OperandsAre
    <3>2. Nodes(Vals[1]) = Meaning[e.kids[1]] BY <1>1, <2>3, ReadyKnows, OperandsAre
    <3>3. names = Meaning[e] BY <1>1, <1>3, <3>1, <3>2, MeaningIs
    <3>4. QED BY <1>1, <2>2, <2>3, <3>3, ReadyKnows
  <2> HIDE DEF names
  <2>4. QED BY <1>1, <1>2, <2>1, <2>3, ReturnNewExact
<1>4. CASE ~RegexOperand(e)
  <2> DEFINE names == Nodes(Vals[1]) \intersect Nodes(Vals[2])  q == Vals[1].quoted \/ Vals[2].quoted
  <2>1. ReturnNew(names, q, {Vals[1], Vals[2]}) BY <1>4 DEF Inter
  <2>2. warned' = warned \union Missing(e) BY <1>1, <1>4, MissingIs DEF Inter, Warn
  <2>3. ASSUME ~Exposed
        PROVE  /\ names = Meaning[e]
               /\ q => Quotes(e)
               /\ Warnings(e) \subseteq warned'
               /\ warned \subseteq warned' /\ warned' \subseteq Warnings(query)
    <3>1. Nodes(Vals[1]) = Meaning[e.kids[1]] /\ Nodes(Vals[2]) = Meaning[e.kids[2]]
      BY <1>1, <1>4, <2>3, ReadyKnows, OperandsAre
    <3>2. names = Meaning[e] BY <1>1, <1>4, <3>1, MeaningIs
    <3>3. q => Quotes(e) BY <1>1, <1>4, <2>3, ReadyKnows
    <3>4. QED BY <1>1, <2>2, <2>3, <3>2, <3>3, ReadyKnows
  <2>4. q \in BOOLEAN BY <1>2, <1>4
  <2> HIDE DEF names, q
  <2>5. QED BY <1>1, <2>1, <2>3, <2>4, ReturnNewExact
<1>5. QED BY <1>3, <1>4

LEMMA RegexExact == Holding /\ Regex => ExactInv'
<1> SUFFICES ASSUME TypeInv, OwnInv, ExactInv, Regex PROVE ExactInv' BY DEF Holding, Sparing
<1> DEFINE e == Top.expr  names == Matches(e.regex, Vals[1])
<1>1. /\ Ready("regex") /\ stack # <<>> /\ 1 \in 1..Len(Vals)
      /\ e.op = "regex" /\ query' = query /\ e \in Expression
  BY ReadyOperands, TopFrame DEF Regex
<1>2. ReturnNew(names, FALSE, {Vals[1]}) BY DEF Regex
<1>3. warned' = warned \union Missing(e) BY <1>1, MissingIs DEF Regex, Warn
<1>4. ASSUME ~Exposed
      PROVE  /\ names = Meaning[e]
             /\ Warnings(e) \subseteq warned'
             /\ warned \subseteq warned' /\ warned' \subseteq Warnings(query)
  <2>1. names = Matching(e.regex, AllNames)
    BY <1>1, <1>4, PlainFirst, OperandsAre, AllNodesIs
  <2>2. names = Meaning[e] BY <1>1, <2>1, MeaningIs
  <2>3. QED BY <1>1, <1>3, <1>4, <2>2, ReadyKnows
<1> HIDE DEF names
<1>5. QED BY <1>1, <1>2, <1>4, ReturnNewExact

LEMMA BracesExact == Holding /\ Braces => ExactInv'
<1> SUFFICES ASSUME TypeInv, OwnInv, ExactInv, Braces PROVE ExactInv' BY DEF Holding, Sparing
<1> DEFINE e == Top.expr
           names == {b[1] \o b[2] \o b[3] :
                       b \in Factor(Vals[1]) \X Factor(Vals[2]) \X Factor(Vals[3])}
           q == Vals[1].quoted \/ Vals[2].quoted \/ Vals[3].quoted
<1>1. /\ Ready("braces") /\ stack # <<>>
      /\ 1 \in 1..Len(Vals) /\ 2 \in 1..Len(Vals) /\ 3 \in 1..Len(Vals)
      /\ e.op = "braces" /\ query' = query /\ warned' = warned /\ e \in Expression
  BY ReadyOperands, TopFrame DEF Braces
<1>2. ReturnNew(names, q, {Vals[1], Vals[2], Vals[3]}) BY DEF Braces
<1>3. Missing(e) = {} /\ Operands(e) = e.kids BY <1>1, MissingIs, OperandsAre
<1>4. ASSUME ~Exposed
      PROVE  /\ names = Meaning[e]
             /\ q => Quotes(e)
             /\ Warnings(e) \subseteq warned'
             /\ warned \subseteq warned' /\ warned' \subseteq Warnings(query)
  <2>1. \A i \in 1..Len(Vals) : Nodes(Vals[i]) = Meaning[e.kids[i]] /\ (Vals[i].quoted => Quotes(e))
    BY <1>1, <1>3, <1>4, ReadyKnows
  <2>2. \A i \in 1..Len(Vals) : Factor(Vals[i]) = OrEmpty(Meaning[e.kids[i]]) BY <2>1, PlainRange
  <2>3. names = {b[1] \o b[2] \o b[3] : b \in OrEmpty(Meaning[e.kids[1]]) \X OrEmpty(Meaning[e.kids[2]])
                                                \X OrEmpty(Meaning[e.kids[3]])}
    BY <1>1, <2>2
  <2>4. names = Meaning[e] BY <1>1, <2>3, MeaningIs
  <2>5. q => Quotes(e) BY <1>1, <2>1
  <2>6. Warnings(e) \subseteq warned \union Missing(e) /\ warned \union Missing(e) \subseteq Warnings(query)
    BY <1>1, <1>4, ReadyKnows
  <2>7. QED BY <1>1, <1>3, <2>4, <2>5, <2>6
<1>5. q \in BOOLEAN OBVIOUS
<1> HIDE DEF names, q
<1>6. QED BY <1>1, <1>2, <1>4, <1>5, ReturnNewExact

(* A range joins those of the top, which goes on. *)
LEMMA NoFunctionExact == Holding /\ NoFunction => ExactInv'
<1> SUFFICES ASSUME TypeInv, OwnInv, ExactInv, NoFunction PROVE ExactInv' BY DEF Holding, Sparing
<1> DEFINE e == Top.expr  K == Len(stack)  r == RangeOf(Fresh, FALSE)  v == Append(Vals, r)
           f == [Top EXCEPT !.vals = v]
<1>1. /\ Ready("function") /\ stack # <<>> /\ Top.at = "ast" /\ Len(Vals) = Len(Operands(e))
      /\ e.op = "function" /\ e.fn # "cluster" /\ e \in Expression
      /\ query' = query /\ nodes' = Append(nodes, {}) /\ stack' = [stack EXCEPT ![K].vals = v]
  BY ReadyOperands, TopFrame DEF NoFunction, Ready, Evaluating, Allocate, WithVals
<1>2. stack' = [stack EXCEPT ![K] = f] BY <1>1 DEF Top
<1>3. stack \in Seq(FrameIn(N)) /\ K \in Nat \ {0} /\ Top \in FrameIn(N) /\ N \in Nat
  BY <1>1, TopFrame DEF TypeInv, StackOK
<1>4. f.at = "ast" /\ f.expr = e /\ f.vals = v BY <1>1, <1>3 DEF FrameIn
<1>5. Vals \in Seq(Ranges(N)) /\ Len(Vals) \in Nat BY <1>1, TopFrame
<1>7. r.set = Fresh /\ r.quoted = FALSE BY DEF RangeOf
<1> HIDE DEF r
<1>6. /\ Len(v) = Len(Vals) + 1 /\ v[Len(Vals) + 1] = r
      /\ \A i \in 1..Len(Vals) : v[i] = Vals[i]
  BY <1>5
<1> HIDE DEF v, f
<1>8. /\ Len(stack') = K /\ stack'[K] = f /\ stack' # <<>>
      /\ \A k \in 1..K - 1 : stack'[k] = stack[k]
  BY <1>2, <1>3
<1>9. /\ \A s \in Below : nodes'[s] = nodes[s]
      /\ \A i \in 1..Len(Vals) : nodes'[Vals[i].set] = nodes[Vals[i].set]
      /\ nodes'[Fresh] = {}
  BY <1>1, SetsStay
<1>10. warned' = warned \union Missing(e) BY <1>1, MissingIs DEF NoFunction, Warn
<1>11. Named(e) = {} BY <1>1 DEF Named, LooksUp
<1>12. ASSUME ~Exposed
       PROVE  /\ FrameExact(f, {}, nodes', warned')
              /\ warned \subseteq warned' /\ warned' \subseteq Warnings(query)
  <2>1. /\ \A i \in 1..Len(Vals) : /\ Nodes(Vals[i]) = Meaning[Operands(e)[i]]
                                   /\ Vals[i].quoted => Quotes(Operands(e)[i])
                                   /\ Warnings(Operands(e)[i]) \subseteq warned
        /\ warned \union Missing(e) \subseteq Warnings(query)
    BY <1>1, <1>12, ReadyKnows
  <2>2. Meaning[e] = {}
    <3>1. Meaning[e] = UNION {TextOf(Meaning, n) : n \in Named(e)} BY <1>1, MeaningIs
    <3>2. QED BY <1>11, <3>1
  <2>3. Warnings(e) \subseteq warned' BY <1>1, <1>10, <1>11, <2>1, WarningsIs
  <2>4. ASSUME NEW i \in 1..Len(v)
        PROVE  /\ nodes'[v[i].set] = Meaning[Due(f, i)]
               /\ v[i].quoted => Quotes(Due(f, i))
               /\ Warnings(Due(f, i)) \subseteq warned'
    <3>1. CASE i \in 1..Len(Vals)
      <4>1. Due(f, i) = Operands(e)[i] BY <1>1, <1>4, <3>1 DEF Due
      <4>2. QED BY <1>6, <1>9, <1>10, <2>1, <3>1, <4>1 DEF Nodes
    <3>2. CASE i = Len(Vals) + 1
      <4>1. Due(f, i) = e BY <1>1, <1>4, <1>5, <3>2 DEF Due
      <4>2. QED BY <1>6, <1>7, <1>9, <2>2, <2>3, <3>2, <4>1
    <3>3. QED BY <1>5, <1>6, <3>1, <3>2
  <2>5. FrameExact(f, {}, nodes', warned') BY <1>4, <2>4 DEF FrameExact, Answers
  <2>6. QED BY <1>10, <2>1, <2>5
<1>13. Coming(stack', K) = {} BY <1>3, <1>8 DEF Coming
<1>14. QED BY <1>1, <1>4, <1>8, <1>9, <1>12, <1>13, TopExact

(* The value of a function is the last of its ranges. *)
LEMMA FunctionDoneExact == Holding /\ FunctionDone => ExactInv'
<1> SUFFICES ASSUME TypeInv, OwnInv, ExactInv, FunctionDone PROVE ExactInv' BY DEF Holding, Sparing
<1> DEFINE e == Top.expr  m == Len(Vals)
<1>1. /\ stack # <<>> /\ Top.at = "ast" /\ m = Len(Operands(e)) + 1 /\ nodes' = nodes
      /\ Return(Vals[m]) /\ query' = query /\ warned' = warned
  BY DEF FunctionDone, Evaluating
<1>2. m \in Nat /\ Len(Operands(e)) \in Nat BY <1>1, TopFrame
<1>3. m \in 1..m BY <1>1, <1>2
<1>4. ASSUME ~Exposed
      PROVE  /\ nodes'[Vals[m].set] = Meaning[e]
             /\ Vals[m].quoted => Quotes(e)
             /\ Warnings(e) \subseteq warned'
             /\ warned \subseteq warned' /\ warned' \subseteq Warnings(query)
  <2>1. Answers(Top, nodes, warned) /\ warned \subseteq Warnings(query)
    BY <1>1, <1>4, TopKnows DEF FrameExact
  <2>2. Due(Top, m) = e BY <1>1, <1>2 DEF Due
  <2>3. /\ nodes[Vals[m].set] = Meaning[Due(Top, m)]
        /\ Vals[m].quoted => Quotes(Due(Top, m))
        /\ Warnings(Due(Top, m)) \subseteq warned
    BY <1>3, <2>1 DEF Answers, Vals
  <2>4. QED BY <1>1, <2>1, <2>2, <2>3
<1> HIDE DEF m
<1>5. m \in 1..Len(Vals) BY <1>3 DEF m
<1>6. QED BY <1>1, <1>4, <1>5, ReturnHeldExact

LEMMA CallClusterExact == Holding /\ CallCluster => ExactInv'
<1> SUFFICES ASSUME TypeInv, OwnInv, ExactInv, CallCluster PROVE ExactInv' BY DEF Holding, Sparing
<1> DEFINE e == Top.expr  K == Len(stack)  r == RangeOf(Fresh, FALSE)
           todo == IF Len(Vals) = 1 THEN Hostnames(Vals[1]) ELSE {}
           f == [at |-> "cluster", expr |-> e, root |-> FALSE, todo |-> todo, vals |-> <<r>>]
<1>1. /\ Ready("function") /\ stack # <<>> /\ Top.at = "ast" /\ Len(Vals) = Len(Operands(e))
      /\ e.op = "function" /\ e.fn = "cluster" /\ e \in Expression /\ Len(Vals) \in Nat
      /\ query' = query /\ warned' = warned /\ nodes' = Append(nodes, {}) /\ stack' = Append(stack, f)
  BY ReadyOperands, TopFrame DEF CallCluster, Ready, Evaluating, Allocate
<1>2. stack \in Seq(FrameIn(N)) /\ K \in Nat \ {0} BY <1>1, TopFrame DEF TypeInv, StackOK
<1>3. f.at = "cluster" /\ f.expr = e /\ f.todo = todo /\ f.vals = <<r>> OBVIOUS
<1>4. r.set = Fresh /\ r.quoted = FALSE BY DEF RangeOf
<1> HIDE DEF r, f, todo
<1>5. Len(f.vals) = 1 /\ f.vals[1] = r BY <1>3
<1>6. /\ Len(stack') = K + 1 /\ stack'[K + 1] = f /\ stack' # <<>>
      /\ \A k \in 1..K : stack'[k] = stack[k]
  BY <1>1, <1>2
<1>7. /\ \A s \in Below : nodes'[s] = nodes[s]
      /\ \A i \in 1..Len(Vals) : nodes'[Vals[i].set] = nodes[Vals[i].set]
      /\ nodes'[Fresh] = {}
  BY <1>1, SetsStay
<1>8. ASSUME ~Exposed
      PROVE  /\ FrameExact(f, {}, nodes', warned')
             /\ Met[f.expr] \subseteq Met[query] /\ Linked(Top, f)
             /\ FrameExact(Top, Coming(stack', K), nodes', warned')
             /\ warned' \subseteq Warnings(query)
  <2>1. /\ FrameExact(Top, {}, nodes, warned)
        /\ Met[e] \subseteq Met[query] /\ warned \subseteq Warnings(query)
    BY <1>1, <1>8, TopKnows
  <2>2. Answers(Top, nodes', warned') BY <1>1, <1>7, <2>1 DEF FrameExact, Answers, Vals
  <2>3. FrameExact(Top, Coming(stack', K), nodes', warned') BY <1>1, <2>2 DEF FrameExact
  <2>4. Due(Top, Len(Vals) + 1) = e BY <1>1 DEF Due
  <2>5. Linked(Top, f) BY <1>1, <1>3, <2>4 DEF Linked, Vals
  <2>6. todo = Named(e)
    <3>1. Operands(e) = e.kids BY <1>1, OperandsAre
    <3>2. CASE Len(Vals) = 1
      <4>1. LooksUp(e) /\ 1 \in 1..Len(Vals)
        <5>1. Len(e.kids) = 1 BY <1>1, <3>1, <3>2
        <5>2. LooksUp(e) BY <1>1, <5>1 DEF LooksUp
        <5>3. QED BY <3>2, <5>2
      <4>2. Hostnames(Vals[1]) = Meaning[e.kids[1]] BY <1>1, <1>8, <3>1, <4>1, PlainFirst
      <4>3. QED BY <3>2, <4>1, <4>2 DEF todo, Named
    <3>3. CASE Len(Vals) # 1
      <4>1. ~LooksUp(e) BY <1>1, <3>1, <3>3 DEF LooksUp
      <4>2. QED BY <3>3, <4>1 DEF todo, Named
    <3>4. QED BY <3>2, <3>3
  <2>7. Seen(f) = {} BY <1>3, <2>6 DEF Seen
  <2>8. \A i \in 1..Len(f.vals) : f.vals[i] = r BY <1>5
  <2>9. Collected(f, {}, nodes') BY <1>4, <1>7, <2>7, <2>8 DEF Collected
  <2>10. Told(f, {}, warned') BY <2>7 DEF Told
  <2>11. \A i \in 1..Len(Operands(e)) : Warnings(Operands(e)[i]) \subseteq warned'
    BY <1>1, <1>8, ReadyKnows
  <2>12. Collects(f, {}, nodes', warned')
    BY <1>1, <1>3, <1>4, <2>6, <2>8, <2>9, <2>10, <2>11 DEF Collects
  <2>13. FrameExact(f, {}, nodes', warned') BY <1>3, <2>12 DEF FrameExact
  <2>14. QED BY <1>1, <1>3, <2>1, <2>3, <2>5, <2>13
<1>9. Top = stack[K] /\ \A k \in 1..K - 1 : stack[k] = stack[k] BY DEF Top
<1>10. QED BY <1>1, <1>6, <1>7, <1>8, <1>9, TopExact

(* What the loop of "cluster" knows. *)
LEMMA LoopKnows ==
  ASSUME TypeInv, ExactInv, NEW n, InCluster(n), ~Exposed
  PROVE  /\ Collects(Top, {}, nodes, warned)
         /\ Top.expr \in Expression /\ Top.expr.op = "function" /\ Top.expr.fn = "cluster"
         /\ Met[Top.expr] \subseteq Met[query] /\ warned \subseteq Warnings(query)
         /\ Missing(Top.expr) \subseteq Warnings(query)
<1>1. stack # <<>> /\ Top.at = "cluster" BY DEF InCluster
<1>2. Collects(Top, {}, nodes, warned) BY <1>1, TopKnows DEF FrameExact
<1>3. QED BY <1>1, <1>2, TopKnows, TopFrame DEF Collects

(* One more name is looked up: its text is coming. *)
LEMMA ExpandTextExact == Holding /\ ExpandText => ExactInv'
<1> SUFFICES ASSUME TypeInv, OwnInv, ExactInv, ExpandText PROVE ExactInv' BY DEF Holding, Sparing
<1> DEFINE e == Top.expr  K == Len(stack)
<1>1. InCluster(1) /\ stack # <<>> /\ Top.at = "cluster" BY DEF ExpandText, InCluster
<1>2. PICK name \in Top.todo \intersect DOMAIN Texts :
        stack' = Append(Looking(name), Evaluation(Texts[name], TRUE))
  BY DEF ExpandText
<1>3. nodes' = nodes /\ warned' = warned /\ query' = query BY DEF ExpandText, sets
<1> DEFINE st == Looking(name)  f == Evaluation(Texts[name], TRUE)  g == st[K]
<1>4. /\ st \in Seq(FrameIn(N)) /\ Len(st) = K /\ K \in Nat \ {0}
      /\ g = [Top EXCEPT !.todo = Top.todo \ {name}]
      /\ \A k \in 1..K - 1 : st[k] = stack[k]
  BY <1>1, LookingOK
<1>5. Top \in FrameIn(N) BY <1>1, TopFrame
<1>6. g.at = Top.at /\ g.expr = e /\ g.todo = Top.todo \ {name} /\ g.vals = Top.vals
  BY <1>4, <1>5 DEF FrameIn
<1>7. f.at = "ast" /\ f.expr = Texts[name] /\ f.vals = <<>> BY DEF Evaluation
<1>8. stack' = Append(st, f) BY <1>2
<1> HIDE DEF st, f
<1>9. /\ Len(stack') = K + 1 /\ stack'[K + 1] = f /\ stack' # <<>>
      /\ \A k \in 1..K : stack'[k] = st[k]
  BY <1>4, <1>8
<1>10. Coming(stack', K) = {Texts[name]} BY <1>4, <1>7, <1>9 DEF Coming
<1>11. ASSUME ~Exposed
       PROVE  /\ FrameExact(f, {}, nodes', warned')
              /\ Met[f.expr] \subseteq Met[query] /\ Linked(g, f)
              /\ FrameExact(g, {Texts[name]}, nodes', warned')
              /\ warned' \subseteq Warnings(query)
  <2>1. /\ Collects(Top, {}, nodes, warned) /\ e \in Expression
        /\ Met[e] \subseteq Met[query] /\ warned \subseteq Warnings(query)
    BY <1>1, <1>11, LoopKnows
  <2>2. name \in Named(e) /\ name \in DOMAIN Texts /\ name \in Top.todo BY <1>2, <2>1 DEF Collects
  <2>3. FrameExact(f, {}, nodes', warned') BY <1>7 DEF FrameExact, Answers
  <2>4. Met[f.expr] \subseteq Met[query] BY <1>7, <2>1, <2>2, MetIs
  <2>5. \A n : n \in Seen(g) <=> n \in Seen(Top) \/ n = name BY <1>6, <2>2 DEF Seen
  <2>6. Linked(g, f) BY <1>1, <1>6, <1>7, <2>2, <2>5 DEF Linked
  <2>7. TextOf(Meaning, name) = Meaning[Texts[name]] /\ TextWarnings(name) = Warnings(Texts[name])
    BY <2>2 DEF TextOf, TextWarnings
  <2>8. Collected(g, {Texts[name]}, nodes')
    <3>1. \A x : (\E n \in Seen(Top) : x \in TextOf(Meaning, n))
                   <=> \E i \in 1..Len(Top.vals) : x \in nodes[Top.vals[i].set]
      BY <2>1 DEF Collects, Collected
    <3>2. \A x : (\E n \in Seen(g) : x \in TextOf(Meaning, n))
                   <=> (\E n \in Seen(Top) : x \in TextOf(Meaning, n)) \/ x \in Meaning[Texts[name]]
      BY <2>5, <2>7
    <3>3. QED BY <1>3, <1>6, <3>1, <3>2 DEF Collected
  <2>9. Told(g, {Texts[name]}, warned') BY <1>3, <2>1, <2>5, <2>7 DEF Collects, Told
  <2>10. g.todo \subseteq Named(g.expr) BY <1>6, <2>1 DEF Collects
  <2>11. Collects(g, {Texts[name]}, nodes', warned')
    BY <1>3, <1>6, <2>1, <2>8, <2>9, <2>10 DEF Collects
  <2>12. FrameExact(g, {Texts[name]}, nodes', warned') BY <1>1, <1>6, <2>11 DEF FrameExact
  <2>13. QED BY <1>3, <2>1, <2>3, <2>4, <2>6, <2>12
<1> HIDE DEF g
<1>12. st[K] = g BY DEF g
<1>13. \A s \in Below : nodes'[s] = nodes[s] BY <1>3
<1>14. QED BY <1>1, <1>3, <1>4, <1>6, <1>9, <1>10, <1>11, <1>12, <1>13, TopExact

(* A name that nothing defines stands for no node, and is warned of. *)
LEMMA NoClusterExact == Holding /\ NoCluster => ExactInv'
<1> SUFFICES ASSUME TypeInv, OwnInv, ExactInv, NoCluster PROVE ExactInv' BY DEF Holding, Sparing
<1> DEFINE e == Top.expr  K == Len(stack)  r == RangeOf(Fresh, FALSE)
<1>1. InCluster(1) /\ stack # <<>> /\ Top.at = "cluster" BY DEF NoCluster, InCluster
<1>2. PICK name \in Top.todo \ (DOMAIN Texts \union VipNames) :
        stack' = [Looking(name) EXCEPT ![K].vals = Append(@, r)]
  BY DEF NoCluster
<1>3. nodes' = Append(nodes, {}) /\ warned' = warned \union {"NOCLUSTER"} /\ query' = query
  BY DEF NoCluster, Allocate, Warn
<1> DEFINE st == Looking(name)  v == Append(Vals, r)  g == stack'[K]
<1>4. /\ st \in Seq(FrameIn(N)) /\ Len(st) = K /\ K \in Nat \ {0}
      /\ st[K] = [Top EXCEPT !.todo = Top.todo \ {name}]
      /\ \A k \in 1..K - 1 : st[k] = stack[k]
  BY <1>1, LookingOK
<1>5. Top \in FrameIn(N) /\ Vals \in Seq(Ranges(N)) /\ Len(Vals) \in Nat BY <1>1, TopFrame
<1>6. /\ st[K].at = Top.at /\ st[K].expr = e /\ st[K].todo = Top.todo \ {name} /\ st[K].vals = Vals
      /\ st[K] \in FrameIn(N)
  BY <1>4, <1>5 DEF FrameIn, Vals
<1>7. r.set = Fresh /\ r.quoted = FALSE BY DEF RangeOf
<1>8. stack' = [st EXCEPT ![K] = [st[K] EXCEPT !.vals = Append(st[K].vals, r)]] BY <1>2
<1> HIDE DEF st, r
<1>9. /\ Len(stack') = K /\ stack' # <<>> /\ stack'[K] = [st[K] EXCEPT !.vals = v]
      /\ \A k \in 1..K - 1 : stack'[k] = stack[k]
  BY <1>4, <1>6, <1>8
<1>10. g.at = "cluster" /\ g.expr = e /\ g.todo = Top.todo \ {name} /\ g.vals = v
  BY <1>1, <1>6, <1>9 DEF FrameIn
<1>11. /\ Len(v) = Len(Vals) + 1 /\ v[Len(Vals) + 1] = r
       /\ \A i \in 1..Len(Vals) : v[i] = Vals[i]
  BY <1>5
<1> HIDE DEF v, g
<1>12. /\ \A s \in Below : nodes'[s] = nodes[s]
       /\ \A i \in 1..Len(Vals) : nodes'[Vals[i].set] = nodes[Vals[i].set]
       /\ nodes'[Fresh] = {}
  BY <1>1, <1>3, SetsStay
<1>13. Coming(stack', K) = {} BY <1>4, <1>9 DEF Coming
<1>14. ASSUME ~Exposed
       PROVE  /\ FrameExact(g, {}, nodes', warned')
              /\ warned \subseteq warned' /\ warned' \subseteq Warnings(query)
  <2>1. /\ Collects(Top, {}, nodes, warned) /\ e \in Expression /\ e.op = "function" /\ e.fn = "cluster"
        /\ warned \subseteq Warnings(query) /\ Missing(e) \subseteq Warnings(query)
    BY <1>1, <1>14, LoopKnows
  <2>2. name \in Named(e) /\ name \in Top.todo /\ name \notin DOMAIN Texts /\ name \notin VipNames
    BY <1>2, <2>1 DEF Collects
  <2>3. "NOCLUSTER" \in Missing(e) BY <2>1, <2>2, MissingIs
  <2>4. warned' \subseteq Warnings(query) BY <1>3, <2>1, <2>3
  <2>5. \A n : n \in Seen(g) <=> n \in Seen(Top) \/ n = name BY <1>10, <2>2 DEF Seen
  <2>6. TextOf(Meaning, name) = {} /\ TextWarnings(name) = {"NOCLUSTER"}
    <3>1. {w \in DOMAIN Vips : Vips[w].name = name} = {} BY <2>2 DEF VipNames
    <3>2. VipNodes(name) = {} BY <3>1 DEF VipNodes
    <3>3. QED BY <2>2, <3>2 DEF TextOf, TextWarnings
  <2>7. Collected(g, {}, nodes')
    <3>1. \A x : (\E n \in Seen(Top) : x \in TextOf(Meaning, n))
                   <=> \E i \in 1..Len(Vals) : x \in nodes[Vals[i].set]
      BY <2>1 DEF Collects, Collected, Vals
    <3>2. \A x : (\E n \in Seen(g) : x \in TextOf(Meaning, n))
                   <=> \E n \in Seen(Top) : x \in TextOf(Meaning, n)
      BY <2>5, <2>6
    <3>3. ASSUME NEW x
          PROVE  (\E i \in 1..Len(v) : x \in nodes'[v[i].set])
                   <=> \E i \in 1..Len(Vals) : x \in nodes[Vals[i].set]
      <4>1. \A i \in 1..Len(v) : i \in 1..Len(Vals) \/ i = Len(Vals) + 1 BY <1>5, <1>11
      <4>2. \A i \in 1..Len(Vals) : i \in 1..Len(v) /\ nodes'[v[i].set] = nodes[Vals[i].set]
        BY <1>5, <1>11, <1>12
      <4>3. x \notin nodes'[v[Len(Vals) + 1].set] BY <1>7, <1>11, <1>12
      <4>4. QED BY <4>1, <4>2, <4>3
    <3>4. QED BY <1>10, <3>1, <3>2, <3>3 DEF Collected
  <2>8. Told(g, {}, warned') BY <1>3, <2>1, <2>5, <2>6 DEF Collects, Told
  <2>9. \A i \in 1..Len(v) : v[i].quoted => Quotes(e)
    <3>1. \A i \in 1..Len(Vals) : Vals[i].quoted => Quotes(e) BY <2>1 DEF Collects, Vals
    <3>2. QED BY <1>5, <1>7, <1>11, <3>1
  <2>10. g.todo \subseteq Named(g.expr) BY <1>10, <2>1 DEF Collects
  <2>11. Collects(g, {}, nodes', warned')
    BY <1>3, <1>10, <2>1, <2>7, <2>8, <2>9, <2>10 DEF Collects
  <2>12. FrameExact(g, {}, nodes', warned') BY <1>10, <2>11 DEF FrameExact
  <2>13. QED BY <1>3, <2>4, <2>12
<1>15. stack'[K] = g BY DEF g
<1>16. QED BY <1>1, <1>3, <1>9, <1>10, <1>12, <1>13, <1>14, <1>15, TopExact

(* An operand is due. *)
LEMMA DescendExact == Holding /\ Descend => ExactInv'
<1> SUFFICES ASSUME TypeInv, OwnInv, ExactInv, Descend PROVE ExactInv' BY DEF Holding, Sparing
<1> DEFINE e == Top.expr  K == Len(stack)  i == Len(Vals) + 1
           f == Evaluation(Operands(e)[i], FALSE)
<1>1. /\ stack # <<>> /\ Top.at = "ast" /\ Len(Vals) < Len(Operands(e))
      /\ nodes' = nodes /\ query' = query /\ warned' = warned /\ stack' = Append(stack, f)
  BY DEF Descend, Evaluating, sets
<1>2. stack \in Seq(FrameIn(N)) /\ K \in Nat \ {0} BY <1>1, TopFrame DEF TypeInv, StackOK
<1>3. e \in Expression /\ Len(Vals) \in Nat /\ Len(Operands(e)) \in Nat BY <1>1, TopFrame
<1>4. i \in 1..Len(Operands(e)) BY <1>1, <1>3
<1>5. f.at = "ast" /\ f.expr = Operands(e)[i] /\ f.vals = <<>> BY DEF Evaluation
<1> HIDE DEF f, i
<1>6. /\ Len(stack') = K + 1 /\ stack'[K + 1] = f /\ stack' # <<>>
      /\ \A k \in 1..K : stack'[k] = stack[k]
  BY <1>1, <1>2
<1>7. ASSUME ~Exposed
      PROVE  /\ FrameExact(f, {}, nodes', warned')
             /\ Met[f.expr] \subseteq Met[query] /\ Linked(Top, f)
             /\ FrameExact(Top, Coming(stack', K), nodes', warned')
             /\ warned' \subseteq Warnings(query)
  <2>1. /\ FrameExact(Top, {}, nodes, warned)
        /\ Met[e] \subseteq Met[query] /\ warned \subseteq Warnings(query)
    BY <1>1, <1>7, TopKnows
  <2>2. FrameExact(f, {}, nodes', warned') BY <1>5 DEF FrameExact, Answers
  <2>3. Met[f.expr] \subseteq Met[query] BY <1>3, <1>4, <1>5, <2>1, MetIs
  <2>4. Due(Top, i) = Operands(e)[i] BY <1>3, <1>4 DEF Due
  <2>5. Linked(Top, f) BY <1>1, <1>5, <2>4 DEF Linked, Vals, i
  <2>6. FrameExact(Top, Coming(stack', K), nodes', warned') BY <1>1, <2>1 DEF FrameExact
  <2>7. QED BY <1>1, <2>1, <2>2, <2>3, <2>5, <2>6
<1>8. Top = stack[K] /\ \A k \in 1..K - 1 : stack[k] = stack[k] BY DEF Top
<1>9. \A s \in Below : nodes'[s] = nodes[s] BY <1>1
<1>10. QED BY <1>1, <1>6, <1>7, <1>8, <1>9, TopExact

(* Every name has been looked up. *)
LEMMA ClusterDoneExact == Holding /\ ClusterDone => ExactInv'
<1> SUFFICES ASSUME TypeInv, OwnInv, ExactInv, ClusterDone PROVE ExactInv' BY DEF Holding, Sparing
<1> DEFINE e == Top.expr
<1>1. /\ InCluster(1) /\ stack # <<>> /\ Len(Vals) = 1 /\ Top.todo = {} /\ Return(Vals[1])
      /\ nodes' = nodes /\ query' = query /\ warned' = warned
  BY DEF ClusterDone, InCluster, sets
<1>2. 1 \in 1..Len(Vals) BY <1>1
<1>3. ASSUME ~Exposed
      PROVE  /\ nodes'[Vals[1].set] = Meaning[e]
             /\ Vals[1].quoted => Quotes(e)
             /\ Warnings(e) \subseteq warned'
             /\ warned \subseteq warned' /\ warned' \subseteq Warnings(query)
  <2>1. /\ Collects(Top, {}, nodes, warned) /\ e \in Expression /\ e.op = "function" /\ e.fn = "cluster"
        /\ warned \subseteq Warnings(query)
    BY <1>1, <1>3, LoopKnows
  <2>2. Seen(Top) = Named(e) BY <1>1 DEF Seen
  <2>3. Meaning[e] = UNION {TextOf(Meaning, n) : n \in Named(e)} BY <2>1, MeaningIs
  <2>4. \A x : x \in nodes[Vals[1].set] <=> \E n \in Named(e) : x \in TextOf(Meaning, n)
    <3>1. \A x : (\E n \in Named(e) : x \in TextOf(Meaning, n))
                   <=> \E i \in 1..Len(Vals) : x \in nodes[Vals[i].set]
      BY <2>1, <2>2 DEF Collects, Collected, Vals
    <3>2. \A i \in 1..Len(Vals) : i = 1 BY <1>1
    <3>3. QED BY <1>2, <3>1, <3>2
  <2>5. nodes[Vals[1].set] = Meaning[e]
    <3> DEFINE S == nodes[Vals[1].set]  U == UNION {TextOf(Meaning, n) : n \in Named(e)}
    <3>1. \A x : x \in U <=> \E n \in Named(e) : x \in TextOf(Meaning, n) BY Zenon
    <3>2. \A x : x \in S <=> x \in U BY <2>4, <3>1, Zenon
    <3> HIDE DEF S, U
    <3>3. S = U BY <3>2
    <3>4. QED BY <2>3, <3>3 DEF S, U
  <2>6. Vals[1].quoted => Quotes(e) BY <1>2, <2>1 DEF Collects, Vals
  <2>7. \A n \in Named(e) : TextWarnings(n) \subseteq warned BY <2>1, <2>2 DEF Collects, Told
  <2>8. Missing(e) \subseteq warned
    <3>1. CASE Named(e) \subseteq DOMAIN Texts \union VipNames BY <2>1, <3>1, MissingIs
    <3>2. CASE ~(Named(e) \subseteq DOMAIN Texts \union VipNames)
      <4>1. PICK n \in Named(e) : n \notin DOMAIN Texts /\ n \notin VipNames BY <3>2
      <4>2. TextWarnings(n) = {"NOCLUSTER"} BY <4>1 DEF TextWarnings
      <4>3. QED BY <2>1, <2>7, <3>2, <4>2, MissingIs
    <3>3. QED BY <3>1, <3>2
  <2>9. \A i \in 1..Len(Operands(e)) : Warnings(Operands(e)[i]) \subseteq warned BY <2>1 DEF Collects
  <2>10. \A n \in Named(e) \intersect DOMAIN Texts : Warnings(Texts[n]) \subseteq warned
    BY <2>7 DEF TextWarnings
  <2>11. Warnings(e) \subseteq warned BY <2>1, <2>8, <2>9, <2>10, WarningsIs
  <2>12. QED BY <1>1, <2>1, <2>5, <2>6, <2>11
<1>4. \A s \in Below : nodes'[s] = nodes[s] BY <1>1
<1>5. QED BY <1>1, <1>2, <1>3, <1>4, ReturnHeldExact

(* What came back is merged into what was collected, or the other way.     *)
LEMMA MergeClusterExact == Holding /\ MergeCluster => ExactInv'
<1> SUFFICES ASSUME TypeInv, OwnInv, ExactInv, MergeCluster PROVE ExactInv' BY DEF Holding, Sparing
<1> DEFINE e == Top.expr  K == Len(stack)
<1>1. /\ InCluster(2) /\ stack # <<>> /\ Top.at = "cluster" /\ Len(Vals) = 2
      /\ query' = query /\ warned' = warned
  BY DEF MergeCluster, InCluster
<1>2. PICK i \in {1, 2}, j \in {1, 2} :
        i # j /\ Merge(Vals[i], Vals[j]) /\ stack' = WithVals(<<Vals[i]>>)
  BY DEF MergeCluster
<1>3. i \in 1..Len(Vals) /\ j \in 1..Len(Vals) BY <1>1
<1> DEFINE v == <<Vals[i]>>  g == [Top EXCEPT !.vals = v]
<1>4. stack \in Seq(FrameIn(N)) /\ K \in Nat \ {0} /\ Top \in FrameIn(N)
  BY <1>1, TopFrame DEF TypeInv, StackOK
<1>5. g.at = Top.at /\ g.expr = e /\ g.todo = Top.todo /\ g.vals = v BY <1>4 DEF FrameIn
<1>6. Len(v) = 1 /\ v[1] = Vals[i] OBVIOUS
<1>7. stack' = [stack EXCEPT ![K] = g] BY <1>2 DEF WithVals, Top
<1> HIDE DEF v, g
<1>8. /\ Len(stack') = K /\ stack' # <<>> /\ stack'[K] = g
      /\ \A k \in 1..K - 1 : stack'[k] = stack[k]
  BY <1>4, <1>7
<1>9. nodes' = [nodes EXCEPT ![Vals[i].set] = Nodes(Vals[i]) \union Nodes(Vals[j])]
  BY <1>2 DEF Merge, Nodes
<1>10. /\ \A s \in Below : nodes'[s] = nodes[s]
       /\ nodes'[Vals[i].set] = Nodes(Vals[i]) \union Nodes(Vals[j])
  BY <1>1, <1>3, <1>9, SetsStay
<1>11. Coming(stack', K) = {} BY <1>4, <1>8 DEF Coming
<1>12. ASSUME ~Exposed
       PROVE  /\ FrameExact(g, {}, nodes', warned')
              /\ warned \subseteq warned' /\ warned' \subseteq Warnings(query)
  <2>1. Collects(Top, {}, nodes, warned) /\ warned \subseteq Warnings(query) BY <1>1, <1>12, LoopKnows
  <2>2. Seen(g) = Seen(Top) BY <1>5 DEF Seen
  <2>3. Collected(g, {}, nodes')
    <3>1. \A x : (\E n \in Seen(Top) : x \in TextOf(Meaning, n))
                   <=> \E k \in 1..Len(Vals) : x \in nodes[Vals[k].set]
      BY <2>1 DEF Collects, Collected, Vals
    <3>2. ASSUME NEW x
          PROVE  (\E k \in 1..Len(v) : x \in nodes'[v[k].set])
                   <=> \E k \in 1..Len(Vals) : x \in nodes[Vals[k].set]
      <4>1. (\E k \in 1..Len(v) : x \in nodes'[v[k].set]) <=> x \in nodes'[Vals[i].set] BY <1>6
      <4>2. \A k : k \in 1..Len(Vals) <=> k = i \/ k = j BY <1>1, <1>2
      <4>3. x \in nodes'[Vals[i].set] <=> x \in nodes[Vals[i].set] \/ x \in nodes[Vals[j].set]
        BY <1>10 DEF Nodes
      <4>4. QED BY <4>1, <4>2, <4>3
    <3>3. QED BY <1>5, <2>2, <3>1, <3>2 DEF Collected
  <2>4. Told(g, {}, warned') BY <1>1, <2>1, <2>2 DEF Collects, Told
  <2>5. \A k \in 1..Len(v) : v[k].quoted => Quotes(e)
    <3>1. Vals[i].quoted => Quotes(e) BY <1>3, <2>1 DEF Collects, Vals
    <3>2. \A k \in 1..Len(v) : v[k] = Vals[i] BY <1>6
    <3>3. QED BY <3>1, <3>2
  <2>6. Collects(g, {}, nodes', warned') BY <1>1, <1>5, <2>1, <2>3, <2>4, <2>5 DEF Collects
  <2>7. FrameExact(g, {}, nodes', warned') BY <1>1, <1>5, <2>6 DEF FrameExact
  <2>8. QED BY <1>1, <2>1, <2>7
<1>13. QED BY <1>1, <1>5, <1>8, <1>10, <1>11, <1>12, TopExact

(* The name asked for stands for the cached set that joins the loop's.     *)
LEMMA CachedVipsExact == Holding /\ CachedVips => ExactInv'
<1> SUFFICES ASSUME Holding, CachedVips PROVE ExactInv' OBVIOUS
<1> DEFINE e == Top.expr  K == Len(stack)  g == stack'[K]
<1>1. /\ InCluster(1) /\ stack # <<>> /\ Top.at = "cluster"
      /\ TypeInv /\ OwnInv /\ ExactInv /\ VipsKept
  BY DEF CachedVips, InCluster, Holding, Sparing, SparesInv
<1>2. PICK w \in DOMAIN Vips :
        /\ Vips[w].name \in Top.todo
        /\ stack' = [Looking(Vips[w].name) EXCEPT ![K].vals = Append(@, RangeOf(w, FALSE))]
  BY DEF CachedVips
<1>3. nodes' = nodes /\ warned' = warned /\ query' = query BY DEF CachedVips, sets
<1> DEFINE r == RangeOf(w, FALSE)  v == Append(Vals, r)  name == Vips[w].name
<1>4. r.set = w /\ r.quoted = FALSE BY DEF RangeOf
<1>5. VipNodes(name) = nodes[w] BY <1>1, VipNodesAre DEF VipsKept
<1>6. name \in VipNames /\ name \in Top.todo /\ name \notin DOMAIN Texts
  BY <1>2, VipsAssumption DEF VipNames, VipsAssumption
<1>7. /\ Len(stack') = K /\ stack' # <<>> /\ K \in Nat \ {0}
      /\ \A k \in 1..K - 1 : stack'[k] = stack[k]
      /\ g.at = Top.at /\ g.expr = e /\ g.todo = Top.todo \ {name} /\ g.vals = v
  BY <1>1, <1>2, LoopTakes
<1>8. Vals \in Seq(Ranges(N)) /\ Len(Vals) \in Nat BY <1>1, TopFrame
<1> HIDE DEF r
<1>9. /\ Len(v) = Len(Vals) + 1 /\ v[Len(Vals) + 1] = r
      /\ \A i \in 1..Len(Vals) : v[i] = Vals[i]
  BY <1>8
<1> HIDE DEF v, g, name
<1>10. Coming(stack', K) = {} BY <1>7 DEF Coming
<1>11. ASSUME ~Exposed
       PROVE  /\ FrameExact(g, {}, nodes', warned')
              /\ warned \subseteq warned' /\ warned' \subseteq Warnings(query)
  <2>1. /\ Collects(Top, {}, nodes, warned) /\ e \in Expression /\ e.op = "function" /\ e.fn = "cluster"
        /\ warned \subseteq Warnings(query)
    BY <1>1, <1>11, LoopKnows
  <2>2. name \in Named(e) BY <1>6, <2>1 DEF Collects
  <2>3. \A n : n \in Seen(g) <=> n \in Seen(Top) \/ n = name BY <1>7, <2>2 DEF Seen
  <2>4. TextOf(Meaning, name) = nodes[w] /\ TextWarnings(name) = {}
    BY <1>5, <1>6 DEF TextOf, TextWarnings
  <2>5. Collected(g, {}, nodes')
    <3>1. \A x : (\E n \in Seen(Top) : x \in TextOf(Meaning, n))
                   <=> \E i \in 1..Len(Vals) : x \in nodes[Vals[i].set]
      BY <2>1 DEF Collects, Collected, Vals
    <3>2. \A x : (\E n \in Seen(g) : x \in TextOf(Meaning, n))
                   <=> (\E n \in Seen(Top) : x \in TextOf(Meaning, n)) \/ x \in nodes[w]
      BY <2>3, <2>4
    <3>3. ASSUME NEW x
          PROVE  (\E i \in 1..Len(v) : x \in nodes'[v[i].set])
                   <=> (\E i \in 1..Len(Vals) : x \in nodes[Vals[i].set]) \/ x \in nodes[w]
      <4>1. \A i \in 1..Len(v) : i \in 1..Len(Vals) \/ i = Len(Vals) + 1 BY <1>8, <1>9
      <4>2. \A i \in 1..Len(Vals) : i \in 1..Len(v) /\ nodes'[v[i].set] = nodes[Vals[i].set]
        BY <1>3, <1>8, <1>9
      <4>3. Len(Vals) + 1 \in 1..Len(v) /\ nodes'[v[Len(Vals) + 1].set] = nodes[w]
        BY <1>3, <1>4, <1>8, <1>9
      <4>4. QED BY <4>1, <4>2, <4>3
    <3>4. QED BY <1>7, <3>1, <3>2, <3>3 DEF Collected
  <2>6. Told(g, {}, warned') BY <1>3, <2>1, <2>3, <2>4 DEF Collects, Told
  <2>7. \A i \in 1..Len(v) : v[i].quoted => Quotes(e)
    <3>1. \A i \in 1..Len(Vals) : Vals[i].quoted => Quotes(e) BY <2>1 DEF Collects, Vals
    <3>2. QED BY <1>4, <1>8, <1>9, <3>1
  <2>8. g.todo \subseteq Named(g.expr) BY <1>7, <2>1 DEF Collects
  <2>9. Collects(g, {}, nodes', warned') BY <1>3, <1>7, <2>1, <2>5, <2>6, <2>7, <2>8 DEF Collects
  <2>10. FrameExact(g, {}, nodes', warned') BY <1>1, <1>7, <2>9 DEF FrameExact
  <2>11. QED BY <1>3, <2>1, <2>10
<1>12. stack'[K] = g BY DEF g
<1>13. \A s \in Below : nodes'[s] = nodes[s] BY <1>3
<1>14. QED BY <1>1, <1>3, <1>7, <1>10, <1>11, <1>12, <1>13, TopExact

(* A request begins with nothing computed and nothing warned of. *)
LEMMA AskExact == ASSUME NEW q \in Queries PROVE Holding /\ Ask(q) => ExactInv'
<1> SUFFICES ASSUME Ask(q) PROVE ExactInv' OBVIOUS
<1> DEFINE f == Evaluation(q, TRUE)
<1>1. /\ stack' = <<f>> /\ rr_r' = <<>> /\ warned' = {} /\ query' = q BY DEF Ask
<1>2. f.at = "ast" /\ f.expr = q /\ f.vals = <<>> BY DEF Evaluation
<1> HIDE DEF f
<1>3. Len(stack') = 1 /\ stack'[1] = f /\ stack' # <<>> BY <1>1
<1>4. \A k \in 1..Len(stack') : stack'[k] = f BY <1>3
<1>5. FrameExact(f, Coming(stack', 1), nodes', warned') BY <1>2 DEF FrameExact, Answers
<1>6. \A k \in 1..Len(stack') : FrameExact(stack'[k], Coming(stack', k), nodes', warned')
  <2>1. \A k \in 1..Len(stack') : k = 1 BY <1>3
  <2>2. QED BY <1>3, <1>5, <2>1
<1>7. \A k \in 1..Len(stack') : Met[stack'[k].expr] \subseteq Met[query'] BY <1>1, <1>2, <1>4
<1>8. \A k \in 1..Len(stack') - 1 : Linked(stack'[k], stack'[k + 1]) BY <1>3
<1>9. stack'[1].expr = query' BY <1>1, <1>2, <1>3
<1>10. StackExact(stack', nodes', warned', query') BY <1>6, <1>7, <1>8, <1>9 DEF StackExact
<1>11. ~Answered' BY <1>3 DEF Answered
<1>12. warned' \subseteq Warnings(query)' BY <1>1
<1>13. QED BY <1>10, <1>11, <1>12 DEF ExactInv

LEMMA StillExact == Holding /\ UNCHANGED vars => ExactInv'
<1> SUFFICES ASSUME ExactInv, UNCHANGED vars PROVE ExactInv' BY DEF Holding, Sparing
<1>1. stack' = stack /\ nodes' = nodes /\ warned' = warned /\ query' = query /\ rr_r' = rr_r
  BY DEF vars, sets
<1>2. Exposed' = Exposed /\ Answered' = Answered /\ Value' = Value
  BY <1>1 DEF Exposed, Answered, Value, Nodes
<1>3. QED BY <1>1, <1>2 DEF ExactInv

LEMMA NextExact == Holding /\ [Next]_vars => Holding'
<1> SUFFICES ASSUME Holding, [Next]_vars PROVE Holding' OBVIOUS
<1>1. Sparing' BY NextSparing DEF Holding
<1>2. ExactInv'
  BY LeafExact, UnionExact, DiffExact, InterExact, NotExact, RegexExact, BracesExact,
     NoFunctionExact, CallClusterExact, FunctionDoneExact, DescendExact, ExpandTextExact,
     NoClusterExact, CachedVipsExact, MergeClusterExact, ClusterDoneExact, AskExact, StillExact
  DEF Next, Step
<1>3. QED BY <1>1, <1>2 DEF Holding

LEMMA InitExact == Init => ExactInv
BY DEF Init, ExactInv, Answered

LEMMA ExactAlways == ASSUME SparesVips PROVE Spec => []ExactInv
<1>1. Init => Holding BY InitTypes, InitOwns, InitSpares, InitExact DEF Holding, Sparing
<1>2. Holding => ExactInv BY DEF Holding
<1>3. Holding /\ [Next]_vars => Holding' BY NextExact
<1>4. QED BY <1>1, <1>2, <1>3, PTL DEF Spec

(* Where cached VIPs are only asked for by name, alone or on the right of  *)
(* a difference, the value that a request ends with is what its expression *)
(* is documented to stand for, for every such expression and all texts     *)
(* that do not look each other up in a circle: overwriting an operand in   *)
(* range_evaluate, merging the smaller set into the bigger, evaluating a   *)
(* text below another and handing out a set of the cache change nothing of *)
(* it.                                                                     *)
THEOREM AlwaysExact == ASSUME SparesVips PROVE Spec => []ResultExact
<1>1. ExactInv => ResultExact BY DEF ExactInv, ResultExact
<1>2. QED BY <1>1, ExactAlways, PTL

(* There, a request ends with exactly the warnings that the expressions it *)
(* went through deserve: range_request_warn_type is called for none too    *)
(* many, none of them for a cluster whose VIPs are cached, and none is     *)
(* lost with the text it came up in.                                       *)
THEOREM AlwaysWarned == ASSUME SparesVips PROVE Spec => []WarnedExactly
<1>1. ExactInv => WarnedExactly BY DEF ExactInv, WarnedExactly
<1>2. QED BY <1>1, ExactAlways, PTL

(***************************************************************************)
(* Every request ends, where texts do not look each other up in a circle:  *)
(* the calls are no deeper than twice what is met in the expression, and   *)
(* what is left to do in them, from the outermost call to the innermost,   *)
(* becomes less with every step.                                           *)
(***************************************************************************)
Size(e) == Cardinality(Met[e])

(* What an expression evaluates, or looks up, is smaller.                  *)
LEMMA SizeFalls ==
  ASSUME NoCircles, NEW e \in Expression
  PROVE  /\ Size(e) \in Nat \ {0}
         /\ \A i \in 1..Len(Operands(e)) : Size(Operands(e)[i]) \in Nat /\ Size(Operands(e)[i]) < Size(e)
         /\ \A n \in Named(e) \intersect DOMAIN Texts : Size(Texts[n]) \in Nat /\ Size(Texts[n]) < Size(e)
<1>1. IsFiniteSet(Met[e]) BY DEF NoCircles
<1>2. ASSUME NEW d, Met[d] \subseteq Met[e], e \notin Met[d] PROVE Size(d) \in Nat /\ Size(d) < Size(e)
  <2> DEFINE S == Met[e]  T == Met[d]
  <2>1. e \in S /\ e \notin T /\ T \in SUBSET S /\ IsFiniteSet(S) BY <1>1, <1>2, MetIs
  <2> HIDE DEF S, T
  <2>2. /\ IsFiniteSet(T) /\ Cardinality(T) <= Cardinality(S)
        /\ Cardinality(S) = Cardinality(T) => S = T
    BY <2>1, FS_Subset
  <2>3. Cardinality(S) \in Nat /\ Cardinality(T) \in Nat BY <2>1, <2>2, FS_CardinalityType
  <2>4. S # T BY <2>1
  <2>5. Cardinality(T) < Cardinality(S) BY <2>2, <2>3, <2>4
  <2>6. QED BY <2>3, <2>5 DEF Size, S, T
<1>3. Size(e) \in Nat \ {0}
  <2>1. e \in Met[e] BY MetIs
  <2>2. Cardinality(Met[e]) \in Nat /\ Cardinality(Met[e]) # 0 BY <1>1, <2>1, FS_CardinalityType, FS_EmptySet
  <2>3. QED BY <2>2 DEF Size
<1>4. \A i \in 1..Len(Operands(e)) : Met[Operands(e)[i]] \subseteq Met[e] /\ e \notin Met[Operands(e)[i]]
  BY MetIs DEF NoCircles
<1>5. \A n \in Named(e) \intersect DOMAIN Texts : Met[Texts[n]] \subseteq Met[e] /\ e \notin Met[Texts[n]]
  BY MetIs DEF NoCircles
<1>6. QED BY <1>2, <1>3, <1>4, <1>5

(* How deep the calls above a frame can become, the frame counted.         *)
Height(f) == 2 * Size(f.expr) + IF f.at = "ast" THEN 1 ELSE 0

LEMMA HeightFalls ==
  ASSUME NoCircles, NEW n \in Nat, NEW f \in FrameIn(n), NEW g \in FrameIn(n), Waits(f, g), Linked(f, g),
         f.at # "ast" => f.todo \subseteq Named(f.expr)
  PROVE  Height(f) \in Nat /\ Height(g) \in Nat /\ 2 <= Height(g) /\ Height(g) < Height(f)
<1>1. /\ f.expr \in Expression /\ g.expr \in Expression /\ Len(f.vals) \in Nat
      /\ f.at \in {"ast", "cluster"} /\ g.at \in {"ast", "cluster"}
  BY DEF FrameIn
<1>2. Size(f.expr) \in Nat \ {0} /\ Size(g.expr) \in Nat \ {0} BY <1>1, SizeFalls
<1>3. Len(Operands(f.expr)) \in Nat BY <1>1, OperandsOK
<1>4. Height(f) \in Nat /\ Height(g) \in Nat /\ 2 <= Height(g) BY <1>2 DEF Height
<1>5. CASE f.at = "ast" /\ g.at = "ast"
  <2>1. Len(f.vals) < Len(Operands(f.expr)) BY <1>5 DEF Waits
  <2>2. Len(f.vals) + 1 \in 1..Len(Operands(f.expr)) BY <1>1, <1>3, <2>1
  <2>3. g.expr = Operands(f.expr)[Len(f.vals) + 1] BY <1>5, <2>2 DEF Linked, Due
  <2>4. Size(g.expr) < Size(f.expr) BY <1>1, <2>2, <2>3, SizeFalls
  <2>5. QED BY <1>2, <1>4, <1>5, <2>4 DEF Height
<1>6. CASE f.at = "ast" /\ g.at = "cluster"
  <2>1. Len(f.vals) = Len(Operands(f.expr)) BY <1>6 DEF Waits
  <2>2. ~(Len(f.vals) + 1 <= Len(Operands(f.expr))) BY <1>3, <2>1
  <2>3. g.expr = f.expr BY <1>6, <2>2 DEF Linked, Due
  <2>4. QED BY <1>2, <1>4, <1>6, <2>3 DEF Height
<1>7. CASE f.at = "cluster"
  <2>1. g.at = "ast" BY <1>7 DEF Waits
  <2>2. PICK t \in Seen(f) \intersect DOMAIN Texts : g.expr = Texts[t] BY <1>7 DEF Linked
  <2>3. t \in Named(f.expr) \intersect DOMAIN Texts BY <2>2 DEF Seen
  <2>4. Size(g.expr) < Size(f.expr) BY <1>1, <2>2, <2>3, SizeFalls
  <2>5. QED BY <1>2, <1>4, <1>7, <2>1, <2>4 DEF Height
<1>8. QED BY <1>1, <1>5, <1>6, <1>7

(* A set of naturals that is not empty has a least one.                    *)
LEMMA NatHasLeast ==
  ASSUME NEW S \in SUBSET Nat, S # {}
  PROVE  \E m \in S : \A n \in S : m <= n
<1> DEFINE R == OpToRel(<, Nat)
<1>1. \A k, l \in Nat : k < l => <<k, l>> \in R
  <2>1. R = {ss \in Nat \X Nat : ss[1] < ss[2]} BY Zenon DEF OpToRel
  <2>2. QED BY <2>1
<1>2. IsWellFoundedOn(R, Nat) BY NatLessThanWellFounded
<1> HIDE DEF R
<1>3. PICK m \in S : \A n \in S : ~(<<n, m>> \in R) BY <1>2, WFMin, Zenon
<1>4. ASSUME NEW n \in S PROVE m <= n
  <2>1. n \in Nat /\ m \in Nat OBVIOUS
  <2>2. ~(n < m) BY <1>1, <1>3, <2>1
  <2>3. QED BY <2>1, <2>2
<1>5. QED BY <1>4

(* So the calls are no deeper than that.                                   *)
LEMMA FallsWithin ==
  ASSUME NEW K \in Nat \ {0}, NEW h \in [1..K -> Nat], \A k \in 1..K - 1 : h[k + 1] < h[k]
  PROVE  K + h[K] <= h[1] + 1
<1> DEFINE Over == {k \in 1..K : k + h[k] > h[1] + 1}
<1>1. SUFFICES ASSUME Over # {} PROVE FALSE
  <2>1. K \in 1..K /\ 1 \in 1..K OBVIOUS
  <2>2. h[K] \in Nat /\ h[1] \in Nat BY <2>1
  <2>3. K \notin Over BY <1>1
  <2>4. QED BY <2>1, <2>2, <2>3
<1>2. Over \in SUBSET Nat OBVIOUS
<1>3. PICK m \in Over : \A k \in Over : m <= k BY <1>1, <1>2, NatHasLeast
<1>4. m \in 1..K /\ m + h[m] > h[1] + 1 /\ h[m] \in Nat /\ h[1] \in Nat BY <1>3
<1>5. m # 1 BY <1>4
<1>6. m - 1 \in 1..K - 1 /\ m - 1 \in 1..K /\ (m - 1) + 1 = m BY <1>4, <1>5
<1>7. m - 1 \notin Over
  <2>1. ~(m <= m - 1) BY <1>4
  <2>2. QED BY <1>3, <2>1
<1>8. h[m - 1] \in Nat /\ (m - 1) + h[m - 1] <= h[1] + 1 BY <1>4, <1>6, <1>7
<1>9. h[m] < h[m - 1] BY <1>6
<1>10. QED BY <1>4, <1>8, <1>9

(* What is left to do in a call that evaluates its operands, or looks up   *)
(* names: while a call above it is at one of them, and at other times.     *)
WaitLeft(f) ==
  IF f.at = "ast" THEN 2 * (1 + Len(Operands(f.expr)) - Len(f.vals)) ELSE 4 * Cardinality(f.todo) + 4
TopLeft(f) ==
  IF f.at = "ast" THEN 2 * (1 + Len(Operands(f.expr)) - Len(f.vals)) + 1
  ELSE 4 * Cardinality(f.todo) + (IF Len(f.vals) = 2 THEN 3 ELSE 1)

LEMMA FrameLeftIs ==
  ASSUME NoCircles, NEW n \in Nat, NEW f \in FrameIn(n), Holds(f),
         f.at # "ast" => f.todo \subseteq Named(f.expr)
  PROVE  /\ f.at # "ast" => IsFiniteSet(f.todo) /\ Cardinality(f.todo) \in Nat
         /\ WaitLeft(f) \in Nat /\ TopLeft(f) \in Nat \ {0}
<1>1. f.expr \in Expression /\ Len(f.vals) \in Nat /\ f.at \in {"ast", "cluster"} BY DEF FrameIn
<1>2. CASE f.at = "ast"
  <2>1. Len(Operands(f.expr)) \in Nat BY <1>1, OperandsOK
  <2>2. Len(f.vals) <= Len(Operands(f.expr)) + 1 BY <1>1, <1>2, <2>1 DEF Holds, Returned
  <2> DEFINE o == Len(Operands(f.expr))  v == Len(f.vals)
  <2>3. WaitLeft(f) = 2 * (1 + o - v) /\ TopLeft(f) = 2 * (1 + o - v) + 1 BY <1>2 DEF WaitLeft, TopLeft
  <2>4. o \in Nat /\ v \in Nat /\ v <= o + 1 BY <1>1, <2>1, <2>2
  <2> HIDE DEF o, v
  <2>5. 2 * (1 + o - v) \in Nat BY <2>4
  <2>6. WaitLeft(f) \in Nat /\ TopLeft(f) \in Nat \ {0} BY <2>3, <2>5
  <2>7. QED BY <1>2, <2>6
<1>3. CASE f.at = "cluster"
  <2>1. IsFiniteSet(Named(f.expr)) BY <1>1 DEF NoCircles
  <2>2. IsFiniteSet(f.todo) BY <1>3, <2>1, FS_Subset
  <2>3. Cardinality(f.todo) \in Nat BY <2>2, FS_CardinalityType
  <2>4. QED BY <1>3, <2>2, <2>3 DEF WaitLeft, TopLeft
<1>4. QED BY <1>1, <1>2, <1>3

(* And in all calls, of which there are at most d.                         *)
LeftIn(st, k) == IF k < Len(st) THEN WaitLeft(st[k]) ELSE TopLeft(st[k])
Left(st, d) == [k \in 1..d |-> IF k <= Len(st) THEN LeftIn(st, k) ELSE 0]

Depth == 2 * Size(query)
Remaining == Left(stack, Depth)
Order(n) == LexProductOrdering(OpToRel(<, Nat), Nat, n)

(* There is no endless descent in it.                                      *)
LEMMA OrderEnds == \A n \in Nat : IsWellFoundedOn(Order(n), [1..n -> Nat])
<1> DEFINE R == OpToRel(<, Nat)
<1>1. IsWellFoundedOn(R, Nat) BY NatLessThanWellFounded
<1> HIDE DEF R
<1>2. \A n \in Nat : IsWellFoundedOn(LexProductOrdering(R, Nat, n), [1..n -> Nat])
  BY <1>1, WFLexProductOrdering, Zenon
<1>3. QED BY <1>2 DEF Order, R

(* The calls are no deeper than d, and each has a natural left to do.      *)
MeasuredBy(st, d) ==
  /\ d \in Nat /\ Len(st) \in 1..d
  /\ \A k \in 1..Len(st) : /\ WaitLeft(st[k]) \in Nat /\ TopLeft(st[k]) \in Nat \ {0}
                           /\ st[k].at # "ast" => IsFiniteSet(st[k].todo)
Measured == stack # <<>> => MeasuredBy(stack, Depth)

(* What the loops have still to look up is named.                          *)
LEMMA LoopsNamed ==
  ASSUME Holding, ~Exposed, stack # <<>>, NEW k \in 1..Len(stack)
  PROVE  stack[k].at # "ast" => stack[k].todo \subseteq Named(stack[k].expr)
<1>1. FrameExact(stack[k], Coming(stack, k), nodes, warned) BY DEF Holding, ExactInv, StackExact
<1>2. QED BY <1>1 DEF FrameExact, Collects

LEMMA DepthHolds == ASSUME NoCircles PROVE Holding /\ ~Exposed => Measured
<1> SUFFICES ASSUME Holding, ~Exposed, stack # <<>>
             PROVE  /\ Depth \in Nat /\ Len(stack) \in 1..Depth
                    /\ \A k \in 1..Len(stack) : /\ WaitLeft(stack[k]) \in Nat
                                                /\ TopLeft(stack[k]) \in Nat \ {0}
                                                /\ stack[k].at # "ast" => IsFiniteSet(stack[k].todo)
  BY DEF Measured, MeasuredBy
<1> DEFINE K == Len(stack)
<1>1. /\ TypeInv /\ N \in Nat /\ K \in Nat \ {0} /\ stack \in Seq(FrameIn(N))
      /\ \A k \in 1..K : Holds(stack[k])
      /\ \A k \in 1..K - 1 : Waits(stack[k], stack[k + 1])
      /\ stack[1].at = "ast"
  BY TopFrame DEF Holding, Sparing, TypeInv, StackOK
<1>2. (\A k \in 1..K - 1 : Linked(stack[k], stack[k + 1])) /\ stack[1].expr = query
  BY DEF Holding, ExactInv, StackExact
<1>3. \A k \in 1..K : stack[k] \in FrameIn(N) BY <1>1
<1>4. \A k \in 1..K : stack[k].at # "ast" => stack[k].todo \subseteq Named(stack[k].expr) BY LoopsNamed
<1>5. \A k \in 1..Len(stack) : /\ WaitLeft(stack[k]) \in Nat
                               /\ TopLeft(stack[k]) \in Nat \ {0}
                               /\ stack[k].at # "ast" => IsFiniteSet(stack[k].todo)
  BY <1>1, <1>3, <1>4, FrameLeftIs
<1> DEFINE h == [k \in 1..K |-> Height(stack[k])]
<1>6. query \in Expression /\ Size(query) \in Nat \ {0} /\ Depth \in Nat /\ Height(stack[1]) = Depth + 1
  <2>1. query \in Expression BY <1>1, <1>2, <1>3 DEF FrameIn
  <2>2. Size(query) \in Nat \ {0} BY <2>1, SizeFalls
  <2>3. QED BY <1>1, <1>2, <2>1, <2>2 DEF Depth, Height
<1>7. \A k \in 1..K : Height(stack[k]) \in Nat /\ 2 <= Height(stack[k])
  <2>1. ASSUME NEW k \in 1..K PROVE Height(stack[k]) \in Nat /\ 2 <= Height(stack[k])
    <3>1. stack[k].expr \in Expression BY <1>3 DEF FrameIn
    <3>2. Size(stack[k].expr) \in Nat \ {0} BY <3>1, SizeFalls
    <3>3. QED BY <3>2 DEF Height
  <2>2. QED BY <2>1
<1>8. \A k \in 1..K - 1 : Height(stack[k + 1]) < Height(stack[k])
  <2>1. ASSUME NEW k \in 1..K - 1 PROVE Height(stack[k + 1]) < Height(stack[k])
    <3>1. k \in 1..K /\ k + 1 \in 1..K BY <1>1
    <3>2. stack[k] \in FrameIn(N) /\ stack[k + 1] \in FrameIn(N) BY <1>3, <3>1
    <3>3. Waits(stack[k], stack[k + 1]) /\ Linked(stack[k], stack[k + 1]) BY <1>1, <1>2
    <3>4. stack[k].at # "ast" => stack[k].todo \subseteq Named(stack[k].expr) BY <1>4, <3>1
    <3>5. QED BY <1>1, <3>2, <3>3, <3>4, HeightFalls
  <2>2. QED BY <2>1
<1>9. h \in [1..K -> Nat] /\ \A k \in 1..K : h[k] = Height(stack[k]) BY <1>7
<1>10. \A k \in 1..K - 1 : h[k + 1] < h[k]
  <2>1. \A k \in 1..K - 1 : k \in 1..K /\ k + 1 \in 1..K BY <1>1
  <2>2. QED BY <1>8, <1>9, <2>1
<1>11. K \in 1..K /\ 1 \in 1..K BY <1>1
<1>12. h[K] \in Nat /\ 2 <= h[K] /\ h[1] = Depth + 1 BY <1>6, <1>7, <1>9, <1>11
<1>13. K \in Nat \ {0} BY <1>1
<1> HIDE DEF h, K
<1>14. K + h[K] <= h[1] + 1 BY <1>9, <1>10, <1>13, FallsWithin
<1>15. K \in 1..Depth BY <1>6, <1>12, <1>13, <1>14
<1>16. Len(stack) \in 1..Depth BY <1>15 DEF K
<1>17. Depth \in Nat BY <1>6
<1>18. QED BY <1>5, <1>16, <1>17, Zenon

LEMMA DepthHoldsNext == ASSUME NoCircles PROVE Holding' /\ ~Exposed' => Measured'
<1>1. Holding /\ ~Exposed => Measured BY DepthHolds
<1>2. QED BY <1>1, PTL

BoundedDepth == stack # <<>> /\ ~Exposed => Len(stack) <= Depth

(* In each state of such a request the calls are no deeper than twice the  *)
(* number of expressions that are met in the one asked for: neither texts  *)
(* that look up others, nor their parts, make range_evaluate recur deeper. *)
THEOREM StackBounded == ASSUME SparesVips, NoCircles PROVE Spec => []BoundedDepth
<1>1. Holding => BoundedDepth
  <2>1. Holding /\ ~Exposed => Measured BY DepthHolds
  <2>2. QED BY <2>1 DEF BoundedDepth, Measured, MeasuredBy
<1>2. Init => Holding BY InitTypes, InitOwns, InitSpares, InitExact DEF Holding, Sparing
<1>3. Holding /\ [Next]_vars => Holding' BY NextExact
<1>4. QED BY <1>1, <1>2, <1>3, PTL DEF Spec

(* What a step does, from the first call that it changes.                  *)
LEMMA LexFalls ==
  ASSUME NEW n \in Nat, NEW x \in [1..n -> Nat], NEW y \in [1..n -> Nat], NEW k \in 1..n,
         \A l \in 1..k - 1 : x[l] = y[l], x[k] < y[k]
  PROVE  <<x, y>> \in Order(n)
<1> DEFINE R == OpToRel(<, Nat)
<1>1. \A i, j \in Nat : i < j => <<i, j>> \in R
  <2>1. R = {ss \in Nat \X Nat : ss[1] < ss[2]} BY Zenon DEF OpToRel
  <2>2. QED BY <2>1
<1> HIDE DEF R
<1>2. <<x[k], y[k]>> \in R BY <1>1
<1>3. <<x, y>> \in LexProductOrdering(R, Nat, n) BY <1>2 DEF LexProductOrdering
<1>4. QED BY <1>3 DEF Order, R

(* The call st[k] has less to do, those below it are as they were.         *)
LEMMA CallDescends ==
  ASSUME NEW d, NEW st, MeasuredBy(st, d), NEW st2, MeasuredBy(st2, d),
         NEW k \in 1..Len(st), k <= Len(st2), \A l \in 1..k - 1 : st2[l] = st[l],
         LeftIn(st2, k) < LeftIn(st, k)
  PROVE  <<Left(st2, d), Left(st, d)>> \in Order(d)
<1> DEFINE x == Left(st2, d)  y == Left(st, d)
<1>1. d \in Nat /\ Len(st) \in 1..d /\ Len(st2) \in 1..d BY DEF MeasuredBy
<1>2. ASSUME NEW s, MeasuredBy(s, d)
      PROVE  /\ Left(s, d) \in [1..d -> Nat]
             /\ \A l \in 1..Len(s) : Left(s, d)[l] = LeftIn(s, l)
  <2>1. d \in Nat /\ Len(s) \in 1..d BY <1>2 DEF MeasuredBy
  <2>2. \A l \in 1..d : l <= Len(s) => LeftIn(s, l) \in Nat
    <3>1. ASSUME NEW l \in 1..d, l <= Len(s) PROVE LeftIn(s, l) \in Nat
      <4>1. l \in 1..Len(s) BY <2>1, <3>1
      <4>2. WaitLeft(s[l]) \in Nat /\ TopLeft(s[l]) \in Nat BY <1>2, <4>1 DEF MeasuredBy
      <4>3. QED BY <4>2 DEF LeftIn
    <3>2. QED BY <3>1
  <2>3. \A l \in 1..d : Left(s, d)[l] = IF l <= Len(s) THEN LeftIn(s, l) ELSE 0 BY DEF Left
  <2>4. Left(s, d) \in [1..d -> Nat] BY <2>2 DEF Left
  <2>5. \A l \in 1..Len(s) : l \in 1..d /\ l <= Len(s) BY <2>1
  <2>6. QED BY <2>3, <2>4, <2>5
<1>3. x \in [1..d -> Nat] /\ y \in [1..d -> Nat] BY <1>2
<1>4. ASSUME NEW l \in 1..k - 1 PROVE x[l] = y[l]
  <2>1. l \in 1..Len(st) /\ l \in 1..Len(st2) /\ l < Len(st) /\ l < Len(st2) BY <1>1
  <2>2. x[l] = LeftIn(st2, l) /\ y[l] = LeftIn(st, l) BY <1>2, <2>1
  <2>3. st2[l] = st[l] OBVIOUS
  <2>4. QED BY <2>1, <2>2, <2>3 DEF LeftIn
<1>5. k \in 1..Len(st2) /\ k \in 1..d BY <1>1
<1>6. x[k] < y[k] BY <1>2, <1>5
<1> HIDE DEF x, y
<1>7. <<x, y>> \in Order(d) BY <1>1, <1>3, <1>4, <1>5, <1>6, LexFalls
<1>8. QED BY <1>7 DEF x, y

(* The last call returns.                                                  *)
LEMMA LastDescends ==
  ASSUME NEW d, NEW st, MeasuredBy(st, d), Len(st) = 1, NEW st2, Len(st2) = 0
  PROVE  <<Left(st2, d), Left(st, d)>> \in Order(d)
<1> DEFINE x == Left(st2, d)  y == Left(st, d)
<1>1. d \in Nat /\ 1 \in 1..d BY DEF MeasuredBy
<1>2. WaitLeft(st[1]) \in Nat /\ TopLeft(st[1]) \in Nat \ {0} BY DEF MeasuredBy
<1>3. \A l \in 1..d : x[l] = 0 BY DEF Left
<1>4. x \in [1..d -> Nat] BY <1>3 DEF Left
<1>5. \A l \in 1..d : y[l] = IF l = 1 THEN TopLeft(st[1]) ELSE 0
  <2>1. \A l \in 1..d : y[l] = IF l <= 1 THEN LeftIn(st, l) ELSE 0 BY DEF Left
  <2>2. LeftIn(st, 1) = TopLeft(st[1]) BY DEF LeftIn
  <2>3. QED BY <2>1, <2>2
<1>6. y \in [1..d -> Nat] BY <1>2, <1>5 DEF Left
<1>7. x[1] < y[1] /\ \A l \in 1..1 - 1 : x[l] = y[l] BY <1>1, <1>2, <1>3, <1>5
<1> HIDE DEF x, y
<1>8. <<x, y>> \in Order(d) BY <1>1, <1>4, <1>6, <1>7, LexFalls
<1>9. QED BY <1>8 DEF x, y

Descends == <<Remaining', Remaining>> \in Order(Depth)
Going == TypeInv /\ stack # <<>> /\ Measured /\ Measured' /\ query' = query

(* The innermost call has less to do, or calls another one.                *)
LEMMA TopDescends ==
  ASSUME Going, Len(stack') = Len(stack) \/ Len(stack') = Len(stack) + 1,
         \A k \in 1..Len(stack) - 1 : stack'[k] = stack[k],
         NEW g, g = stack'[Len(stack)],
         Len(stack') = Len(stack) => TopLeft(g) < TopLeft(Top),
         Len(stack') # Len(stack) => WaitLeft(g) < TopLeft(Top)
  PROVE  Descends
<1> DEFINE K == Len(stack)  d == Depth  st2 == stack'
<1>1. K \in Nat \ {0} /\ MeasuredBy(stack, d) /\ Top = stack[K] BY TopFrame DEF Going, Measured, Top
<1>2. Depth' = d BY DEF Going, Depth, Size
<1>3. st2 # <<>> BY <1>1
<1>4. MeasuredBy(st2, d) BY <1>2, <1>3 DEF Going, Measured
<1>5. LeftIn(st2, K) < LeftIn(stack, K) BY <1>1 DEF LeftIn
<1>6. K \in 1..K /\ K <= Len(st2) /\ \A k \in 1..K - 1 : st2[k] = stack[k] BY <1>1
<1>7. Remaining = Left(stack, d) /\ Remaining' = Left(st2, d) BY <1>2 DEF Remaining
<1> HIDE DEF K, d, st2
<1>8. <<Left(st2, d), Left(stack, d)>> \in Order(d)
  <2>1. K \in 1..Len(stack) BY <1>6 DEF K
  <2>2. QED BY <1>1, <1>4, <1>5, <1>6, <2>1, CallDescends
<1>9. QED BY <1>7, <1>8 DEF Descends, d

(* A call that returns leaves the one below it less to do.                 *)
LEMMA ReturnDescends ==
  ASSUME NoCircles, Going, NEW r, Return(r)
  PROVE  Descends
<1> DEFINE K == Len(stack)  d == Depth  st2 == stack'  below == Front(stack)
<1>1. K \in Nat \ {0} /\ MeasuredBy(stack, d) /\ N \in Nat /\ StackOK(stack, N)
  BY TopFrame DEF Going, Measured, TypeInv
<1>2. Depth' = d BY DEF Going, Depth, Size
<1>3. Remaining = Left(stack, d) /\ Remaining' = Left(st2, d) BY <1>2 DEF Remaining
<1>4. /\ Len(below) = K - 1 /\ StackOK(below, N)
      /\ \A k \in 1..K - 1 : below[k] = stack[k]
      /\ below # <<>> => K > 1
      /\ below = <<>> => K = 1
  BY <1>1, PopFrame DEF Going
<1>5. st2 # <<>> => MeasuredBy(st2, d) BY <1>2 DEF Going, Measured
<1>6. CASE below = <<>>
  <2>1. Len(st2) = 0 BY <1>6 DEF Return
  <2>2. <<Left(st2, d), Left(stack, d)>> \in Order(d) BY <1>1, <1>4, <1>6, <2>1, LastDescends
  <2>3. QED BY <1>3, <2>2 DEF Descends
<1>7. CASE below # <<>>
  <2> DEFINE n == K - 1  f == stack[n]  h == [f EXCEPT !.vals = Append(f.vals, r)]
  <2>1. n \in 1..n /\ n \in Nat /\ n < K /\ n \in 1..K - 1 /\ n + 1 = K /\ n \in 1..K BY <1>1, <1>4, <1>7
  <2>2. st2 = [below EXCEPT ![n] = h] BY <1>4, <1>7, <2>1 DEF Return
  <2>3. below \in [1..n -> FrameIn(N)]
    <3>1. below \in Seq(FrameIn(N)) /\ Len(below) = n BY <1>4 DEF StackOK
    <3>2. QED BY <3>1
  <2>4. st2 \in [1..n -> FrameIn(N) \union {h}] /\ st2[n] = h /\ \A k \in 1..n - 1 : st2[k] = stack[k]
    BY <1>4, <2>1, <2>2, <2>3
  <2>5. Len(st2) = n BY <2>1, <2>4, FunctionIsSeq
  <2>6. f \in FrameIn(N) /\ Holds(f) /\ Waits(f, stack[n + 1]) BY <1>1, <2>1 DEF StackOK
  <2> HIDE DEF f
  <2>7. h.at = f.at /\ h.expr = f.expr /\ h.todo = f.todo /\ h.vals = Append(f.vals, r) BY <2>6 DEF FrameIn
  <2>8. f.vals \in Seq(Ranges(N)) /\ Len(f.vals) \in Nat /\ f.expr \in Expression BY <2>6 DEF FrameIn
  <2>9. Len(h.vals) = Len(f.vals) + 1
    <3>1. f.vals \in Seq(Ranges(N) \union {r}) BY <2>8, SeqMonotonic
    <3>2. QED BY <2>7, <3>1, AppendProperties
  <2> HIDE DEF h
  <2>10. TopLeft(h) < WaitLeft(f)
    <3>1. CASE f.at = "ast"
      <4>1. Len(Operands(f.expr)) \in Nat BY <2>8, OperandsOK
      <4> DEFINE o == Len(Operands(f.expr))  v == Len(f.vals)
      <4>2. WaitLeft(f) = 2 * (1 + o - v) /\ TopLeft(h) = 2 * (1 + o - (v + 1)) + 1
        BY <2>7, <2>9, <3>1 DEF WaitLeft, TopLeft
      <4>3. o \in Nat /\ v \in Nat BY <2>8, <4>1
      <4> HIDE DEF o, v
      <4>4. QED BY <4>2, <4>3
    <3>2. CASE f.at # "ast"
      <4>1. f.at = "cluster" BY <2>6, <3>2 DEF FrameIn
      <4>2. Len(f.vals) = 1 BY <2>6, <4>1 DEF Waits
      <4>3. TopLeft(h) = 4 * Cardinality(f.todo) + 3 /\ WaitLeft(f) = 4 * Cardinality(f.todo) + 4
        BY <2>7, <2>9, <3>2, <4>2 DEF WaitLeft, TopLeft
      <4>4. IsFiniteSet(f.todo) BY <1>1, <2>1, <3>2 DEF MeasuredBy, f
      <4>5. Cardinality(f.todo) \in Nat BY <4>4, FS_CardinalityType
      <4>6. QED BY <4>3, <4>5
    <3>3. QED BY <3>1, <3>2
  <2>11. LeftIn(st2, n) < LeftIn(stack, n) BY <2>1, <2>4, <2>5, <2>10 DEF LeftIn, f
  <2>12. st2 # <<>> BY <2>1, <2>5
  <2>13. n \in 1..Len(stack) BY <2>1
  <2> HIDE DEF n, st2, d, K
  <2>14. <<Left(st2, d), Left(stack, d)>> \in Order(d)
    BY <1>1, <1>5, <2>1, <2>4, <2>5, <2>11, <2>12, <2>13, CallDescends
  <2>15. QED BY <1>3, <2>14 DEF Descends, d
<1>8. QED BY <1>6, <1>7

(* The innermost call evaluates one operand more, or has its own value.    *)
LEMMA EvaluatingFalls ==
  ASSUME TypeInv, stack # <<>>, Top.at = "ast"
  PROVE  /\ WaitLeft(Top) < TopLeft(Top)
         /\ \A r : \A S : r \in S /\ Vals \in Seq(S) => TopLeft([Top EXCEPT !.vals = Append(Vals, r)]) < TopLeft(Top)
<1>1. /\ Top \in FrameIn(N) /\ Len(Operands(Top.expr)) \in Nat /\ Len(Vals) \in Nat
      /\ Vals = Top.vals
  BY TopFrame DEF Vals
<1> DEFINE o == Len(Operands(Top.expr))  v == Len(Vals)
<1>2. o \in Nat /\ v \in Nat BY <1>1
<1>3. WaitLeft(Top) = 2 * (1 + o - v) /\ TopLeft(Top) = 2 * (1 + o - v) + 1 BY <1>1 DEF WaitLeft, TopLeft
<1>4. ASSUME NEW S, NEW r \in S, Vals \in Seq(S)
      PROVE  TopLeft([Top EXCEPT !.vals = Append(Vals, r)]) = 2 * (1 + o - (v + 1)) + 1
  <2> DEFINE g == [Top EXCEPT !.vals = Append(Vals, r)]
  <2>1. g.at = "ast" /\ g.expr = Top.expr /\ g.vals = Append(Vals, r) BY <1>1 DEF FrameIn
  <2>2. Len(Append(Vals, r)) = v + 1 BY <1>4, AppendProperties
  <2> HIDE DEF g
  <2>3. TopLeft(g) = 2 * (1 + o - (v + 1)) + 1 BY <2>1, <2>2 DEF TopLeft
  <2>4. QED BY <2>3 DEF g
<1> HIDE DEF o, v
<1>5. 2 * (1 + o - v) < 2 * (1 + o - v) + 1 /\ 2 * (1 + o - (v + 1)) + 1 < 2 * (1 + o - v) + 1 BY <1>2
<1>6. QED BY <1>3, <1>4, <1>5

(* Its loop looks up one name more.                                        *)
LEMMA LookingFalls ==
  ASSUME TypeInv, Measured, InCluster(1), NEW name \in Top.todo,
         NEW g, g.at = "cluster", g.todo = Top.todo \ {name}
  PROVE  WaitLeft(g) < TopLeft(Top) /\ (Len(g.vals) = 2 => TopLeft(g) < TopLeft(Top))
<1>1. stack # <<>> /\ Top.at = "cluster" /\ Len(Top.vals) = 1 BY DEF InCluster, Vals
<1>2. Len(stack) \in 1..Len(stack) /\ Top = stack[Len(stack)] BY <1>1, TopFrame DEF Top
<1>3. IsFiniteSet(Top.todo) BY <1>1, <1>2 DEF Measured, MeasuredBy
<1> DEFINE c == Cardinality(Top.todo)
<1>4. c \in Nat BY <1>3, FS_CardinalityType
<1>5. Cardinality(g.todo) = c - 1 BY <1>3, FS_RemoveElement
<1>6. TopLeft(Top) = 4 * c + 1 BY <1>1 DEF TopLeft
<1>7. WaitLeft(g) = 4 * (c - 1) + 4 BY <1>5 DEF WaitLeft
<1>8. Len(g.vals) = 2 => TopLeft(g) = 4 * (c - 1) + 3 BY <1>5 DEF TopLeft
<1> HIDE DEF c
<1>9. QED BY <1>4, <1>6, <1>7, <1>8

LEMMA PushDescends == ASSUME Going, Descend \/ CallCluster PROVE Descends
<1>1. Top.at = "ast" /\ stack # <<>> BY DEF Descend, CallCluster, Ready, Evaluating
<1>2. PICK f : stack' = Append(stack, f) BY DEF Descend, CallCluster
<1>3. /\ Len(stack) \in Nat \ {0} /\ stack \in Seq(FrameIn(N)) BY TopFrame DEF Going, TypeInv, StackOK
<1>4. /\ Len(stack') = Len(stack) + 1
      /\ \A k \in 1..Len(stack) : stack'[k] = stack[k]
  <2>1. stack \in Seq(FrameIn(N) \union {f}) BY <1>3, SeqMonotonic
  <2>2. QED BY <1>2, <1>3, <2>1, AppendProperties
<1>5. stack'[Len(stack)] = Top BY <1>3, <1>4 DEF Top
<1>6. WaitLeft(Top) < TopLeft(Top) BY <1>1, EvaluatingFalls DEF Going
<1>7. QED BY <1>3, <1>4, <1>5, <1>6, TopDescends

LEMMA NoFunctionDescends == ASSUME Going, NoFunction PROVE Descends
<1> DEFINE r == RangeOf(Fresh, FALSE)  g == [Top EXCEPT !.vals = Append(Vals, r)]  K == Len(stack)
<1>1. Top.at = "ast" /\ stack # <<>> /\ stack' = WithVals(Append(Vals, r))
  BY DEF NoFunction, Ready, Evaluating
<1>2. K \in Nat \ {0} /\ stack \in Seq(FrameIn(N)) /\ Vals \in Seq(Ranges(N))
  BY TopFrame DEF Going, TypeInv, StackOK
<1>3. stack' = [stack EXCEPT ![K] = g] BY <1>1 DEF WithVals, Top
<1>4. Vals \in Seq(Ranges(N) \union {r}) BY <1>2, SeqMonotonic
<1>5. TopLeft(g) < TopLeft(Top) BY <1>1, <1>4, EvaluatingFalls DEF Going
<1> HIDE DEF g
<1>6. Len(stack') = K /\ stack'[K] = g /\ \A k \in 1..K - 1 : stack'[k] = stack[k]
  <2>1. stack \in Seq(FrameIn(N) \union {g}) /\ K \in 1..K BY <1>2, SeqMonotonic
  <2>2. QED BY <1>2, <1>3, <2>1, ExceptSeq
<1>7. QED BY <1>5, <1>6, TopDescends

LEMMA MergeDescends == ASSUME Going, MergeCluster PROVE Descends
<1> DEFINE K == Len(stack)
<1>1. PICK r : stack' = WithVals(<<r>>) BY DEF MergeCluster
<1> DEFINE g == [Top EXCEPT !.vals = <<r>>]
<1>2. stack # <<>> /\ Top.at = "cluster" /\ Len(Top.vals) = 2 BY DEF MergeCluster, InCluster, Vals
<1>3. K \in Nat \ {0} /\ stack \in Seq(FrameIn(N)) /\ Top \in FrameIn(N) /\ Top = stack[K]
  BY TopFrame DEF Going, TypeInv, StackOK, Top
<1>4. stack' = [stack EXCEPT ![K] = g] BY <1>1 DEF WithVals, Top
<1>5. g.at = "cluster" /\ g.todo = Top.todo /\ Len(g.vals) = 1 BY <1>2, <1>3 DEF FrameIn
<1>6. IsFiniteSet(Top.todo) BY <1>2, <1>3 DEF Going, Measured, MeasuredBy
<1>7. Cardinality(Top.todo) \in Nat BY <1>6, FS_CardinalityType
<1>8. TopLeft(Top) = 4 * Cardinality(Top.todo) + 3 BY <1>2 DEF TopLeft
<1> HIDE DEF g
<1>9. TopLeft(g) = 4 * Cardinality(Top.todo) + 1 BY <1>5 DEF TopLeft
<1>10. TopLeft(g) < TopLeft(Top) BY <1>7, <1>8, <1>9
<1>11. Len(stack') = K /\ stack'[K] = g /\ \A k \in 1..K - 1 : stack'[k] = stack[k]
  <2>1. stack \in Seq(FrameIn(N) \union {g}) /\ K \in 1..K BY <1>3, SeqMonotonic
  <2>2. QED BY <1>3, <1>4, <2>1, ExceptSeq
<1>12. QED BY <1>10, <1>11, TopDescends

LEMMA LookedUpDescends ==
  ASSUME Going, InCluster(1), NEW name \in Top.todo, NEW r,
         stack' = [Looking(name) EXCEPT ![Len(stack)].vals = Append(@, r)]
  PROVE  Descends
<1> DEFINE K == Len(stack)  st == Looking(name)  f == st[K]  g == [f EXCEPT !.vals = Append(f.vals, r)]
<1>1. stack # <<>> /\ Top.at = "cluster" /\ Len(Vals) = 1 BY DEF InCluster
<1>2. /\ st \in Seq(FrameIn(N)) /\ K \in Nat \ {0} /\ Len(st) = K
      /\ f = [Top EXCEPT !.todo = Top.todo \ {name}] /\ f \in FrameIn(N)
      /\ f.at = Top.at /\ f.vals = Vals
      /\ \A k \in 1..K - 1 : st[k] = stack[k]
  BY <1>1, LookingOK DEF Going
<1>3. Top \in FrameIn(N) /\ Vals \in Seq(Ranges(N)) BY <1>1, TopFrame DEF Going
<1>4. f.todo = Top.todo \ {name} BY <1>2, <1>3 DEF FrameIn
<1>5. stack' = [st EXCEPT ![K] = g] OBVIOUS
<1> HIDE DEF st, f
<1>6. g.at = "cluster" /\ g.todo = Top.todo \ {name} /\ g.vals = Append(Vals, r) BY <1>1, <1>2, <1>4 DEF FrameIn
<1>7. Len(g.vals) = 2
  <2>1. Vals \in Seq(Ranges(N) \union {r}) BY <1>3, SeqMonotonic
  <2>2. QED BY <1>1, <1>6, <2>1, AppendProperties
<1> HIDE DEF g
<1>8. TopLeft(g) < TopLeft(Top) BY <1>6, <1>7, LookingFalls DEF Going
<1>9. Len(stack') = K /\ stack'[K] = g /\ \A k \in 1..K - 1 : stack'[k] = stack[k]
  <2>1. st \in Seq(FrameIn(N) \union {g}) /\ K \in 1..K BY <1>2, SeqMonotonic
  <2>2. QED BY <1>2, <1>5, <2>1, ExceptSeq
<1>10. QED BY <1>8, <1>9, TopDescends

LEMMA ExpandTextDescends == ASSUME Going, ExpandText PROVE Descends
<1> DEFINE K == Len(stack)
<1>1. InCluster(1) /\ stack # <<>> /\ Top.at = "cluster" BY DEF ExpandText, InCluster
<1>2. PICK name \in Top.todo : \E e : stack' = Append(Looking(name), e) BY DEF ExpandText
<1>3. PICK e : stack' = Append(Looking(name), e) BY <1>2
<1> DEFINE st == Looking(name)  f == st[K]
<1>4. /\ st \in Seq(FrameIn(N)) /\ K \in Nat \ {0} /\ Len(st) = K
      /\ f = [Top EXCEPT !.todo = Top.todo \ {name}] /\ f.at = Top.at
      /\ \A k \in 1..K - 1 : st[k] = stack[k]
  BY <1>1, LookingOK DEF Going
<1>5. Top \in FrameIn(N) BY <1>1, TopFrame DEF Going
<1>6. f.at = "cluster" /\ f.todo = Top.todo \ {name} BY <1>1, <1>4, <1>5 DEF FrameIn
<1>7. stack' = Append(st, e) BY <1>3
<1>12. f = st[K] OBVIOUS
<1> HIDE DEF st, f
<1>8. WaitLeft(f) < TopLeft(Top) BY <1>1, <1>6, LookingFalls DEF Going
<1>9. Len(stack') = K + 1 /\ \A k \in 1..K : stack'[k] = st[k]
  <2>1. st \in Seq(FrameIn(N) \union {e}) BY <1>4, SeqMonotonic
  <2>2. QED BY <1>4, <1>7, <2>1, AppendProperties
<1>10. stack'[K] = f /\ \A k \in 1..K - 1 : stack'[k] = stack[k] 
  <2>1. K \in 1..K /\ \A k \in 1..K - 1 : k \in 1..K BY <1>4
  <2>2. QED BY <1>4, <1>9, <1>12, <2>1
<1>11. QED BY <1>4, <1>8, <1>9, <1>10, TopDescends

(* Every step of a request leaves less to do: evaluating an operand,       *)
(* looking up a name, evaluating the text it stands for, merging what came *)
(* back, returning.  With OrderEnds range_evaluate does not take           *)
(* infinitely many.                                                        *)
THEOREM EvaluationDescends ==
  ASSUME NoCircles
  PROVE  Holding /\ ~Exposed /\ Step => <<Remaining', Remaining>> \in Order(Depth)
<1> SUFFICES ASSUME Holding, ~Exposed, Step PROVE Descends BY DEF Descends
<1>1. stack # <<>> /\ query' = query
  BY DEF Step, Descend, Literal, NonrangeLiteral, Parts, Nothing, Unparsable, Union, Diff, Inter, Not,
         Regex, Braces, NoFunction, CallCluster, FunctionDone, ExpandText, NoCluster, CachedVips,
         MergeCluster, ClusterDone, Ready, Evaluating, InCluster
<1>2. Holding' /\ ~Exposed' BY <1>1, NextExact DEF Next, Exposed
<1>3. Going BY <1>1, <1>2, DepthHolds, DepthHoldsNext DEF Going, Holding, Sparing
<1>4. CASE \/ Literal \/ NonrangeLiteral \/ Parts \/ Nothing \/ Unparsable
           \/ Union \/ Diff \/ Inter \/ Not \/ Regex \/ Braces
           \/ FunctionDone \/ ClusterDone
  <2>1. \E r : Return(r)
    BY <1>4 DEF Literal, NonrangeLiteral, Parts, Nothing, Unparsable, Union, Diff, Inter, Not, Regex,
                Braces, FunctionDone, ClusterDone, ReturnNew
  <2>2. QED BY <1>3, <2>1, ReturnDescends
<1>5. CASE Descend \/ CallCluster BY <1>3, <1>5, PushDescends
<1>6. CASE NoFunction BY <1>3, <1>6, NoFunctionDescends
<1>7. CASE ExpandText BY <1>3, <1>7, ExpandTextDescends
<1>8. CASE NoCluster
  <2>1. InCluster(1) /\ \E name \in Top.todo :
          stack' = [Looking(name) EXCEPT ![Len(stack)].vals = Append(@, RangeOf(Fresh, FALSE))]
    BY <1>8 DEF NoCluster
  <2>2. QED BY <1>3, <2>1, LookedUpDescends
<1>9. CASE CachedVips
  <2>1. InCluster(1) /\ \E v \in DOMAIN Vips : /\ Vips[v].name \in Top.todo
          /\ stack' = [Looking(Vips[v].name) EXCEPT ![Len(stack)].vals = Append(@, RangeOf(v, FALSE))]
    BY <1>9 DEF CachedVips
  <2>2. QED BY <1>3, <2>1, LookedUpDescends
<1>10. CASE MergeCluster BY <1>3, <1>10, MergeDescends
<1>11. QED BY <1>4, <1>5, <1>6, <1>7, <1>8, <1>9, <1>10 DEF Step

(* So it is in every behaviour.                                            *)
THEOREM RequestsDescend ==
  ASSUME SparesVips, NoCircles
  PROVE  Spec => [][~Exposed /\ Step => <<Remaining', Remaining>> \in Order(Depth)]_vars
<1>1. Init => Holding BY InitTypes, InitOwns, InitSpares, InitExact DEF Holding, Sparing
<1>2. Holding /\ [Next]_vars => Holding' BY NextExact
<1>3. Holding /\ [Next]_vars => [~Exposed /\ Step => <<Remaining', Remaining>> \in Order(Depth)]_vars
  BY EvaluationDescends
<1>4. QED BY <1>1, <1>2, <1>3, PTL DEF Spec
=============================================================================
