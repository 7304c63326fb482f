--------------------------- MODULE SqlCacheProofs ---------------------------
(***************************************************************************)
(* Machine-checked proofs about SqlCache, for any databases, names that     *)
(* are LIKE one another, failures and times: the types, that every text     *)
(* that is evaluated is at most Expiry seconds old, that the C stack only   *)
(* overflows in a circle of texts, and that %cluster agrees with the table  *)
(* the other functions ask.                                                 *)
(***************************************************************************)
EXTENDS SqlCache, FiniteSetTheorems, SequenceTheorems, TLAPS

(***************************************************************************)
(* Sequences: the three things that happen to the stack.                   *)
(***************************************************************************)
IsSeq(st) == \E F : st \in Seq(F)

(* [st EXCEPT ![Len(st)] = f] changes the last element only.               *)
LEMMA SetTop ==
  ASSUME NEW st, IsSeq(st), st # <<>>, NEW f
  PROVE  LET new == [st EXCEPT ![Len(st)] = f] IN
         /\ IsSeq(new) /\ Len(new) = Len(st) /\ Len(st) \in Nat \ {0} /\ new[Len(st)] = f
         /\ \A k \in 1..Len(st) - 1 : new[k] = st[k]
<1> DEFINE new == [st EXCEPT ![Len(st)] = f]
<1>1. PICK F : st \in Seq(F) BY DEF IsSeq
<1>2. st \in Seq(F \union {f}) /\ Len(st) \in 1..Len(st) /\ Len(st) \in Nat \ {0} BY <1>1
<1>3. /\ new \in Seq(F \union {f}) /\ Len(new) = Len(st)
      /\ \A k \in 1..Len(st) : new[k] = IF k = Len(st) THEN f ELSE st[k]
  BY <1>2, ExceptSeq
<1> HIDE DEF new
<1>4. IsSeq(new) BY <1>3 DEF IsSeq
<1>5. new[Len(st)] = f /\ \A k \in 1..Len(st) - 1 : new[k] = st[k] BY <1>2, <1>3
<1>6. QED BY <1>2, <1>3, <1>4, <1>5 DEF new

(* Append keeps what there is.                                             *)
LEMMA Pushed ==
  ASSUME NEW st, IsSeq(st), NEW f
  PROVE  /\ IsSeq(Append(st, f)) /\ Len(st) \in Nat /\ Len(Append(st, f)) = Len(st) + 1
         /\ Append(st, f)[Len(st) + 1] = f
         /\ \A k \in 1..Len(st) : Append(st, f)[k] = st[k]
<1> DEFINE new == Append(st, f)
<1>1. PICK F : st \in Seq(F) BY DEF IsSeq
<1>2. /\ new \in Seq(F \union {f}) /\ Len(new) = Len(st) + 1 /\ Len(st) \in Nat
      /\ new[Len(st) + 1] = f /\ \A k \in 1..Len(st) : new[k] = st[k]
  BY <1>1
<1> HIDE DEF new
<1>3. QED BY <1>2 DEF IsSeq, new

(* Front drops the last element only.                                      *)
LEMMA Popped ==
  ASSUME NEW st, IsSeq(st), st # <<>>
  PROVE  /\ IsSeq(Front(st)) /\ Len(st) \in Nat \ {0} /\ Len(Front(st)) = Len(st) - 1
         /\ \A k \in 1..Len(st) - 1 : Front(st)[k] = st[k]
<1> DEFINE new == Front(st)
           m == Len(st) - 1
<1>1. PICK F : st \in Seq(F) BY DEF IsSeq
<1>2. Len(st) \in Nat \ {0} /\ m \in Nat /\ Len(st) = m + 1 /\ \A i \in 1..m : st[i] \in F
  BY <1>1
<1>3. new = SubSeq(st, 1, m) BY DEF Front
<1> HIDE DEF new, m
<1>4. /\ new \in Seq(F)
      /\ Len(new) = IF 1 <= m THEN m - 1 + 1 ELSE 0
      /\ \A i \in 1..m - 1 + 1 : new[i] = st[1 + i - 1]
  BY <1>2, <1>3, SubSeqProperties
<1>5. Len(new) = m BY <1>2, <1>4
<1>6. ASSUME NEW k \in 1..m PROVE new[k] = st[k]
  <2>1. k \in 1..m - 1 + 1 /\ 1 + k - 1 = k BY <1>2
  <2>2. QED BY <1>4, <2>1
<1>7. m = Len(st) - 1 BY DEF m
<1>8. QED BY <1>2, <1>4, <1>5, <1>6, <1>7 DEF IsSeq, new

(***************************************************************************)
(* Frames.                                                                 *)
(***************************************************************************)
Moments(t) == 0..t

FrameOK(f, t) ==
  /\ DOMAIN f = {"t", "pc", "at", "until", "text", "todo", "acc"}
  /\ f.todo \subseteq Targets
  /\ f.at \in Moments(t) /\ f.until \in f.at..t

Place(f, k, n) ==
  /\ f.t \in (IF k = 1 THEN {None} ELSE Targets)
  /\ f.pc \in (IF k < n \/ k = 1 THEN {"eval"} ELSE {"lookup", "load", "eval"})

StackOK(st, t) ==
  /\ IsSeq(st)
  /\ \A k \in 1..Len(st) : FrameOK(st[k], t) /\ Place(st[k], k, Len(st))

(* What a text says and where it is from; the rest of a frame changes      *)
(* while it is evaluated.                                                  *)
SameText(f, g) == f.t = g.t /\ f.pc = g.pc /\ f.at = g.at /\ f.until = g.until /\ f.text = g.text

(* Of two stacks the second has, up to k, the texts of the first.          *)
SameBelow(st, new, n) == \A k \in 1..n : SameText(st[k], new[k]) /\ new[k].todo \subseteq st[k].todo

LEMMA Sets ==
  ASSUME NEW st, NEW t \in Nat, StackOK(st, t), st # <<>>, NEW f, FrameOK(f, t),
         Place(f, Len(st), Len(st))
  PROVE  LET new == [st EXCEPT ![Len(st)] = f] IN
         /\ StackOK(new, t) /\ new # <<>> /\ Len(new) = Len(st) /\ Len(st) \in Nat \ {0} /\ new[Len(st)] = f
         /\ SameBelow(st, new, Len(st) - 1)
<1> DEFINE new == [st EXCEPT ![Len(st)] = f]
<1>1. /\ IsSeq(new) /\ Len(new) = Len(st) /\ Len(st) \in Nat \ {0} /\ new[Len(st)] = f
      /\ \A k \in 1..Len(st) - 1 : new[k] = st[k]
  BY SetTop DEF StackOK
<1> HIDE DEF new
<1>2. StackOK(new, t)
  <2>1. ASSUME NEW k \in 1..Len(new) PROVE FrameOK(new[k], t) /\ Place(new[k], k, Len(new))
    <3>1. CASE k = Len(st) BY <1>1, <3>1
    <3>2. CASE k # Len(st)
      <4>1. k \in 1..Len(st) /\ k \in 1..Len(st) - 1 BY <1>1, <3>2
      <4>2. QED BY <1>1, <4>1 DEF StackOK
    <3>3. QED BY <3>1, <3>2
  <2>2. QED BY <1>1, <2>1 DEF StackOK
<1>3. new # <<>> BY <1>1
<1>4. SameBelow(st, new, Len(st) - 1) BY <1>1 DEF SameBelow, SameText
<1>5. QED BY <1>1, <1>2, <1>3, <1>4 DEF new

LEMMA Pushes ==
  ASSUME NEW st, NEW t \in Nat, StackOK(st, t), st # <<>>, st[Len(st)].pc = "eval",
         NEW f, FrameOK(f, t), f.t \in Targets, f.pc = "lookup"
  PROVE  LET new == Append(st, f) IN
         /\ StackOK(new, t) /\ new # <<>> /\ Len(new) = Len(st) + 1 /\ Len(st) \in Nat \ {0}
         /\ new[Len(st) + 1] = f /\ SameBelow(st, new, Len(st))
<1> DEFINE new == Append(st, f)
<1>1. /\ IsSeq(new) /\ Len(new) = Len(st) + 1 /\ Len(st) \in Nat /\ new[Len(st) + 1] = f
      /\ \A k \in 1..Len(st) : new[k] = st[k]
  BY Pushed DEF StackOK
<1>2. Len(st) # 0
  <2>1. PICK F : st \in Seq(F) BY DEF StackOK, IsSeq
  <2>2. QED BY <2>1
<1> HIDE DEF new
<1>3. StackOK(new, t)
  <2>1. ASSUME NEW k \in 1..Len(new) PROVE FrameOK(new[k], t) /\ Place(new[k], k, Len(new))
    <3>1. CASE k = Len(st) + 1 BY <1>1, <1>2, <3>1 DEF Place
    <3>2. CASE k # Len(st) + 1
      <4>1. k \in 1..Len(st) /\ new[k] = st[k] BY <1>1, <3>2
      <4>2. FrameOK(st[k], t) /\ Place(st[k], k, Len(st)) BY <4>1 DEF StackOK
      <4>3. st[k].pc = "eval"
        <5>1. CASE k = Len(st) BY <5>1
        <5>2. CASE k < Len(st) BY <4>2, <5>2 DEF Place
        <5>3. QED BY <4>1, <1>1, <5>1, <5>2
      <4>4. QED BY <4>1, <4>2, <4>3 DEF Place
    <3>3. QED BY <3>1, <3>2
  <2>2. QED BY <1>1, <2>1 DEF StackOK
<1>4. SameBelow(st, new, Len(st)) BY <1>1 DEF SameBelow, SameText
<1>5. new # <<>> BY <1>1
<1>6. QED BY <1>1, <1>2, <1>3, <1>4, <1>5 DEF new

(* Return: the last frame goes, and the one before gets its nodes.         *)
LEMMA Returns ==
  ASSUME NEW st, NEW t \in Nat, StackOK(st, t), st # <<>>, Len(st) > 1, NEW v
  PROVE  LET new == [Front(st) EXCEPT ![Len(st) - 1].acc = @ \union v] IN
         /\ StackOK(new, t) /\ new # <<>> /\ Len(new) = Len(st) - 1 /\ Len(st) \in Nat \ {0}
         /\ SameBelow(st, new, Len(st) - 1)
<1> DEFINE mid == Front(st)
           n == Len(st) - 1
           g == [mid[n] EXCEPT !.acc = @ \union v]
           new == [mid EXCEPT ![Len(mid)] = g]
<1>1. /\ IsSeq(mid) /\ Len(st) \in Nat \ {0} /\ Len(mid) = n
      /\ \A k \in 1..n : mid[k] = st[k]
  BY Popped DEF StackOK
<1>2. n \in Nat \ {0} /\ n \in 1..n /\ n \in 1..Len(st) BY <1>1
<1>3. mid # <<>> BY <1>1, <1>2
<1>4. FrameOK(st[n], t) /\ Place(st[n], n, Len(st)) BY <1>2 DEF StackOK
<1>5. mid[n] = st[n] BY <1>1, <1>2
<1> HIDE DEF mid
<1>6. FrameOK(g, t) /\ SameText(st[n], g) /\ g.todo = st[n].todo
  BY <1>4, <1>5 DEF FrameOK, SameText
<1> HIDE DEF g
<1>7. /\ IsSeq(new) /\ Len(new) = n /\ new[n] = g
      /\ \A k \in 1..n - 1 : new[k] = mid[k]
  BY <1>1, <1>3, SetTop
<1>8. new = [Front(st) EXCEPT ![Len(st) - 1].acc = @ \union v]
  BY <1>1 DEF mid, g
<1> HIDE DEF new
<1>9. ASSUME NEW k \in 1..n
      PROVE  FrameOK(new[k], t) /\ Place(new[k], k, n) /\ SameText(st[k], new[k]) /\ new[k].todo = st[k].todo
  <2>1. CASE k = n
    <3>1. st[n].pc = "eval" BY <1>1, <1>2, <1>4 DEF Place
    <3>2. QED BY <1>4, <1>6, <1>7, <2>1, <3>1 DEF Place, SameText
  <2>2. CASE k # n
    <3>1. k \in 1..n - 1 /\ k \in 1..Len(st) /\ k < Len(st) /\ k < n BY <1>1, <1>2, <2>2
    <3>2. new[k] = st[k] BY <1>1, <1>7, <3>1
    <3>3. FrameOK(st[k], t) /\ Place(st[k], k, Len(st)) BY <3>1 DEF StackOK
    <3>4. QED BY <3>1, <3>2, <3>3 DEF Place, SameText
  <2>3. QED BY <2>1, <2>2
<1>10. StackOK(new, t) BY <1>7, <1>9 DEF StackOK
<1>11. SameBelow(st, new, n) BY <1>9 DEF SameBelow
<1>12. new # <<>> BY <1>2, <1>7
<1>13. Len(new) = Len(st) - 1 /\ SameBelow(st, new, Len(st) - 1) BY <1>7, <1>11
<1>14. StackOK(new, t) /\ new # <<>> /\ Len(new) = Len(st) - 1 /\ Len(st) \in Nat \ {0}
       /\ SameBelow(st, new, Len(st) - 1)
  BY <1>1, <1>10, <1>12, <1>13
<1> HIDE DEF n
<1>15. QED BY <1>8, <1>14

(***************************************************************************)
(* The parts of the inductive invariant.                                   *)
(***************************************************************************)
RestOK ==
  /\ Len(files) \in 1..changes + 1 /\ changes \in 0..MaxChanges /\ files \in Seq(Databases)
  /\ now \in 0..MaxTime /\ asked \in 0..now /\ failed \subseteq 0..now
  /\ connection \in (1..Len(files)) \union {None}
  /\ \A c \in Cluster : cache[c] # None => registered /\ cache[c].mtime \in 0..now
  /\ {registered, want_caching, warned, running} \subseteq BOOLEAN

WorldOK == RestOK /\ Len(stack) <= MaxDepth

SeenOK == seen \in [0..MaxTime -> SUBSET Databases] /\ Visible \in seen[now]

(* Where the texts of an entry are from, that was asked for at from and    *)
(* loaded not later than to, when sn was seen and fl failed.               *)
From(c, s, text, from, to, sn, fl) ==
  \/ \E t \in from..to : \E d \in sn[t] :
       IF s = "KEYS" THEN text = _join_elements(Keys(d, c)) ELSE text \in Values(d, c, s)
  \/ s = "KEYS" /\ fl \intersect (from..to) # {}

(* All the keys there were are in the entry, unless a query failed.        *)
Complete(c, sections, from, to, sn, fl) ==
  \/ \E t \in from..to : \E d \in sn[t] : Keys(d, c) \subseteq DOMAIN sections
  \/ fl \intersect (from..to) # {}

SectionsOK(c, sections, from, to, sn, fl) ==
  /\ \A s \in DOMAIN sections :
       /\ sections[s].todo \subseteq Targets
       /\ s = "KEYS" => sections[s].todo = {}
       /\ From(c, s, sections[s], from, to, sn, fl)
  /\ Complete(c, sections, from, to, sn, fl)

CacheOK ==
  /\ cache = [c \in Cluster |-> cache[c]]
  /\ \A c \in Cluster : cache[c] # None =>
       SectionsOK(c, cache[c].sections, cache[c].mtime, now, seen, failed)

Fresh(f, sn, fl) ==
  \/ \E t \in Window(f.at, f.until) : \E d \in sn[t] : Genuine(f, d)
  \/ f.t.s = "KEYS" /\ fl \intersect Window(f.at, f.until) # {}

StackFresh == \A k \in 1..Len(stack) : k > 1 /\ stack[k].pc = "eval" => Fresh(stack[k], seen, failed)

IInv == WorldOK /\ SeenOK /\ StackOK(stack, now) /\ CacheOK /\ StackFresh

USE DEF Moments

LEMMA NowIsNat == WorldOK => now \in Nat /\ MaxTime \in Nat /\ Expiry \in Nat
  BY BoundAssumption DEF WorldOK, RestOK

(* What _substitute_dollars makes of a text of a database is a text.       *)
LEMMA ValuesTyped ==
  ASSUME NEW d \in Databases, NEW c \in Cluster, NEW s, NEW v \in Values(d, c, s)
  PROVE  v.todo \subseteq Targets
<1>1. PICK b \in Like[c] : s \in DOMAIN d.rows[b] /\ v = _substitute_dollars(c, d.rows[b][s])
  BY DEF Values
<1>2. b \in Cluster BY <1>1, LikeAssumption
<1>3. d.rows[b][s] \in Texts BY <1>1, <1>2, DatabaseAssumption
<1> DEFINE x == d.rows[b][s]
<1>4. x.todo \subseteq [c : Cluster \union {Self}, s : Section] /\ x \in Texts BY <1>3 DEF Texts
<1> HIDE DEF x
<1>5. v = [x EXCEPT !.todo = {IF y.c = Self THEN Target(c, y.s) ELSE y : y \in @}]
  BY <1>1 DEF _substitute_dollars, x
<1>6. v.todo = {IF y.c = Self THEN Target(c, y.s) ELSE y : y \in x.todo}
  BY <1>4, <1>5 DEF Texts
<1>7. ASSUME NEW y \in x.todo PROVE (IF y.c = Self THEN Target(c, y.s) ELSE y) \in Targets
  <2>1. y \in [c : Cluster \union {Self}, s : Section] BY <1>4
  <2>2. y.s \in Section /\ Target(c, y.s) \in Targets BY <2>1 DEF Target, Targets
  <2>3. y.c # Self => y \in Targets BY <2>1 DEF Targets
  <2>4. QED BY <2>2, <2>3
<1>8. QED BY <1>6, <1>7

(* Nothing that was seen or failed is forgotten.                           *)
Grows(sn, more, fl, later) == (\A t \in 0..MaxTime : sn[t] \subseteq more[t]) /\ fl \subseteq later

LEMMA FromLater ==
  ASSUME NEW sn, NEW more, NEW fl, NEW later, Grows(sn, more, fl, later), MaxTime \in Nat,
         NEW c, NEW sections, NEW from \in Nat, NEW to \in 0..MaxTime, NEW until \in 0..MaxTime, to <= until,
         SectionsOK(c, sections, from, to, sn, fl)
  PROVE  SectionsOK(c, sections, from, until, more, later)
<1>0. Complete(c, sections, from, until, more, later)
  <2>1. \A t \in from..to : t \in from..until /\ t \in 0..MaxTime OBVIOUS
  <2>2. Complete(c, sections, from, to, sn, fl) BY DEF SectionsOK
  <2>3. CASE \E t \in from..to : \E d \in sn[t] : Keys(d, c) \subseteq DOMAIN sections
    BY <2>1, <2>3 DEF Grows, Complete
  <2>4. CASE fl \intersect (from..to) # {} BY <2>1, <2>4 DEF Grows, Complete
  <2>5. QED BY <2>2, <2>3, <2>4 DEF Complete
<1> SUFFICES ASSUME NEW s \in DOMAIN sections
             PROVE  From(c, s, sections[s], from, until, more, later)
  BY <1>0 DEF SectionsOK
<1> DEFINE text == sections[s]
           In(d) == IF s = "KEYS" THEN text = _join_elements(Keys(d, c)) ELSE text \in Values(d, c, s)
<1>1. (\E t \in from..to : \E d \in sn[t] : In(d)) \/ (s = "KEYS" /\ fl \intersect (from..to) # {})
  BY DEF SectionsOK, From
<1>2. (\E t \in from..until : \E d \in more[t] : In(d)) \/ (s = "KEYS" /\ later \intersect (from..until) # {})
  <2> HIDE DEF In
  <2>1. \A t \in from..to : t \in from..until /\ t \in 0..MaxTime OBVIOUS
  <2>2. CASE \E t \in from..to : \E d \in sn[t] : In(d) BY <2>1, <2>2 DEF Grows
  <2>3. CASE s = "KEYS" /\ fl \intersect (from..to) # {} BY <2>1, <2>3 DEF Grows
  <2>4. QED BY <1>1, <2>2, <2>3
<1>3. QED BY <1>2 DEF From

LEMMA FreshLater ==
  ASSUME NEW sn, NEW more, NEW fl, NEW later, Grows(sn, more, fl, later),
         NEW f, NEW g, SameText(f, g), Fresh(f, sn, fl)
  PROVE  Fresh(g, more, later)
<1>1. Window(f.at, f.until) = Window(g.at, g.until) /\ Window(g.at, g.until) \subseteq 0..MaxTime
  BY DEF SameText, Window
<1>2. \A d : Genuine(f, d) <=> Genuine(g, d) BY DEF SameText, Genuine
<1>3. CASE \E t \in Window(f.at, f.until) : \E d \in sn[t] : Genuine(f, d)
  BY <1>1, <1>2, <1>3 DEF Grows, Fresh
<1>4. CASE f.t.s = "KEYS" /\ fl \intersect Window(f.at, f.until) # {}
  BY <1>1, <1>4 DEF Grows, Fresh, SameText
<1>5. QED BY <1>3, <1>4 DEF Fresh

(* What is found in an entry that is good is fresh.                        *)
LEMMA UsedFresh ==
  ASSUME WorldOK, NEW sn, NEW fl, NEW sections, NEW from \in Nat,
         NEW f, f.t \in Targets, f.t.s \in DOMAIN sections, f.text = sections[f.t.s],
         f.until = now, f.at \in 0..now, f.at <= from + Expiry,
         SectionsOK(f.t.c, sections, from, now, sn, fl)
  PROVE  Fresh(f, sn, fl)
<1>1. now \in 0..MaxTime /\ MaxTime \in Nat /\ Expiry \in Nat BY BoundAssumption DEF WorldOK, RestOK
<1>2. \A t \in from..now : t \in Window(f.at, f.until) BY <1>1 DEF Window
<1>3. From(f.t.c, f.t.s, f.text, from, now, sn, fl) BY DEF SectionsOK
<1>4. CASE \E t \in from..now : \E d \in sn[t] :
             IF f.t.s = "KEYS" THEN f.text = _join_elements(Keys(d, f.t.c)) ELSE f.text \in Values(d, f.t.c, f.t.s)
  BY <1>2, <1>4 DEF Fresh, Genuine
<1>5. CASE f.t.s = "KEYS" /\ fl \intersect (from..now) # {} BY <1>2, <1>5 DEF Fresh
<1>6. QED BY <1>3, <1>4, <1>5 DEF From

(* What a query finds is in the database now, or it failed now.            *)
LEMMA LoadedOK ==
  ASSUME IInv, NEW c \in Cluster, NEW outcome \in Outcome, NEW sections \in _cluster_keys(c, outcome),
         Failing(outcome), NEW from \in 0..now, seen[now] \subseteq seen'[now]
  PROVE  SectionsOK(c, sections, from, now, seen', failed')
<1> DEFINE d == Visible
<1>1. d \in seen[now] /\ d \in seen'[now] /\ d \in Databases /\ now \in 0..MaxTime /\ now \in Nat /\ now \in from..now
  BY BoundAssumption DEF IInv, WorldOK, RestOK, SeenOK
<1> HIDE DEF d
<1>2. CASE Warns(outcome)
  <2>1. sections = <<>> BY <1>2 DEF _cluster_keys, Warns
  <2>2. DOMAIN sections = {} BY <2>1
  <2>3. now \in failed' BY <1>2 DEF Failing, Warns
  <2>4. Complete(c, sections, from, now, seen', failed') BY <1>1, <2>3 DEF Complete
  <2>5. QED BY <2>2, <2>4 DEF SectionsOK
<1>3. ASSUME NEW keys \in SUBSET Keys(d, c), NEW f \in Rows(d, c, keys), sections = WithKeys(f),
             keys = Keys(d, c) \/ now \in failed'
      PROVE  SectionsOK(c, sections, from, now, seen', failed')
  <2>1. DOMAIN f = keys /\ \A s \in keys : f[s] \in Values(d, c, s) BY <1>3 DEF Rows
  <2>2. ASSUME NEW s \in DOMAIN sections
        PROVE  /\ sections[s].todo \subseteq Targets
               /\ s = "KEYS" => sections[s].todo = {}
               /\ From(c, s, sections[s], from, now, seen', failed')
    <3>1. sections[s] = (IF s = "KEYS" THEN _join_elements(keys) ELSE f[s]) /\ s \in keys \union {"KEYS"}
      BY <1>3, <2>1 DEF WithKeys
    <3>2. CASE s = "KEYS"
      <4>1. sections[s].todo = {} BY <3>1, <3>2 DEF _join_elements
      <4>2. CASE keys = Keys(d, c)
        <5>1. sections[s] = _join_elements(Keys(d, c)) BY <3>1, <3>2, <4>2
        <5>2. QED BY <1>1, <3>2, <4>1, <5>1 DEF From
      <4>3. CASE now \in failed'
        <5>1. now \in failed' \intersect (from..now) BY <1>1, <4>3
        <5>2. QED BY <3>2, <4>1, <5>1 DEF From
      <4>4. QED BY <1>3, <4>2, <4>3
    <3>3. CASE s # "KEYS"
      <4>1. sections[s] \in Values(d, c, s) BY <2>1, <3>1, <3>3
      <4>2. sections[s].todo \subseteq Targets BY <1>1, <4>1, ValuesTyped
      <4>3. QED BY <1>1, <3>3, <4>1, <4>2 DEF From
    <3>4. QED BY <3>2, <3>3
  <2>3. Complete(c, sections, from, now, seen', failed')
    <3>1. keys \subseteq DOMAIN sections BY <1>3, <2>1 DEF WithKeys
    <3>2. QED BY <1>1, <1>3, <3>1 DEF Complete
  <2>4. QED BY <2>2, <2>3 DEF SectionsOK
<1>4. CASE outcome = "rows"
  <2>1. PICK f \in Rows(d, c, Keys(d, c)) : sections = WithKeys(f) BY <1>4 DEF _cluster_keys, Warns, d
  <2>2. QED BY <1>3, <2>1
<1>5. CASE outcome = "cut"
  <2>1. PICK keys \in SUBSET Keys(d, c) : \E f \in Rows(d, c, keys) : sections = WithKeys(f)
    BY <1>5 DEF _cluster_keys, Warns, d
  <2>2. now \in failed' BY <1>5 DEF Failing
  <2>3. QED BY <1>3, <2>1, <2>2
<1>6. QED BY <1>2, <1>4, <1>5 DEF Outcome, Warns


(***************************************************************************)
(* How a step moves the stack.                                             *)
(***************************************************************************)

(* A frame of new at k, with the stack st before it: it was there, it has  *)
(* just been given a text, it has just been pushed, or it is a request.    *)
FromValues(g, sn) ==
  \/ g.todo = {}
  \/ \E u \in Window(g.at, g.until) : \E d \in sn[u] : \E v \in Values(d, g.t.c, g.t.s) : g.todo \subseteq v.todo

Comes(st, new, sn, k) ==
  \/ /\ k \in 1..Len(st) /\ new[k].t = st[k].t /\ new[k].at \in {st[k].at, now}
     /\ new[k].todo \subseteq st[k].todo \/ (k > 1 /\ FromValues(new[k], sn))
  \/ /\ k > 1 /\ k = Len(new) /\ k - 1 \in 1..Len(st)
     /\ new[k].t \in st[k - 1].todo /\ new[k].todo = {} /\ new[k].at = now
  \/ k = 1

Moved(st, new, sn, fl) ==
  /\ StackOK(new, now) /\ Len(new) <= MaxDepth
  /\ \A k \in 1..Len(new) : k > 1 /\ new[k].pc = "eval" =>
       (k \in 1..Len(st) /\ SameText(st[k], new[k])) \/ Fresh(new[k], sn, fl)
  /\ \A k \in 1..Len(new) : Comes(st, new, sn, k)

LEMMA Stays == ASSUME WorldOK, StackOK(stack, now), NEW sn, NEW fl PROVE Moved(stack, stack, sn, fl)
<1>1. Len(stack) <= MaxDepth BY DEF WorldOK, RestOK
<1>2. QED BY <1>1 DEF Moved, Comes, SameText

(* The lowest frame is the request's.                                      *)
LEMMA TopKnown ==
  ASSUME WorldOK, StackOK(stack, now), stack # <<>>
  PROVE  /\ Len(stack) \in Nat \ {0} /\ FrameOK(Top, now) /\ Place(Top, Len(stack), Len(stack))
         /\ Top.pc # "eval" => Len(stack) > 1 /\ Top.t \in Targets
<1>1. PICK F : stack \in Seq(F) BY DEF StackOK, IsSeq
<1>2. Len(stack) \in Nat \ {0} BY <1>1
<1>3. FrameOK(Top, now) /\ Place(Top, Len(stack), Len(stack)) BY <1>2 DEF StackOK, Top
<1>4. ASSUME Top.pc # "eval" PROVE Len(stack) # 1 BY <1>3, <1>4 DEF Place
<1>5. ASSUME Len(stack) # 1 PROVE Top.t \in Targets BY <1>3, <1>5 DEF Place
<1>6. ASSUME Top.pc # "eval" PROVE Len(stack) > 1 /\ Top.t \in Targets
  <2>1. Len(stack) # 1 BY <1>4, <1>6
  <2>2. Top.t \in Targets BY <1>5, <2>1
  <2>3. Len(stack) > 1 BY <1>2, <2>1
  <2>4. QED BY <2>2, <2>3
<1>7. QED BY <1>2, <1>3, <1>6

LEMMA ReturnMoves ==
  ASSUME WorldOK, StackOK(stack, now), stack # <<>>, Len(stack) > 1, NEW v, Return(v), NEW sn, NEW fl
  PROVE  Moved(stack, stack', sn, fl)
<1>0. now \in Nat BY NowIsNat
<1>1. /\ StackOK(stack', now) /\ Len(stack') = Len(stack) - 1 /\ Len(stack) \in Nat \ {0}
      /\ SameBelow(stack, stack', Len(stack) - 1)
  BY <1>0, Returns DEF Return
<1>2. Len(stack) <= MaxDepth /\ MaxDepth \in Nat BY BoundAssumption DEF WorldOK, RestOK
<1>3. ASSUME NEW k \in 1..Len(stack') PROVE k \in 1..Len(stack) /\ SameText(stack[k], stack'[k]) /\ stack'[k].todo \subseteq stack[k].todo
  BY <1>1, <1>3 DEF SameBelow
<1>4. QED BY <1>1, <1>2, <1>3 DEF Moved, Comes, SameText

(* Another frame at the top that looks up what the old one did.            *)
LEMMA TopMoves ==
  ASSUME WorldOK, StackOK(stack, now), stack # <<>>, NEW f, FrameOK(f, now), NEW sn, NEW fl,
         Place(f, Len(stack), Len(stack)), f.t = Top.t,
         f.todo \subseteq Top.todo \/ (Len(stack) > 1 /\ FromValues(f, sn)), f.at \in {Top.at, now},
         f.pc = "eval" => SameText(Top, f) \/ Len(stack) = 1 \/ Fresh(f, sn, fl)
  PROVE  Moved(stack, AtTop(f), sn, fl) /\ AtTop(f) # <<>> /\ AtTop(f)[Len(AtTop(f))] = f
         /\ Len(AtTop(f)) = Len(stack)
<1>0. now \in Nat /\ Len(stack) \in Nat \ {0} BY NowIsNat, TopKnown
<1> DEFINE new == AtTop(f)
<1>1. /\ StackOK(new, now) /\ new # <<>> /\ Len(new) = Len(stack) /\ new[Len(stack)] = f
      /\ SameBelow(stack, new, Len(stack) - 1)
  BY <1>0, Sets DEF AtTop
<1> HIDE DEF new
<1>2. Len(stack) <= MaxDepth BY DEF WorldOK, RestOK
<1>3. ASSUME NEW k \in 1..Len(new)
      PROVE  /\ Comes(stack, new, sn, k)
             /\ k > 1 /\ new[k].pc = "eval" =>
                  (k \in 1..Len(stack) /\ SameText(stack[k], new[k])) \/ Fresh(new[k], sn, fl)
  <2>1. CASE k = Len(stack)
    <3>1. new[k] = f /\ stack[k] = Top /\ k \in 1..Len(stack) BY <1>0, <1>1, <2>1 DEF Top
    <3>2. QED BY <2>1, <3>1 DEF Comes
  <2>2. CASE k # Len(stack)
    <3>1. k \in 1..Len(stack) - 1 /\ k \in 1..Len(stack) BY <1>0, <1>1, <2>2
    <3>2. QED BY <1>1, <3>1 DEF SameBelow, Comes, SameText
  <2>3. QED BY <2>1, <2>2
<1>4. Moved(stack, new, sn, fl) BY <1>1, <1>2, <1>3 DEF Moved
<1>5. QED BY <1>1, <1>4 DEF new

(* Use: what is found in the sections, which are from from and not older   *)
(* than Expiry when they were asked for.                                   *)
LEMMA SectionFrom ==
  ASSUME NEW sn, NEW fl, NEW sections, NEW c, NEW s \in DOMAIN sections,
         NEW from \in Nat, SectionsOK(c, sections, from, now, sn, fl)
  PROVE  sections[s].todo = {} \/ \E t \in from..now : \E d \in sn[t] : \E v \in Values(d, c, s) : sections[s].todo \subseteq v.todo
<1>2. CASE s = "KEYS" BY <1>2 DEF SectionsOK
<1>3. CASE s # "KEYS"
  <2>1. From(c, s, sections[s], from, now, sn, fl) BY DEF SectionsOK
  <2>2. PICK t \in from..now : \E d \in sn[t] : sections[s] \in Values(d, c, s) BY <1>3, <2>1 DEF From
  <2>3. QED BY <2>2
<1>4. QED BY <1>2, <1>3

LEMMA UseMoves ==
  ASSUME WorldOK, SeenOK, StackOK(stack, now), stack # <<>>, Top.pc # "eval",
         NEW sn, \A t \in 0..MaxTime : sn[t] \subseteq Databases, NEW fl,
         NEW sections, NEW at \in 0..now, NEW from \in Nat, at \in {Top.at, now},
         at <= from + Expiry, SectionsOK(Top.t.c, sections, from, now, sn, fl), Use(sections, at)
  PROVE  Moved(stack, stack', sn, fl)
<1>1. /\ Len(stack) \in Nat \ {0} /\ Len(stack) > 1 /\ Top.t \in Targets /\ FrameOK(Top, now)
      /\ Place(Top, Len(stack), Len(stack)) /\ now \in Nat
  BY TopKnown, NowIsNat
<1>2. CASE Top.t.s \notin DOMAIN sections
  <2>1. Return({}) BY <1>2 DEF Use
  <2>2. QED BY <1>1, <2>1, ReturnMoves
<1>3. CASE Top.t.s \in DOMAIN sections
  <2> DEFINE s == Top.t.s
             f == [Top EXCEPT !.pc = "eval", !.at = at, !.until = now, !.text = sections[s],
                              !.todo = sections[s].todo, !.acc = sections[s].names]
  <2>1. stack' = AtTop(f) BY <1>3 DEF Use
  <2>2. /\ DOMAIN f = DOMAIN Top /\ f.t = Top.t /\ f.pc = "eval" /\ f.at = at /\ f.until = now
        /\ f.text = sections[s] /\ f.todo = sections[s].todo
    BY <1>1 DEF FrameOK
  <2>3. sections[s].todo \subseteq Targets BY <1>3 DEF SectionsOK
  <2> HIDE DEF f
  <2>4. FrameOK(f, now) BY <1>1, <2>2, <2>3 DEF FrameOK
  <2>5. Place(f, Len(stack), Len(stack)) BY <1>1, <2>2 DEF Place
  <2>6. Fresh(f, sn, fl) BY <1>1, <1>3, <2>2, UsedFresh
  <2>7. FromValues(f, sn)
    <3>1. s \in DOMAIN sections BY <1>3
    <3> HIDE DEF s
    <3>2. sections[s].todo = {} \/ \E t \in from..now : \E d \in sn[t] : \E v \in Values(d, Top.t.c, s) : sections[s].todo \subseteq v.todo
      BY <3>1, SectionFrom
    <3>3. now \in 0..MaxTime /\ MaxTime \in Nat /\ Expiry \in Nat BY BoundAssumption DEF WorldOK, RestOK
    <3>4. \A t \in from..now : t \in Window(f.at, f.until) BY <2>2, <3>3 DEF Window
    <3>5. QED BY <2>2, <3>2, <3>4 DEF FromValues, s
  <2>8. Moved(stack, AtTop(f), sn, fl) BY <1>1, <2>2, <2>4, <2>5, <2>6, <2>7, TopMoves
  <2>9. QED BY <2>1, <2>8
<1>4. QED BY <1>2, <1>3


(***************************************************************************)
(* The steps: all but the stack and the entries.                           *)
(***************************************************************************)
LEMMA RestStep == ASSUME IInv, Next PROVE RestOK' /\ now <= now'
<1> USE BoundAssumption DEF IInv, WorldOK, RestOK
<1>0. Len(files) \in Nat \ {0} /\ Len(files) \in 1..Len(files) OBVIOUS
<1>1. CASE Hit
  <2>1. now' = now BY <1>1 DEF Hit, environment
  <2>2. warned' \in BOOLEAN BY <1>1 DEF Hit, Use
  <2>3. registered' \in BOOLEAN /\ (registered => registered') BY <1>1 DEF Hit, FindCache
  <2>4. QED BY <1>1, <2>1, <2>2, <2>3 DEF Hit, environment
<1>2. CASE Miss
  <2>1. registered' \in BOOLEAN /\ (registered => registered') BY <1>2 DEF Miss, FindCache
  <2>2. QED BY <1>2, <2>1 DEF Miss, environment
<1>3. CASE Load
  <2>1. PICK outcome \in Outcome : \E sections \in _cluster_keys(Top.t.c, outcome) :
          /\ Open(outcome) /\ Failing(outcome) /\ Use(sections, Top.at)
          /\ cache' = IF registered THEN [cache EXCEPT ![Top.t.c] = [mtime |-> Stamp, sections |-> sections]] ELSE cache
    BY <1>3 DEF Load
  <2>2. stack # <<>> /\ Top.pc = "load" BY <1>3 DEF Load, Expanding
  <2>3. FrameOK(Top, now) /\ Top.t \in Targets BY <2>2, TopKnown
  <2>4. Stamp \in 0..now /\ Top.t.c \in Cluster BY <2>3 DEF Stamp, FrameOK, Targets
  <2>5. UNCHANGED <<files, now, changes, registered, want_caching, running, asked>> BY <1>3 DEF Load, environment
  <2>6. \A c \in Cluster : cache'[c] # None => registered' /\ cache'[c].mtime \in 0..now'
    BY <2>1, <2>4, <2>5 DEF CacheOK
  <2>7. failed' \subseteq 0..now BY <2>1 DEF Failing
  <2>8. connection' \in (1..Len(files)) \union {None} BY <1>0, <2>1 DEF Open, Opened, Connected
  <2>9. warned' \in BOOLEAN BY <2>1 DEF Use
  <2>10. QED BY <2>5, <2>6, <2>7, <2>8, <2>9
<1>4. CASE EvalCall
  <2>1. running' \in BOOLEAN BY <1>4 DEF EvalCall
  <2>2. QED BY <1>4, <2>1 DEF EvalCall, environment, caching
<1>5. CASE EvalDone
  <2>1. (warned' = FALSE /\ asked' = 0) \/ UNCHANGED <<warned, asked>> BY <1>5 DEF EvalDone, Idle
  <2>2. asked' \in 0..now BY <2>1
  <2>3. warned \in BOOLEAN OBVIOUS
  <2>4. warned' \in BOOLEAN BY <2>1, <2>3
  <2>5. QED BY <1>5, <2>2, <2>4 DEF EvalDone, environment, caching
<1>6. ASSUME NEW q, rangefunc_cluster(q) PROVE RestOK' /\ now <= now'
  <2>1. warned' \in BOOLEAN BY <1>6 DEF rangefunc_cluster
  <2>2. asked' \in 0..now BY <1>6 DEF rangefunc_cluster, Asks
  <2>3. QED BY <1>6, <2>1, <2>2 DEF rangefunc_cluster, environment, caching
<1>7. ASSUME NEW q, rangefunc_group(q) PROVE RestOK' /\ now <= now'
  <2>1. PICK outcome \in Outcome : Open(outcome) /\ warned' \in {FALSE, Warns(outcome)} BY <1>7 DEF rangefunc_group
  <2>2. warned' \in BOOLEAN
    <3>1. Warns(outcome) \in BOOLEAN BY DEF Warns
    <3>2. QED BY <2>1, <3>1
  <2>3. connection' \in (1..Len(files)) \union {None} BY <1>0, <2>1 DEF Open, Opened, Connected
  <2>4. QED BY <1>7, <2>2, <2>3 DEF rangefunc_group, Asks, environment
<1>8. ASSUME NEW q, Select(q) PROVE RestOK' /\ now <= now'
  <2>1. PICK outcome \in Outcome : Open(outcome) /\ Failing(outcome) BY <1>8 DEF Select
  <2>2. failed' \subseteq 0..now BY <2>1 DEF Failing
  <2>3. connection' \in (1..Len(files)) \union {None} BY <1>0, <2>1 DEF Open, Opened, Connected
  <2>4. QED BY <1>8, <2>2, <2>3 DEF Select, environment, request
<1>9. CASE libcrange_clear_caches
  <2>1. \A c \in Cluster : cache'[c] = None BY <1>9 DEF libcrange_clear_caches
  <2>2. registered' \in BOOLEAN /\ connection' \in (1..Len(files)) \union {None} BY <1>9 DEF libcrange_clear_caches
  <2>3. UNCHANGED <<files, now, changes, want_caching, warned, running, asked, failed>>
    BY <1>9 DEF libcrange_clear_caches, environment, request
  <2>4. QED BY <2>1, <2>2, <2>3
<1>10. CASE libcrange_want_caching
  BY <1>10 DEF libcrange_want_caching, Changes, request
<1>11. CASE Tick
  <2>1. \A c \in Cluster : cache'[c] # None => registered' /\ cache'[c].mtime \in 0..now'
    BY <1>11 DEF Tick, caching
  <2>2. QED BY <1>11, <2>1 DEF Tick, caching, request
<1>12. ASSUME NEW d \in Databases, Update(d) PROVE RestOK' /\ now <= now'
  <2>1. files' = [files EXCEPT ![Len(files)] = d] BY <1>12 DEF Update
  <2>2. files' \in Seq(Databases) /\ Len(files') = Len(files) BY <1>0, <2>1
  <2>3. QED BY <1>12, <2>2 DEF Update, Changes, caching, request
<1>13. ASSUME NEW d \in Databases, Publish(d) PROVE RestOK' /\ now <= now'
  <2>1. files' = Append(files, d) BY <1>13 DEF Publish
  <2>2. files' \in Seq(Databases) /\ Len(files') = Len(files) + 1 BY <2>1
  <2>3. connection \in (1..Len(files')) \union {None} BY <1>0, <2>2
  <2>4. QED BY <1>0, <1>13, <2>2, <2>3 DEF Publish, Changes, caching, request
<1>14. QED
  BY <1>1, <1>2, <1>3, <1>4, <1>5, <1>6, <1>7, <1>8, <1>9, <1>10, <1>11, <1>12, <1>13 DEF Next, Actions, Step

LEMMA FailedStays == ASSUME Next PROVE failed \subseteq failed'
<1>1. CASE Load BY <1>1 DEF Load, Failing
<1>2. ASSUME NEW q, Select(q) PROVE failed \subseteq failed' BY <1>2 DEF Select, Failing
<1>3. QED
  BY <1>1, <1>2 DEF Next, Actions, Step, Hit, Miss, EvalCall, EvalDone, rangefunc_cluster, rangefunc_group,
     libcrange_clear_caches, libcrange_want_caching, Tick, Update, Publish, Changes

LEMMA SeenStep ==
  ASSUME IInv, Next
  PROVE  SeenOK' /\ Grows(seen, seen', failed, failed') /\ \A t \in 0..MaxTime : seen'[t] \subseteq Databases
<1>1. RestOK' BY RestStep
<1>2. now' \in 0..MaxTime BY <1>1 DEF RestOK
<1>3. Visible' \in Databases BY <1>1 DEF RestOK, Visible, Connected
<1>4. seen' = [seen EXCEPT ![now'] = @ \union {Visible'}] BY DEF Next
<1>5. seen \in [0..MaxTime -> SUBSET Databases] BY DEF IInv, SeenOK
<1>6. seen' \in [0..MaxTime -> SUBSET Databases] /\ Visible' \in seen'[now'] /\ \A t \in 0..MaxTime : seen[t] \subseteq seen'[t]
  BY <1>2, <1>3, <1>4, <1>5
<1>7. QED BY <1>6, FailedStays DEF SeenOK, Grows


(***************************************************************************)
(* The steps: the stack.                                                   *)
(***************************************************************************)
LEMMA EmptyMoves == ASSUME IInv, NEW sn, NEW fl PROVE Moved(stack, <<>>, sn, fl)
<1>1. IsSeq(<<>>) /\ Len(<<>>) = 0 BY DEF IsSeq
<1>2. StackOK(<<>>, now) BY <1>1 DEF StackOK
<1>3. QED BY <1>1, <1>2, BoundAssumption DEF Moved

LEMMA AskMoves ==
  ASSUME IInv, NEW q \in Queries, q.fn \in {"cluster", "group"}, Asks(q), NEW sn, NEW fl
  PROVE  Moved(stack, stack', sn, fl)
<1> DEFINE f == Request(q.ts)
           new == <<f>>
<1>1. stack' = new BY DEF Asks
<1>2. new \in Seq({f}) /\ Len(new) = 1 /\ new[1] = f /\ now \in Nat BY NowIsNat DEF IInv
<1>3. FrameOK(f, now) /\ Place(f, 1, 1) BY <1>2, QueriesAssumption DEF Request, FrameOK, Place
<1> HIDE DEF new
<1>4. StackOK(new, now) BY <1>2, <1>3 DEF StackOK, IsSeq
<1>5. QED BY <1>1, <1>2, <1>4, BoundAssumption DEF Moved, Comes

LEMMA CallMoves ==
  ASSUME IInv, EvalCall, NEW sn, NEW fl PROVE Moved(stack, stack', sn, fl)
<1>1. WorldOK /\ StackOK(stack, now) /\ stack # <<>> /\ Top.pc = "eval"
  BY DEF IInv, EvalCall, Expanding
<1>2. /\ Len(stack) \in Nat \ {0} /\ FrameOK(Top, now) /\ Place(Top, Len(stack), Len(stack)) /\ now \in Nat
  BY <1>1, TopKnown, NowIsNat
<1>3. CASE UNCHANGED stack BY <1>1, <1>3, Stays
<1>4. CASE Len(stack) < MaxDepth /\ \E t \in Top.todo : stack' = Append(AtTop([Top EXCEPT !.todo = @ \ {t}]), Expansion(t))
  <2>1. PICK t \in Top.todo : stack' = Append(AtTop([Top EXCEPT !.todo = @ \ {t}]), Expansion(t)) BY <1>4
  <2> DEFINE f == [Top EXCEPT !.todo = @ \ {t}]
             mid == AtTop(f)
             g == Expansion(t)
             new == Append(mid, g)
             n == Len(stack)
  <2>2. DOMAIN f = DOMAIN Top /\ f.todo \subseteq Top.todo /\ SameText(Top, f) /\ f.pc = "eval"
    BY <1>1, <1>2 DEF FrameOK, SameText
  <2>3. FrameOK(g, now) /\ g.t = t /\ t \in Targets /\ g.pc = "lookup" /\ g.todo = {} /\ g.at = now
    BY <1>2 DEF Expansion, FrameOK
  <2> HIDE DEF f, g
  <2>4. FrameOK(f, now) /\ Place(f, n, n) /\ f.t = Top.t BY <1>2, <2>2 DEF FrameOK, Place, SameText
  <2>5. f.at \in {Top.at, now} BY <2>2 DEF SameText
  <2>6. Moved(stack, mid, sn, fl) /\ mid # <<>> /\ mid[Len(mid)] = f /\ Len(mid) = n
    BY <1>1, <2>2, <2>4, <2>5, TopMoves
  <2> HIDE DEF mid
  <2>7. StackOK(mid, now) BY <2>6 DEF Moved
  <2>8. StackOK(new, now) /\ Len(new) = n + 1 /\ new[n + 1] = g /\ SameBelow(mid, new, n)
    BY <1>2, <2>2, <2>3, <2>6, <2>7, Pushes
  <2> HIDE DEF new
  <2>9. Top = stack[n] BY DEF Top
  <2>10. ASSUME NEW k \in 1..Len(new)
        PROVE  /\ Comes(stack, new, sn, k)
               /\ k > 1 /\ new[k].pc = "eval" =>
                    (k \in 1..n /\ SameText(stack[k], new[k])) \/ Fresh(new[k], sn, fl)
    <3>1. CASE k = n + 1
      <4>1. k > 1 /\ k - 1 = n /\ n \in 1..n /\ k = Len(new) BY <1>2, <2>8, <3>1
      <4>2. QED BY <2>3, <2>8, <2>9, <3>1, <4>1 DEF Comes
    <3>2. CASE k # n + 1
      <4>1. k \in 1..n BY <1>2, <2>8, <3>2
      <4>2. new[k].t = mid[k].t /\ new[k].todo \subseteq mid[k].todo /\ SameText(mid[k], new[k])
        BY <2>8, <4>1 DEF SameBelow, SameText
      <4>3. new[k].pc = "eval" => mid[k].pc = "eval" BY <4>2 DEF SameText
      <4>4. CASE k = n
        <5>1. SameText(stack[k], mid[k]) /\ mid[k].todo \subseteq stack[k].todo BY <2>2, <2>6, <2>9, <4>4
        <5>2. QED BY <4>1, <4>2, <5>1 DEF SameText, Comes
      <4>5. CASE k # n
        <5>1. k \in 1..n - 1 BY <1>2, <4>1, <4>5
        <5>2. SameBelow(stack, mid, n - 1) BY <1>1, <1>2, <2>4, Sets DEF mid, AtTop
        <5>3. SameText(stack[k], mid[k]) /\ mid[k].todo \subseteq stack[k].todo BY <5>1, <5>2 DEF SameBelow
        <5>4. QED BY <4>1, <4>2, <5>3 DEF SameText, Comes
      <4>6. QED BY <4>4, <4>5
    <3>3. QED BY <3>1, <3>2
  <2>11. Len(new) <= MaxDepth BY <1>2, <1>4, <2>8, BoundAssumption
  <2>12. Moved(stack, new, sn, fl) BY <2>8, <2>10, <2>11 DEF Moved
  <2>13. stack' = new BY <2>1 DEF new, mid, f, g
  <2>14. QED BY <2>12, <2>13
<1>5. QED BY <1>3, <1>4 DEF EvalCall

LEMMA StackStep == ASSUME IInv, Next PROVE Moved(stack, stack', seen', failed')
<1>1. WorldOK /\ SeenOK /\ StackOK(stack, now) /\ CacheOK BY DEF IInv
<1>2. Grows(seen, seen', failed, failed') /\ \A t \in 0..MaxTime : seen'[t] \subseteq Databases BY SeenStep
<1>3. now \in 0..MaxTime /\ MaxTime \in Nat /\ Expiry \in Nat /\ now \in Nat /\ now \in 0..now
  BY <1>1, BoundAssumption DEF WorldOK, RestOK
<1>4. CASE Hit
  <2> DEFINE e == cache[Top.t.c]
  <2>1. stack # <<>> /\ Top.pc # "eval" /\ Good(e) /\ Use(e.sections, now) BY <1>4 DEF Hit, Expanding
  <2>2. Top.t.c \in Cluster BY <1>1, <2>1, TopKnown DEF Targets
  <2>3. e.mtime \in 0..now /\ now <= e.mtime + Expiry /\ e.mtime \in Nat
    BY <1>1, <1>3, <2>1, <2>2 DEF Good, WorldOK, RestOK
  <2>4. SectionsOK(Top.t.c, e.sections, e.mtime, now, seen, failed) BY <1>1, <2>1, <2>2 DEF CacheOK, Good
  <2> HIDE DEF e
  <2>5. SectionsOK(Top.t.c, e.sections, e.mtime, now, seen', failed') BY <1>2, <1>3, <2>3, <2>4, FromLater
  <2>6. QED BY <1>1, <1>2, <1>3, <2>1, <2>3, <2>5, UseMoves
<1>5. CASE Miss
  <2> DEFINE f == [Top EXCEPT !.pc = "load", !.at = now, !.until = now]
  <2>1. stack # <<>> /\ Top.pc = "lookup" /\ stack' = AtTop(f) BY <1>5 DEF Miss, Expanding
  <2>2. Len(stack) > 1 /\ Len(stack) \in Nat /\ FrameOK(Top, now) /\ Top.t \in Targets
    BY <1>1, <2>1, TopKnown
  <2>3. DOMAIN f = DOMAIN Top /\ f.t = Top.t /\ f.pc = "load" /\ f.at = now /\ f.until = now /\ f.todo = Top.todo
    BY <2>2 DEF FrameOK
  <2> HIDE DEF f
  <2>4. FrameOK(f, now) BY <1>3, <2>2, <2>3 DEF FrameOK
  <2>5. Place(f, Len(stack), Len(stack))
    <3>1. ~(Len(stack) < Len(stack) \/ Len(stack) = 1) BY <2>2
    <3>2. QED BY <2>2, <2>3, <3>1 DEF Place
  <2>6. Moved(stack, AtTop(f), seen', failed') BY <1>1, <2>1, <2>3, <2>4, <2>5, TopMoves
  <2>7. QED BY <2>1, <2>6
<1>6. CASE Load
  <2>1. stack # <<>> /\ Top.pc # "eval" BY <1>6 DEF Load, Expanding
  <2>2. PICK outcome \in Outcome : \E x \in _cluster_keys(Top.t.c, outcome) : Failing(outcome) /\ Use(x, Top.at)
    BY <1>6 DEF Load
  <2>3. PICK sections \in _cluster_keys(Top.t.c, outcome) : Failing(outcome) /\ Use(sections, Top.at) BY <2>2
  <2>4. Top.t \in Targets /\ Top.at \in 0..now /\ Top.at \in Nat BY <1>1, <1>3, <2>1, TopKnown DEF FrameOK
  <2>5. Top.t.c \in Cluster BY <2>4 DEF Targets
  <2>6. SectionsOK(Top.t.c, sections, Top.at, now, seen', failed')
    BY <1>2, <1>3, <2>3, <2>4, <2>5, LoadedOK DEF Grows
  <2>7. Top.at <= Top.at + Expiry BY <1>3, <2>4
  <2>8. QED BY <1>1, <1>2, <2>1, <2>3, <2>4, <2>6, <2>7, UseMoves
<1>7. CASE EvalCall BY <1>7, CallMoves
<1>8. CASE EvalDone
  <2>1. stack # <<>> /\ Len(stack) \in Nat \ {0} BY <1>1, <1>8, TopKnown DEF EvalDone, Expanding
  <2>2. CASE Len(stack) = 1 BY <1>8, <2>2, EmptyMoves DEF EvalDone
  <2>3. CASE Len(stack) # 1
    <3>1. Return(Top.acc) BY <1>8, <2>3 DEF EvalDone
    <3>2. Len(stack) > 1
      <4>1. \A n \in Nat \ {0} : n # 1 => n > 1 OBVIOUS
      <4>2. QED BY <2>1, <2>3, <4>1
    <3>3. QED BY <1>1, <2>1, <3>1, <3>2, ReturnMoves
  <2>4. QED BY <2>2, <2>3
<1>9. ASSUME NEW q \in Queries, rangefunc_cluster(q) \/ rangefunc_group(q) PROVE Moved(stack, stack', seen', failed')
  BY <1>9, AskMoves DEF rangefunc_cluster, rangefunc_group
<1>10. CASE UNCHANGED stack BY <1>1, <1>10, Stays
<1>11. ASSUME ~(Step \/ \E q \in Queries : rangefunc_cluster(q) \/ rangefunc_group(q)) PROVE UNCHANGED stack
  BY <1>11 DEF Next, Actions, Select, libcrange_clear_caches, libcrange_want_caching, Tick, Update, Publish,
     Changes, request
<1>12. QED BY <1>4, <1>5, <1>6, <1>7, <1>8, <1>9, <1>10, <1>11 DEF Step


(***************************************************************************)
(* The steps: the entries, and the invariant.                              *)
(***************************************************************************)
LEMMA CacheStep == ASSUME IInv, Next PROVE CacheOK'
<1>1. WorldOK /\ SeenOK /\ StackOK(stack, now) /\ CacheOK BY DEF IInv
<1>2. Grows(seen, seen', failed, failed') BY SeenStep
<1>3. RestOK' /\ now <= now' BY RestStep
<1>4. now \in 0..MaxTime /\ now' \in 0..MaxTime /\ MaxTime \in Nat
  BY <1>1, <1>3, BoundAssumption DEF WorldOK, RestOK
<1>5. ASSUME NEW c \in Cluster, cache[c] # None
      PROVE  SectionsOK(c, cache[c].sections, cache[c].mtime, now', seen', failed')
  <2>1. cache[c].mtime \in Nat BY <1>1, <1>4, <1>5 DEF WorldOK, RestOK
  <2>2. SectionsOK(c, cache[c].sections, cache[c].mtime, now, seen, failed) BY <1>1, <1>5 DEF CacheOK
  <2>3. now \in 0..MaxTime /\ now' \in 0..MaxTime /\ now <= now' BY <1>3, <1>4
  <2>4. QED BY <1>2, <1>4, <2>1, <2>2, <2>3, FromLater
<1>6. CASE UNCHANGED cache
  <2>1. cache' = [c \in Cluster |-> cache'[c]] BY <1>1, <1>6 DEF CacheOK
  <2>2. ASSUME NEW c \in Cluster, cache'[c] # None
        PROVE  SectionsOK(c, cache'[c].sections, cache'[c].mtime, now', seen', failed')
    <3>1. cache'[c] = cache[c] BY <1>6
    <3>2. QED BY <1>5, <2>2, <3>1
  <2>3. QED BY <2>1, <2>2 DEF CacheOK
<1>7. CASE Load
  <2>1. stack # <<>> /\ Top.pc # "eval" BY <1>7 DEF Load, Expanding
  <2>2. PICK outcome \in Outcome : \E x \in _cluster_keys(Top.t.c, outcome) :
          /\ Failing(outcome)
          /\ cache' = IF registered THEN [cache EXCEPT ![Top.t.c] = [mtime |-> Stamp, sections |-> x]] ELSE cache
    BY <1>7 DEF Load
  <2>3. PICK sections \in _cluster_keys(Top.t.c, outcome) :
          /\ Failing(outcome)
          /\ cache' = IF registered THEN [cache EXCEPT ![Top.t.c] = [mtime |-> Stamp, sections |-> sections]] ELSE cache
    BY <2>2
  <2>4. Top.t \in Targets /\ Top.at \in 0..now /\ now' = now
    BY <1>1, <1>7, <2>1, TopKnown DEF FrameOK, Load, environment
  <2> DEFINE b == Top.t.c
             e == [mtime |-> Stamp, sections |-> sections]
  <2>5. b \in Cluster BY <2>4 DEF Targets
  <2>6. SectionsOK(b, e.sections, e.mtime, now', seen', failed')
    <3>1. \A t \in 0..MaxTime : seen[t] \subseteq seen'[t] BY <1>2 DEF Grows
    <3>2. e.sections = sections /\ e.mtime = Top.at BY DEF Stamp
    <3>3. QED BY <1>4, <2>3, <2>4, <2>5, <3>1, <3>2, LoadedOK
  <2>7. cache' = [cache EXCEPT ![b] = e] \/ cache' = cache BY <2>3
  <2> HIDE DEF b, e
  <2>8. CASE cache' = [cache EXCEPT ![b] = e]
    <3>1. cache' = [c \in Cluster |-> IF c = b THEN e ELSE cache[c]] BY <1>1, <2>5, <2>8 DEF CacheOK
    <3>2. ASSUME NEW c \in Cluster, cache'[c] # None
          PROVE  SectionsOK(c, cache'[c].sections, cache'[c].mtime, now', seen', failed')
      <4>1. CASE c = b
        <5>1. cache'[c] = e BY <3>1, <4>1
        <5>2. QED BY <2>6, <4>1, <5>1
      <4>2. CASE c # b
        <5>1. cache'[c] = cache[c] BY <3>1, <4>2
        <5>2. QED BY <1>5, <3>2, <5>1
      <4>3. QED BY <4>1, <4>2
    <3>3. cache' = [c \in Cluster |-> cache'[c]] BY <3>1
    <3>4. QED BY <3>2, <3>3 DEF CacheOK
  <2>9. QED BY <1>6, <2>7, <2>8
<1>8. CASE libcrange_clear_caches
  <2>1. cache' = [c \in Cluster |-> None] BY <1>8 DEF libcrange_clear_caches
  <2>2. QED BY <2>1 DEF CacheOK
<1>9. QED
  BY <1>6, <1>7, <1>8 DEF Next, Actions, Step, Hit, Miss, EvalCall, EvalDone, rangefunc_cluster, rangefunc_group,
     Select, libcrange_want_caching, Tick, Update, Publish, Changes, caching

LEMMA StackLater ==
  ASSUME NEW st, NEW t \in Nat, NEW u \in Nat, t <= u, StackOK(st, t) PROVE StackOK(st, u)
<1>1. \A f : FrameOK(f, t) => FrameOK(f, u) BY DEF FrameOK
<1>2. QED BY <1>1 DEF StackOK

(* Every step preserves the invariant.                                     *)
LEMMA Inductive == ASSUME IInv, Next PROVE IInv'
<1>1. RestOK' /\ now <= now' BY RestStep
<1>2. SeenOK' /\ Grows(seen, seen', failed, failed') BY SeenStep
<1>3. Moved(stack, stack', seen', failed') BY StackStep
<1>4. CacheOK' BY CacheStep
<1>5. now \in Nat /\ now' \in Nat BY <1>1, NowIsNat, BoundAssumption DEF IInv, RestOK
<1>6. StackOK(stack', now') /\ Len(stack') <= MaxDepth
  <2>1. StackOK(stack', now) /\ Len(stack') <= MaxDepth BY <1>3 DEF Moved
  <2>2. QED BY <1>1, <1>5, <2>1, StackLater
<1>7. ASSUME NEW k \in 1..Len(stack'), k > 1, stack'[k].pc = "eval" PROVE Fresh(stack'[k], seen', failed')
  <2>1. CASE k \in 1..Len(stack) /\ SameText(stack[k], stack'[k])
    <3>1. stack[k].pc = "eval" BY <1>7, <2>1 DEF SameText
    <3>2. Fresh(stack[k], seen, failed) BY <1>7, <2>1, <3>1 DEF IInv, StackFresh
    <3>3. QED BY <1>2, <2>1, <3>2, FreshLater
  <2>2. QED BY <1>3, <1>7, <2>1 DEF Moved
<1>8. StackFresh' BY <1>7 DEF StackFresh
<1>9. QED BY <1>1, <1>2, <1>4, <1>6, <1>8 DEF IInv, WorldOK

LEMMA Initially == Init => IInv
<1> SUFFICES ASSUME Init PROVE IInv OBVIOUS
<1>1. PICK d \in Databases : files = <<d>> /\ seen = [t \in 0..MaxTime |-> IF t = 0 THEN {d} ELSE {}] BY DEF Init
<1>2. files \in Seq(Databases) /\ Len(files) = 1 /\ files[1] = d BY <1>1
<1>3. 0 \in 0..MaxTime /\ MaxTime \in Nat BY BoundAssumption
<1>4. IsSeq(<<>>) /\ Len(<<>>) = 0 BY DEF IsSeq
<1>5. WorldOK
  <2>1. cache = [c \in Cluster |-> None] /\ registered = FALSE /\ want_caching \in BOOLEAN /\ warned = FALSE /\ running = TRUE
    BY DEF Init
  <2>2. {registered, want_caching, warned, running} \subseteq BOOLEAN BY <2>1
  <2>3. \A c \in Cluster : cache[c] = None BY <2>1
  <2>4. /\ now = 0 /\ changes = 0 /\ connection = None /\ failed = {} /\ asked = 0 /\ stack = <<>>
    BY DEF Init
  <2>5. QED BY <1>2, <1>3, <1>4, <2>2, <2>3, <2>4, BoundAssumption DEF WorldOK, RestOK
<1>6. SeenOK
  <2>1. now = 0 /\ connection = None BY DEF Init
  <2>2. Visible = d BY <1>2, <2>1 DEF Visible, Connected
  <2>3. QED BY <1>1, <1>3, <2>1, <2>2 DEF SeenOK
<1>7. StackOK(stack, now) BY <1>4 DEF Init, StackOK
<1>8. CacheOK BY DEF Init, CacheOK
<1>9. StackFresh BY <1>4 DEF Init, StackFresh
<1>10. QED BY <1>5, <1>6, <1>7, <1>8, <1>9 DEF IInv

LEMMA Unchanged == ASSUME IInv, UNCHANGED vars PROVE IInv'
  BY DEF vars, environment, caching, request, IInv, WorldOK, RestOK, SeenOK, CacheOK, StackFresh, Visible, Connected

LEMMA Invariant == Spec => []IInv
<1>1. IInv /\ [Next]_vars => IInv' BY Inductive, Unchanged
<1>2. QED BY Initially, <1>1, PTL DEF Spec

(* The files, the connection, the entries and the frames are well-typed: no *)
(* entry is from the future, and below the frame that looks something up    *)
(* there are only frames that evaluate.                                     *)
THEOREM TypeCorrect == Spec => []TypeOK
<1>1. IInv => TypeOK
  <2> SUFFICES ASSUME IInv PROVE TypeOK OBVIOUS
  <2>1. RestOK /\ Len(stack) <= MaxDepth /\ StackOK(stack, now) BY DEF IInv, WorldOK
  <2>2. \A k \in DOMAIN files : files[k] \in Databases BY <2>1 DEF RestOK
  <2>3. DOMAIN stack = 1..Len(stack)
    <3>1. PICK F : stack \in Seq(F) BY <2>1 DEF StackOK, IsSeq
    <3>2. QED BY <3>1
  <2>4. ASSUME NEW k \in DOMAIN stack
        PROVE  /\ stack[k].t \in (IF k = 1 THEN {None} ELSE Targets)
               /\ stack[k].pc \in (IF k < Len(stack) \/ k = 1 THEN {"eval"} ELSE {"lookup", "load", "eval"})
               /\ stack[k].at \in 0..now /\ stack[k].until \in stack[k].at..now
    <3>1. FrameOK(stack[k], now) /\ Place(stack[k], k, Len(stack)) BY <2>1, <2>3 DEF StackOK
    <3>2. QED BY <3>1 DEF FrameOK, Place
  <2>5. QED BY <2>1, <2>2, <2>4 DEF TypeOK, RestOK
<1>2. QED BY Invariant, <1>1, PTL

(* Whatever changes, fails or is replaced between any two steps: a text     *)
(* that is evaluated was in the database the program is connected to at     *)
(* most Expiry seconds before the section was asked for.                    *)
THEOREM AlwaysFresh == Spec => []LookupFresh
<1>1. IInv => LookupFresh
  <2> SUFFICES ASSUME IInv PROVE LookupFresh OBVIOUS
  <2>1. DOMAIN stack = 1..Len(stack)
    <3>1. PICK F : stack \in Seq(F) BY DEF IInv, StackOK, IsSeq
    <3>2. QED BY <3>1
  <2>2. QED BY <2>1 DEF IInv, StackFresh, LookupFresh, Fresh
<1>2. QED BY Invariant, <1>1, PTL


(***************************************************************************)
(* The depth of the C stack.                                               *)
(***************************************************************************)

(* The texts of all databases together have no circle: the targets have    *)
(* ranks below R, and a text names targets of lower rank only.             *)
Ranked(Rank, R) ==
  /\ Rank \in [Targets -> 0..R - 1]
  /\ \A d \in Databases : \A t \in Targets : \A v \in Values(d, t.c, t.s) : \A x \in v.todo : Rank[x] < Rank[t]

(* Deeper frames have lower ranks, and the stack has not overflowed.       *)
Shallow(st, Rank, R) ==
  \A k \in 1..Len(st) : k > 1 =>
    /\ Rank[st[k].t] <= R - (k - 1)
    /\ \A x \in st[k].todo : Rank[x] < Rank[st[k].t]

LEMMA ShallowStep ==
  ASSUME NEW R \in Nat, NEW Rank, Ranked(Rank, R), IInv, Shallow(stack, Rank, R), Next
  PROVE  Shallow(stack, Rank, R)'
<1>1. Moved(stack, stack', seen', failed') BY StackStep
<1>2. StackOK(stack', now) /\ StackOK(stack, now) BY <1>1 DEF Moved, IInv
<1>3. IsSeq(stack') /\ IsSeq(stack) BY <1>2 DEF StackOK
<1>4. ASSUME NEW k \in 1..Len(stack'), k > 1
      PROVE  /\ Rank[stack'[k].t] <= R - (k - 1)
             /\ \A x \in stack'[k].todo : Rank[x] < Rank[stack'[k].t]
  <2> DEFINE g == stack'[k]
  <2>1. Comes(stack, stack', seen', k) BY <1>1 DEF Moved
  <2>2. g.t \in Targets BY <1>2, <1>4 DEF StackOK, Place
  <2>3. Rank[g.t] \in 0..R - 1 BY <2>2 DEF Ranked
  <2>4. CASE k \in 1..Len(stack) /\ g.t = stack[k].t /\ g.todo \subseteq stack[k].todo
    BY <1>4, <2>4 DEF Shallow
  <2>5. CASE k \in 1..Len(stack) /\ g.t = stack[k].t /\ FromValues(g, seen')
    <3>1. Rank[g.t] <= R - (k - 1) BY <1>4, <2>5 DEF Shallow
    <3>2. Window(g.at, g.until) \subseteq 0..MaxTime BY DEF Window
    <3>3. \A u \in 0..MaxTime : seen'[u] \subseteq Databases BY SeenStep
    <3>4. \A x \in g.todo : Rank[x] < Rank[g.t] BY <2>2, <2>5, <3>2, <3>3 DEF FromValues, Ranked
    <3>5. QED BY <3>1, <3>4
  <2>6. CASE k - 1 \in 1..Len(stack) /\ g.t \in stack[k - 1].todo /\ g.todo = {}
    <3> DEFINE b == stack[k - 1]
    <3>1. CASE k - 1 > 1
      <4>1. Rank[b.t] <= R - (k - 1 - 1) /\ Rank[g.t] < Rank[b.t] BY <2>6, <3>1 DEF Shallow
      <4>2. b.t \in Targets BY <1>2, <2>6, <3>1 DEF StackOK, Place
      <4>3. Rank[b.t] \in 0..R - 1 BY <4>2 DEF Ranked
      <4>4. Rank[g.t] <= R - (k - 1) BY <2>3, <4>1, <4>3
      <4>5. QED BY <2>6, <4>4
    <3>2. CASE k - 1 = 1
      <4>1. k = 2 BY <3>2
      <4>2. QED BY <2>3, <2>6, <4>1
    <3>3. QED BY <2>6, <3>1, <3>2
  <2>7. QED BY <1>4, <2>1, <2>4, <2>5, <2>6 DEF Comes
<1>5. QED BY <1>4 DEF Shallow

LEMMA RunsOn ==
  ASSUME NEW R \in Nat, NEW Rank, Ranked(Rank, R), MaxDepth > R, IInv, Shallow(stack, Rank, R), running, Next
  PROVE  running'
<1>1. CASE EvalCall
  <2>1. PICK t \in Top.todo : running' = TRUE \/ ~(Len(stack) < MaxDepth) BY <1>1 DEF EvalCall
  <2>2. stack # <<>> /\ WorldOK /\ StackOK(stack, now) BY <1>1 DEF EvalCall, Expanding, IInv
  <2>3. Len(stack) \in Nat \ {0} BY <2>2, TopKnown
  <2>4. ASSUME Len(stack) > 1 PROVE Len(stack) <= R
    <3>1. Len(stack) \in 1..Len(stack) BY <2>3
    <3>2. Rank[Top.t] <= R - (Len(stack) - 1) /\ Rank[t] < Rank[Top.t] BY <2>4, <3>1 DEF Shallow, Top
    <3>3. t \in Targets BY <2>2, TopKnown DEF FrameOK
    <3>4. Top.t \in Targets
      <4>1. Place(Top, Len(stack), Len(stack)) BY <2>2, TopKnown
      <4>2. Len(stack) # 1
        <5>1. \A n \in Nat \ {0} : n > 1 => n # 1 OBVIOUS
        <5>2. QED BY <2>3, <2>4, <5>1
      <4>3. QED BY <4>1, <4>2 DEF Place
    <3>5. Rank[t] \in 0..R - 1 /\ Rank[Top.t] \in 0..R - 1 BY <3>3, <3>4 DEF Ranked
    <3>6. QED BY <2>3, <3>2, <3>5
  <2>5. ASSUME Len(stack) = 1 PROVE Len(stack) <= R
    <3>1. t \in Targets BY <2>2, TopKnown DEF FrameOK
    <3>2. Rank[t] \in 0..R - 1 BY <3>1 DEF Ranked
    <3>3. QED BY <2>5, <3>2
  <2>6. Len(stack) <= R BY <2>3, <2>4, <2>5
  <2>7. Len(stack) < MaxDepth BY <2>3, <2>6, BoundAssumption
  <2>8. QED BY <2>1, <2>7
<1>2. QED
  BY <1>1 DEF Next, Actions, Step, Hit, Miss, Load, EvalDone, rangefunc_cluster, rangefunc_group, Asks, Select,
     libcrange_clear_caches, libcrange_want_caching, Tick, Update, Publish, Changes, request, caching, environment

(* When the texts of all the databases that there will ever be have no      *)
(* circle, taken together, as many frames as there are ranks, and one for   *)
(* the request, are enough: the C stack does not overflow.  It is not       *)
(* enough that each database has none.                                      *)
THEOREM DepthBounded ==
  ASSUME NEW R \in Nat, NEW Rank, Ranked(Rank, R), MaxDepth > R
  PROVE  Spec => []running
<1>1. Init => running /\ Shallow(stack, Rank, R)
  <2>1. Len(<<>>) = 0 OBVIOUS
  <2>2. QED BY <2>1 DEF Init, Shallow
<1>2. ASSUME IInv, running /\ Shallow(stack, Rank, R), [Next]_vars PROVE (running /\ Shallow(stack, Rank, R))'
  <2>1. CASE Next BY <1>2, <2>1, ShallowStep, RunsOn
  <2>2. CASE UNCHANGED vars BY <1>2, <2>2 DEF vars, request, Shallow
  <2>3. QED BY <1>2, <2>1, <2>2
<1>3. QED BY Invariant, <1>1, <1>2, PTL DEF Spec

(***************************************************************************)
(* The circles.                                                            *)
(***************************************************************************)

(* The sections whose text names others, in any of the databases.          *)
Calling ==
  {t \in Targets : \E d \in Databases : \E b \in {a \in Like[t.c] : t.s \in DOMAIN d.rows[a]} : d.rows[b][t.s].todo # {}}

NamedIn(H, t, x) ==
  \E d \in H : \E b \in {a \in Like[t.c] : t.s \in DOMAIN d.rows[a]} :
    \E y \in d.rows[b][t.s].todo : x = IF y.c = Self THEN Target(t.c, y.s) ELSE y

(* Each section that is being expanded was named by a text of the one      *)
(* below, which was asked for since the request began.                     *)
Chained ==
  \A k \in 1..Len(stack) : k > 1 =>
    /\ asked <= stack[k].at
    /\ \A x \in stack[k].todo : NamedIn(Held, stack[k].t, x)
    /\ k > 2 => NamedIn(Held, stack[k - 1].t, stack[k].t)

LEMMA HeldTyped == ASSUME IInv PROVE Held \subseteq Databases
<1>1. Window(asked, now) \subseteq 0..MaxTime BY DEF Window
<1>2. \A u \in 0..MaxTime : seen[u] \subseteq Databases BY DEF IInv, SeenOK
<1>3. QED BY <1>1, <1>2 DEF Held

(* While a request lasts nothing it could have read is forgotten.          *)
LEMMA HeldLater == ASSUME IInv, Next, asked' = asked PROVE Held \subseteq Held'
<1>1. Grows(seen, seen', failed, failed') BY SeenStep
<1>2. now \in 0..MaxTime /\ now' \in 0..MaxTime /\ now <= now' /\ MaxTime \in Nat
  BY RestStep, BoundAssumption DEF IInv, WorldOK, RestOK
<1>3. ASSUME NEW u \in Window(asked, now) PROVE u \in Window(asked', now') /\ seen[u] \subseteq seen'[u]
  BY <1>1, <1>2 DEF Window, Grows
<1>4. QED BY <1>3 DEF Held

LEMMA NamedLater ==
  ASSUME IInv, Next, asked' = asked, NEW t, NEW x, NamedIn(Held, t, x) PROVE NamedIn(Held', t, x)
<1>1. Held \subseteq Held' BY HeldLater
<1>2. QED BY <1>1 DEF NamedIn

(* A text that was held names what _substitute_dollars makes of it.        *)
LEMMA NamedBy ==
  ASSUME NEW t \in Targets, NEW d \in Databases, NEW v \in Values(d, t.c, t.s), NEW x \in v.todo
  PROVE  \E b \in {a \in Like[t.c] : t.s \in DOMAIN d.rows[a]} :
           \E y \in d.rows[b][t.s].todo : x = IF y.c = Self THEN Target(t.c, y.s) ELSE y
<1> DEFINE c == t.c
           s == t.s
<1>1. PICK b \in {a \in Like[c] : s \in DOMAIN d.rows[a]} : v = _substitute_dollars(c, d.rows[b][s]) BY DEF Values
<1>2. b \in Cluster /\ c \in Cluster BY <1>1, LikeAssumption DEF Targets
<1>3. d.rows[b][s] \in Texts BY <1>1, <1>2, DatabaseAssumption
<1> DEFINE text == d.rows[b][s]
<1>4. text \in Texts BY <1>3
<1>5. v = [text EXCEPT !.todo = {IF y.c = Self THEN Target(c, y.s) ELSE y : y \in @}] BY <1>1 DEF _substitute_dollars
<1> HIDE DEF text
<1>6. v.todo = {IF y.c = Self THEN Target(c, y.s) ELSE y : y \in text.todo} BY <1>4, <1>5 DEF Texts
<1>7. PICK y \in text.todo : x = IF y.c = Self THEN Target(c, y.s) ELSE y BY <1>6
<1>8. QED BY <1>1, <1>7 DEF text

LEMMA AskedStays == ASSUME Next PROVE asked' = asked \/ stack' = <<>> \/ \E q : stack' = <<Request(q.ts)>>
<1>1. CASE EvalDone BY <1>1 DEF EvalDone
<1>2. ASSUME NEW q, Asks(q) PROVE stack' = <<Request(q.ts)>> BY <1>2 DEF Asks
<1>3. QED
  BY <1>1, <1>2 DEF Next, Actions, Step, Hit, Miss, Load, EvalCall, rangefunc_cluster, rangefunc_group, Select,
     libcrange_clear_caches, libcrange_want_caching, Tick, Update, Publish, Changes, request

LEMMA ChainStep == ASSUME IInv, Chained, Next PROVE Chained'
<1>1. Moved(stack, stack', seen', failed') BY StackStep
<1>2. StackOK(stack', now) /\ StackOK(stack, now) BY <1>1 DEF Moved, IInv
<1>3. IsSeq(stack') /\ IsSeq(stack) BY <1>2 DEF StackOK
<1>4. /\ now \in 0..MaxTime /\ now' \in 0..MaxTime /\ now <= now' /\ MaxTime \in Nat /\ Expiry \in Nat
      /\ asked \in 0..now
  BY RestStep, BoundAssumption DEF IInv, WorldOK, RestOK
<1>5. CASE asked' = asked
  <2>1. ASSUME NEW k \in 1..Len(stack'), k > 1
        PROVE  /\ asked' <= stack'[k].at
               /\ \A x \in stack'[k].todo : NamedIn(Held', stack'[k].t, x)
               /\ k > 2 => NamedIn(Held', stack'[k - 1].t, stack'[k].t)
    <3> DEFINE g == stack'[k]
    <3>0. Len(stack') \in Nat /\ Len(stack) \in Nat
      <4>1. PICK F : stack \in Seq(F) BY <1>3 DEF IsSeq
      <4>2. PICK G : stack' \in Seq(G) BY <1>3 DEF IsSeq
      <4>3. QED BY <4>1, <4>2
    <3>1. Comes(stack, stack', seen', k) /\ g.t \in Targets /\ g.at \in 0..now
      BY <1>1, <1>2, <2>1 DEF Moved, StackOK, Place, FrameOK
    <3>2. ASSUME k > 2 PROVE k - 1 \in 1..Len(stack) /\ stack'[k - 1].t = stack[k - 1].t
      <4>1. k - 1 \in 1..Len(stack') /\ k - 1 # 1 /\ k - 1 # Len(stack') BY <2>1, <3>0, <3>2
      <4>2. Comes(stack, stack', seen', k - 1) BY <1>1, <4>1 DEF Moved
      <4>3. QED BY <4>1, <4>2 DEF Comes
    <3>3. CASE k \in 1..Len(stack) /\ g.t = stack[k].t /\ g.at \in {stack[k].at, now}
               /\ (g.todo \subseteq stack[k].todo \/ FromValues(g, seen'))
      <4>1. asked <= stack[k].at /\ stack[k].at \in 0..now BY <1>2, <2>1, <3>3 DEF Chained, StackOK, FrameOK
      <4>2. asked' <= g.at BY <1>4, <1>5, <3>3, <4>1
      <4>3. k > 2 => NamedIn(Held', stack'[k - 1].t, g.t)
        <5>1. SUFFICES ASSUME k > 2 PROVE NamedIn(Held', stack'[k - 1].t, g.t) OBVIOUS
        <5>2. NamedIn(Held, stack[k - 1].t, stack[k].t) BY <2>1, <3>3, <5>1 DEF Chained
        <5>4. \A t, x : NamedIn(Held, t, x) => NamedIn(Held', t, x) BY <1>5, NamedLater
        <5>5. QED BY <3>2, <3>3, <5>1, <5>2, <5>4
      <4>4. ASSUME NEW x \in g.todo PROVE NamedIn(Held', g.t, x)
        <5>1. CASE g.todo \subseteq stack[k].todo
          <6>1. NamedIn(Held, stack[k].t, x) BY <2>1, <3>3, <4>4, <5>1 DEF Chained
          <6>2. \A t, y : NamedIn(Held, t, y) => NamedIn(Held', t, y) BY <1>5, NamedLater
          <6>3. QED BY <3>3, <6>1, <6>2
        <5>2. CASE FromValues(g, seen')
          <6>1. PICK u \in Window(g.at, g.until) : \E d \in seen'[u] : \E v \in Values(d, g.t.c, g.t.s) : g.todo \subseteq v.todo
            BY <4>4, <5>2 DEF FromValues
          <6>2. g.until \in g.at..now BY <1>2, <2>1 DEF StackOK, FrameOK
          <6>3. u \in Window(asked', now') /\ u \in 0..MaxTime BY <1>4, <3>1, <4>2, <6>1, <6>2, <1>5 DEF Window
          <6>4. PICK d \in seen'[u] : \E v \in Values(d, g.t.c, g.t.s) : g.todo \subseteq v.todo BY <6>1
          <6>5. d \in Databases /\ d \in Held' BY <6>3, SeenStep DEF Held
          <6>6. PICK v \in Values(d, g.t.c, g.t.s) : g.todo \subseteq v.todo BY <6>4
          <6>7. x \in v.todo BY <4>4, <6>6
          <6> HIDE DEF g
          <6>8. \E b \in {a \in Like[g.t.c] : g.t.s \in DOMAIN d.rows[a]} :
                  \E y \in d.rows[b][g.t.s].todo : x = IF y.c = Self THEN Target(g.t.c, y.s) ELSE y
            BY <3>1, <6>5, <6>7, NamedBy
          <6>9. QED BY <6>5, <6>8 DEF NamedIn
        <5>3. QED BY <3>3, <5>1, <5>2
      <4>5. QED BY <4>2, <4>3, <4>4
    <3>4. CASE k - 1 \in 1..Len(stack) /\ g.t \in stack[k - 1].todo /\ g.todo = {} /\ g.at = now
      <4>1. asked' <= g.at BY <1>4, <1>5, <3>4
      <4>2. k > 2 => NamedIn(Held', stack'[k - 1].t, g.t)
        <5>1. SUFFICES ASSUME k > 2 PROVE NamedIn(Held', stack'[k - 1].t, g.t) OBVIOUS
        <5>2. k - 1 > 1 BY <5>1
        <5>3. NamedIn(Held, stack[k - 1].t, g.t) BY <3>4, <5>2 DEF Chained
        <5>4. \A t, x : NamedIn(Held, t, x) => NamedIn(Held', t, x) BY <1>5, NamedLater
        <5>5. QED BY <3>2, <5>1, <5>3, <5>4
      <4>3. QED BY <3>4, <4>1, <4>2
    <3>5. QED BY <2>1, <3>1, <3>3, <3>4 DEF Comes
  <2>2. QED BY <2>1 DEF Chained
<1>6. CASE stack' = <<>>
  <2>1. Len(<<>>) = 0 OBVIOUS
  <2>2. QED BY <1>6, <2>1 DEF Chained
<1>7. ASSUME NEW q, stack' = <<Request(q.ts)>> PROVE Chained'
  <2>1. Len(stack') = 1 BY <1>7
  <2>2. QED BY <2>1 DEF Chained
<1>8. QED BY <1>5, <1>6, <1>7, AskedStays

(* As many frames as there are sections that call others, and two more:    *)
(* one of these sections is on the stack twice.                            *)
LEMMA Repeats ==
  ASSUME IsFiniteSet(Calling), NEW n \in Nat, Cardinality(Calling) < n, NEW T \in [1..n -> Calling]
  PROVE  \E i, j \in 1..n : i < j /\ T[i] = T[j]
<1>1. SUFFICES ASSUME \A i, j \in 1..n : i < j => T[i] # T[j] PROVE FALSE OBVIOUS
<1>2. T \in Injection(1..n, Calling)
  <2>1. \A i, j \in 1..n : i # j => i < j \/ j < i OBVIOUS
  <2>2. \A i, j \in 1..n : T[i] = T[j] => i = j BY <1>1, <2>1
  <2>3. QED BY <2>2 DEF Injection, IsInjective
<1>3. IsFiniteSet(1..n) /\ Cardinality(1..n) = n BY FS_Interval
<1>4. Cardinality(1..n) <= Cardinality(Calling) BY <1>2, FS_Injection
<1>5. Cardinality(Calling) \in Nat BY FS_CardinalityType
<1>6. QED BY <1>3, <1>4, <1>5

LEMMA CircleOnOverflow ==
  ASSUME IInv, Chained, Next, running, ~running', IsFiniteSet(Calling), Cardinality(Calling) + 1 < MaxDepth
  PROVE  DeepOnlyInCircles'
<1>1. EvalCall
  BY DEF Next, Actions, Step, Hit, Miss, Load, EvalDone, rangefunc_cluster, rangefunc_group, Asks, Select,
     libcrange_clear_caches, libcrange_want_caching, Tick, Update, Publish, Changes, request, caching, environment
<1>2. PICK t \in Top.todo : ~(Len(stack) < MaxDepth) /\ UNCHANGED stack BY <1>1 DEF EvalCall
<1>3. asked' = asked BY <1>1 DEF EvalCall
<1>4. WorldOK /\ StackOK(stack, now) /\ stack # <<>> BY <1>1 DEF IInv, EvalCall, Expanding
<1>5. Len(stack) \in Nat \ {0} /\ FrameOK(Top, now) BY <1>4, TopKnown
<1>6. Cardinality(Calling) \in Nat /\ MaxDepth \in Nat BY FS_CardinalityType, BoundAssumption
<1> DEFINE n == Len(stack) - 1
           T == [i \in 1..n + 1 |-> IF i = n + 1 THEN t ELSE stack[i + 1].t]
<1>7. n \in Nat /\ Cardinality(Calling) < n /\ n >= 1 /\ Len(stack) = n + 1 BY <1>2, <1>5, <1>6
<1> HIDE DEF n
<1>8. ASSUME NEW i \in 1..n PROVE T[i] \in Targets /\ NamedIn(Held, T[i], T[i + 1])
  <2>1. i + 1 \in 1..Len(stack) /\ i + 1 > 1 /\ i # n + 1 /\ i \in 1..n + 1 /\ i + 1 \in 1..n + 1 BY <1>7, <1>8
  <2>2. T[i] = stack[i + 1].t BY <2>1
  <2>3. stack[i + 1].t \in Targets BY <1>4, <2>1 DEF StackOK, Place
  <2>4. CASE i = n
    <3>1. T[i + 1] = t BY <2>1, <2>4
    <3>2. stack[i + 1] = Top BY <1>7, <2>4 DEF Top
    <3>3. NamedIn(Held, stack[i + 1].t, t) BY <2>1, <3>2 DEF Chained
    <3>4. QED BY <2>2, <2>3, <3>1, <3>3
  <2>5. CASE i # n
    <3>1. i + 2 \in 1..Len(stack) /\ i + 2 > 2 /\ i + 2 > 1 /\ (i + 2) - 1 = i + 1 /\ i + 1 # n + 1 /\ (i + 1) + 1 = i + 2 BY <1>7, <1>8, <2>5
    <3>2. T[i + 1] = stack[i + 2].t BY <2>1, <3>1
    <3>3. NamedIn(Held, stack[i + 1].t, stack[i + 2].t) BY <3>1 DEF Chained
    <3>4. QED BY <2>2, <2>3, <3>2, <3>3
  <2>6. QED BY <2>4, <2>5
<1> HIDE DEF T
<1>9. ASSUME NEW i \in 1..n PROVE T[i] \in Calling
  <2>1. Held \subseteq Databases BY HeldTyped
  <2>2. T[i] \in Targets /\ NamedIn(Held, T[i], T[i + 1]) BY <1>8
  <2>3. QED BY <2>1, <2>2 DEF NamedIn, Calling
<1>10. [i \in 1..n |-> T[i]] \in [1..n -> Calling] BY <1>9
<1>11. PICK i, j \in 1..n : i < j /\ T[i] = T[j]
  <2> DEFINE U == [i \in 1..n |-> T[i]]
  <2>1. U \in [1..n -> Calling] BY <1>10
  <2>2. \A i \in 1..n : U[i] = T[i] OBVIOUS
  <2> HIDE DEF U
  <2>3. PICK i, j \in 1..n : i < j /\ U[i] = U[j] BY <1>7, <2>1, Repeats
  <2>4. QED BY <2>2, <2>3
<1> DEFINE S == {T[m] : m \in i..j - 1}
<1>12. S \in (SUBSET Targets) \ {{}}
  <2>1. i \in i..j - 1 BY <1>11
  <2>2. \A m \in i..j - 1 : m \in 1..n BY <1>7
  <2>3. S \subseteq Targets BY <1>8, <2>2
  <2>4. S # {} BY <2>1
  <2>5. QED BY <2>3, <2>4
<1>13. ASSUME NEW s \in S PROVE \E x \in S : NamedIn(Held', s, x)
  <2>1. PICK m \in i..j - 1 : s = T[m] BY <1>13
  <2>2. m \in 1..n /\ m \in Int BY <1>7
  <2>3. NamedIn(Held, T[m], T[m + 1]) BY <1>8, <2>2
  <2>4. T[m + 1] \in S
    <3>1. CASE m + 1 = j
      <4>1. T[m + 1] = T[i] /\ i \in i..j - 1 BY <1>11, <3>1
      <4>2. QED BY <4>1
    <3>2. CASE m + 1 # j
      <4>1. m + 1 \in i..j - 1 BY <1>11, <2>2, <3>2
      <4>2. QED BY <4>1
    <3>3. QED BY <3>1, <3>2
  <2>5. \A u, x : NamedIn(Held, u, x) => NamedIn(Held', u, x) BY <1>3, NamedLater
  <2>6. QED BY <2>1, <2>3, <2>4, <2>5
<1>14. QED BY <1>12, <1>13 DEF DeepOnlyInCircles, Named, NamedIn

LEMMA CircleStays ==
  ASSUME IInv, Next, ~running, DeepOnlyInCircles PROVE DeepOnlyInCircles'
<1>1. asked' = asked
  BY DEF Next, Actions, Step, Hit, Miss, Load, EvalCall, EvalDone, Expanding, rangefunc_cluster, rangefunc_group,
     Asks, Select, libcrange_clear_caches, libcrange_want_caching, Tick, Update, Publish, Changes, request
<1>2. PICK S \in (SUBSET Targets) \ {{}} : \A t \in S : \E x \in S : NamedIn(Held, t, x) BY DEF DeepOnlyInCircles, Named, NamedIn
<1>3. \A u, x : NamedIn(Held, u, x) => NamedIn(Held', u, x) BY <1>1, NamedLater
<1>4. \A t \in S : \E x \in S : NamedIn(Held', t, x) BY <1>2, <1>3
<1>5. QED BY <1>4 DEF DeepOnlyInCircles, Named, NamedIn

(* With more frames than there are sections whose texts call others, and   *)
(* one for the request and one for the last section, the C stack overflows *)
(* only in a circle: sections each of which was, at some time of the       *)
(* request or as long before as an entry is good, named by another.  They  *)
(* need not have been a circle at any one time.                            *)
THEOREM AlwaysCircles ==
  ASSUME IsFiniteSet(Calling), Cardinality(Calling) + 1 < MaxDepth
  PROVE  Spec => []DeepOnlyInCircles
<1>1. Init => Chained /\ DeepOnlyInCircles
  <2>1. Len(<<>>) = 0 OBVIOUS
  <2>2. QED BY <2>1 DEF Init, Chained, DeepOnlyInCircles
<1>2. ASSUME IInv, Chained /\ DeepOnlyInCircles, [Next]_vars PROVE (Chained /\ DeepOnlyInCircles)'
  <2>1. CASE Next
    <3>1. Chained' BY <1>2, <2>1, ChainStep
    <3>2. running' => DeepOnlyInCircles' BY DEF DeepOnlyInCircles
    <3>3. running /\ ~running' => DeepOnlyInCircles' BY <1>2, <2>1, CircleOnOverflow, Zenon
    <3>4. ~running => DeepOnlyInCircles' BY <1>2, <2>1, CircleStays, Zenon
    <3>5. QED BY <3>1, <3>2, <3>3, <3>4, Zenon
  <2>2. CASE UNCHANGED vars
    <3>1. asked' = asked /\ stack' = stack /\ seen' = seen /\ now' = now /\ (running' <=> running)
      BY <2>2, Zenon DEF vars, environment, caching, request
    <3>2. Held' = Held BY <3>1 DEF Held
    <3>3. Chained' BY <1>2, <3>1, <3>2 DEF Chained
    <3>4. \A t, x : Named(t, x)' <=> Named(t, x) BY <3>2 DEF Named
    <3>5. DeepOnlyInCircles' BY <1>2, <3>1, <3>4, Zenon DEF DeepOnlyInCircles
    <3>6. QED BY <3>3, <3>5
  <2>3. QED BY <1>2, <2>1, <2>2
<1>3. QED BY Invariant, <1>1, <1>2, PTL DEF Spec

(***************************************************************************)
(* The answers of a time in which nothing changes.                         *)
(***************************************************************************)

(* What the table has for some sections.                                   *)
Due(d, ts) == {n \in Name : \E x \in ts : HasRow(d, n, x)}

(* The name of a cluster that LIKE takes for no other.                     *)
Literal(t) == t \in Targets /\ Like[t.c] = {t.c} /\ t.s # "KEYS"

LiteralTexts(d) ==
  \A c \in Cluster : \A s \in DOMAIN d.rows[c] : \A x \in d.rows[c][s].todo :
    x.s # "KEYS" /\ (x.c = Self \/ Like[x.c] = {x.c})

(* What a frame has, what it still has to ask for and what the frame above *)
(* it will return are together what the table has for it.                  *)
ExactAt(st, k, ts, d) ==
  /\ k > 1 => Literal(st[k].t)
  /\ \A x \in st[k].todo : Literal(x)
  /\ st[k].pc = "eval" =>
       st[k].acc \union Due(d, st[k].todo) \union (IF k < Len(st) THEN Due(d, {st[k + 1].t}) ELSE {})
         = Due(d, IF k = 1 THEN ts ELSE {st[k].t})

Exact(st, ts, d) == \A k \in 1..Len(st) : ExactAt(st, k, ts, d)

LEMMA ExactTop ==
  ASSUME NEW st, IsSeq(st), st # <<>>, NEW f, f.t = st[Len(st)].t, NEW ts, NEW d, Exact(st, ts, d),
         \A x \in f.todo : Literal(x),
         f.pc = "eval" => f.acc \union Due(d, f.todo) = Due(d, IF Len(st) = 1 THEN ts ELSE {f.t})
  PROVE  Exact([st EXCEPT ![Len(st)] = f], ts, d)
<1> DEFINE new == [st EXCEPT ![Len(st)] = f]
           n == Len(st)
<1>1. /\ IsSeq(new) /\ Len(new) = n /\ n \in Nat \ {0} /\ new[n] = f
      /\ \A k \in 1..n - 1 : new[k] = st[k]
  BY SetTop
<1> HIDE DEF new, n
<1>2. ASSUME NEW k \in 1..n PROVE ExactAt(new, k, ts, d)
  <2>1. ExactAt(st, k, ts, d) BY <1>2 DEF Exact, n
  <2>2. CASE k = n
    <3>1. new[k] = f /\ ~(k < Len(new)) BY <1>1, <2>2
    <3>2. f.t = st[k].t BY <2>2 DEF n
    <3>3. k > 1 => Literal(f.t) BY <2>1, <3>2 DEF ExactAt
    <3>4. f.pc = "eval" => f.acc \union Due(d, f.todo) = Due(d, IF k = 1 THEN ts ELSE {f.t}) BY <2>2 DEF n
    <3>5. QED BY <3>1, <3>3, <3>4 DEF ExactAt
  <2>3. CASE k # n
    <3>1. k \in 1..n - 1 /\ k < n /\ k + 1 \in 1..n BY <1>1, <1>2, <2>3
    <3>2. new[k] = st[k] BY <1>1, <3>1
    <3>3. new[k + 1].t = st[k + 1].t
      <4>1. CASE k + 1 = n BY <1>1, <4>1 DEF n
      <4>2. CASE k + 1 # n
        <5>1. k + 1 \in 1..n - 1 BY <1>1, <3>1, <4>2
        <5>2. QED BY <1>1, <5>1
      <4>3. QED BY <4>1, <4>2
    <3>4. (k < Len(new)) /\ (k < Len(st)) BY <1>1, <3>1 DEF n
    <3>5. QED BY <2>1, <3>2, <3>3, <3>4 DEF ExactAt
  <2>4. QED BY <2>2, <2>3
<1>3. QED BY <1>1, <1>2 DEF Exact, new

LEMMA ExactReturn ==
  ASSUME NEW st, NEW t \in Nat, StackOK(st, t), st # <<>>, Len(st) > 1, NEW ts, NEW d, Exact(st, ts, d),
         NEW v, v = Due(d, {st[Len(st)].t})
  PROVE  Exact([Front(st) EXCEPT ![Len(st) - 1].acc = @ \union v], ts, d)
<1> DEFINE mid == Front(st)
           n == Len(st) - 1
           g == [mid[n] EXCEPT !.acc = @ \union v]
           new == [mid EXCEPT ![Len(mid)] = g]
<1>1. /\ IsSeq(mid) /\ Len(st) \in Nat \ {0} /\ Len(mid) = n
      /\ \A k \in 1..n : mid[k] = st[k]
  BY Popped DEF StackOK
<1>2. n \in Nat \ {0} /\ n \in 1..n /\ n \in 1..Len(st) /\ n + 1 = Len(st) /\ n < Len(st) /\ Len(st) - 1 = n BY <1>1
<1>3. mid # <<>> BY <1>1, <1>2
<1>4. FrameOK(st[n], t) /\ Place(st[n], n, Len(st)) BY <1>2 DEF StackOK
<1>5. mid[n] = st[n] BY <1>1, <1>2
<1> HIDE DEF mid
<1>6. g.t = st[n].t /\ g.todo = st[n].todo /\ g.pc = st[n].pc /\ g.acc = st[n].acc \union v
  BY <1>4, <1>5 DEF FrameOK
<1> HIDE DEF g
<1>7. /\ IsSeq(new) /\ Len(new) = n /\ new[n] = g
      /\ \A k \in 1..n - 1 : new[k] = mid[k]
  BY <1>1, <1>3, SetTop
<1>8. new = [Front(st) EXCEPT ![Len(st) - 1].acc = @ \union v]
  BY <1>1 DEF mid, g
<1> HIDE DEF new, n
<1>9. ASSUME NEW k \in 1..n PROVE ExactAt(new, k, ts, d)
  <2>1. k \in 1..Len(st) /\ k < Len(st) BY <1>2, <1>9
  <2>2. ExactAt(st, k, ts, d) BY <2>1 DEF Exact
  <2>3. CASE k = n
    <3>1. new[k] = g /\ ~(k < Len(new)) BY <1>2, <1>7, <2>3
    <3>2. st[k + 1] = st[Len(st)] BY <1>2, <2>3
    <3>3. st[k].pc = "eval" =>
            st[k].acc \union Due(d, st[k].todo) \union v = Due(d, IF k = 1 THEN ts ELSE {st[k].t})
      BY <2>1, <2>2, <3>2 DEF ExactAt
    <3>4. g.pc = "eval" => g.acc \union Due(d, g.todo) = Due(d, IF k = 1 THEN ts ELSE {g.t})
      BY <1>6, <2>3, <3>3
    <3>5. QED BY <1>6, <2>2, <2>3, <3>1, <3>4 DEF ExactAt
  <2>4. CASE k # n
    <3>1. k \in 1..n - 1 /\ k < n /\ k + 1 \in 1..n BY <1>2, <1>9, <2>4
    <3>2. new[k] = st[k] BY <1>1, <1>7, <1>9, <3>1
    <3>3. new[k + 1].t = st[k + 1].t
      <4>1. CASE k + 1 = n BY <1>6, <1>7, <4>1
      <4>2. CASE k + 1 # n
        <5>1. k + 1 \in 1..n - 1 BY <1>2, <3>1, <4>2
        <5>2. QED BY <1>1, <1>7, <3>1, <5>1
      <4>3. QED BY <4>1, <4>2
    <3>4. k < Len(new) BY <1>7, <3>1
    <3>5. QED BY <2>1, <2>2, <3>2, <3>3, <3>4 DEF ExactAt
  <2>5. QED BY <2>3, <2>4
<1>10. Exact(new, ts, d) BY <1>7, <1>9 DEF Exact
<1>11. QED BY <1>8, <1>10

LEMMA ExactCall ==
  ASSUME NEW st, NEW t \in Nat, StackOK(st, t), st # <<>>, NEW ts, NEW d, Exact(st, ts, d),
         st[Len(st)].pc = "eval", NEW x \in st[Len(st)].todo
  PROVE  Exact(Append([st EXCEPT ![Len(st)] = [st[Len(st)] EXCEPT !.todo = @ \ {x}]], Expansion(x)), ts, d)
<1> DEFINE n == Len(st)
           f == [st[n] EXCEPT !.todo = @ \ {x}]
           mid == [st EXCEPT ![Len(st)] = f]
           g == Expansion(x)
           new == Append(mid, g)
<1>1. /\ IsSeq(mid) /\ Len(mid) = n /\ n \in Nat \ {0} /\ mid[n] = f
      /\ \A k \in 1..n - 1 : mid[k] = st[k]
  BY SetTop DEF StackOK
<1>2. n \in 1..Len(st) BY <1>1
<1>3. FrameOK(st[n], t) BY <1>2 DEF StackOK
<1>4. f.t = st[n].t /\ f.todo = st[n].todo \ {x} /\ f.pc = st[n].pc /\ f.acc = st[n].acc BY <1>3 DEF FrameOK
<1>5. g.t = x /\ g.todo = {} /\ g.pc = "lookup" BY DEF Expansion
<1> HIDE DEF f, g, mid
<1>6. /\ IsSeq(new) /\ Len(new) = n + 1 /\ new[n + 1] = g
      /\ \A k \in 1..n : new[k] = mid[k]
  BY <1>1, Pushed
<1> HIDE DEF new
<1>7. ExactAt(st, n, ts, d) BY <1>2 DEF Exact
<1> HIDE DEF n
<1>8. ASSUME NEW k \in 1..n + 1 PROVE ExactAt(new, k, ts, d)
  <2>1. CASE k = n + 1
    <3>1. Literal(x) BY <1>7 DEF ExactAt, n
    <3>2. QED BY <1>5, <1>6, <2>1, <3>1 DEF ExactAt
  <2>2. CASE k = n
    <3>1. new[k] = f /\ new[k + 1] = g /\ k < Len(new) BY <1>1, <1>6, <2>2
    <3>2. ~(k < Len(st)) BY <1>1, <2>2 DEF n
    <3>3. st[k].acc \union Due(d, st[k].todo) = Due(d, IF k = 1 THEN ts ELSE {st[k].t})
      BY <1>7, <2>2, <3>2 DEF ExactAt, n
    <3>4. Due(d, st[k].todo) = Due(d, f.todo) \union Due(d, {g.t})
      <4>1. st[k].todo = f.todo \union {x} BY <1>4, <2>2 DEF n
      <4>2. QED BY <1>5, <4>1 DEF Due
    <3>5. f.acc \union Due(d, f.todo) \union Due(d, {g.t}) = Due(d, IF k = 1 THEN ts ELSE {f.t})
      BY <1>4, <2>2, <3>3, <3>4
    <3>6. (k > 1 => Literal(f.t)) /\ \A y \in f.todo : Literal(y) BY <1>4, <1>7, <2>2 DEF ExactAt
    <3>7. QED BY <3>1, <3>5, <3>6 DEF ExactAt
  <2>3. CASE k # n + 1 /\ k # n
    <3>1. k \in 1..n - 1 /\ k \in 1..n /\ k + 1 \in 1..n /\ k < n BY <1>1, <1>8, <2>3
    <3>2. ExactAt(st, k, ts, d) BY <3>1 DEF Exact, n
    <3>3. new[k] = st[k] BY <1>1, <1>6, <3>1
    <3>4. new[k + 1].t = st[k + 1].t
      <4>1. CASE k + 1 = n BY <1>1, <1>4, <1>6, <3>1, <4>1
      <4>2. CASE k + 1 # n
        <5>1. k + 1 \in 1..n - 1 BY <1>1, <3>1, <4>2
        <5>2. QED BY <1>1, <1>6, <3>1, <5>1
      <4>3. QED BY <4>1, <4>2
    <3>5. k < Len(st) /\ k < Len(new) BY <1>1, <1>6, <3>1 DEF n
    <3>6. QED BY <3>2, <3>3, <3>4, <3>5 DEF ExactAt
  <2>4. QED BY <2>1, <2>2, <2>3
<1>9. QED BY <1>6, <1>8 DEF Exact, new, mid, f, g, n

(* While a request lasts, nothing settles that was not settled before.     *)
LEMMA SettledBefore ==
  ASSUME IInv, Next, asked' = asked, Settled'
  PROVE  /\ Settled /\ Visible' = Visible /\ Visible \in Databases
         /\ \A t \in Window(asked, now) : seen'[t] \subseteq {Visible} /\ t \notin failed'
<1>1. Grows(seen, seen', failed, failed') BY SeenStep
<1>2. /\ now \in 0..MaxTime /\ now' \in 0..MaxTime /\ now <= now' /\ MaxTime \in Nat /\ Expiry \in Nat
      /\ asked \in 0..now
  BY RestStep, BoundAssumption DEF IInv, WorldOK, RestOK
<1>3. \A t \in Window(asked, now) : t \in Window(asked', now') /\ t \in 0..MaxTime BY <1>2 DEF Window
<1>4. Visible \in seen[now] /\ Visible \in Databases BY <1>2 DEF IInv, SeenOK
<1>5. now \in Window(asked, now) BY <1>2 DEF Window
<1>6. \A t \in Window(asked, now) : seen'[t] \subseteq {Visible'} /\ t \notin failed' BY <1>3 DEF Settled
<1>7. Visible' = Visible BY <1>1, <1>2, <1>4, <1>5, <1>6 DEF Grows
<1>8. Settled BY <1>1, <1>3, <1>6, <1>7 DEF Settled, Grows
<1>9. QED BY <1>4, <1>6, <1>7, <1>8

(* The value of a key that one cluster has.                                *)
LEMMA LiteralValues ==
  ASSUME NEW d \in Databases, NEW t, Literal(t), LiteralTexts(d), ExpandedRows(d)
  PROVE  /\ t.s \in Keys(d, t.c) <=> t.s \in DOMAIN d.rows[t.c]
         /\ \A v \in Values(d, t.c, t.s) :
              /\ \A x \in v.todo : Literal(x)
              /\ v.names \union Due(d, v.todo) = Due(d, {t})
         /\ t.s \notin DOMAIN d.rows[t.c] => Due(d, {t}) = {}
<1> DEFINE c == t.c
           s == t.s
<1>1. Like[c] = {c} /\ c \in Cluster /\ t \in Targets /\ s # "KEYS" BY DEF Literal, Targets
<1>2. s \in Keys(d, c) <=> s \in DOMAIN d.rows[c] BY <1>1 DEF Keys
<1>3. ASSUME s \notin DOMAIN d.rows[c] PROVE Due(d, {t}) = {}
  <2>1. TextOf(d, t) = _join_elements({}) BY <1>3 DEF TextOf
  <2>2. TextOf(d, t).todo = {} /\ TextOf(d, t).names = {} BY <2>1 DEF _join_elements
  <2>3. \A n \in Name : ~HasRow(d, n, t) BY <1>1, <2>2 DEF ExpandedRows
  <2>4. QED BY <2>3 DEF Due
<1>4. ASSUME NEW v \in Values(d, c, s)
      PROVE  /\ \A x \in v.todo : Literal(x)
             /\ v.names \union Due(d, v.todo) = Due(d, {t})
  <2>1. s \in DOMAIN d.rows[c] /\ v = _substitute_dollars(c, d.rows[c][s]) BY <1>1, <1>4 DEF Values
  <2> DEFINE text == d.rows[c][s]
  <2>2. text \in Texts BY <1>1, <2>1, DatabaseAssumption
  <2>3. \A y \in text.todo : y.s # "KEYS" /\ (y.c = Self \/ Like[y.c] = {y.c}) BY <1>1, <2>1 DEF LiteralTexts
  <2>4. v = [text EXCEPT !.todo = {IF y.c = Self THEN Target(c, y.s) ELSE y : y \in @}]
    BY <2>1 DEF _substitute_dollars
  <2> HIDE DEF text
  <2>5. /\ v.todo = {IF y.c = Self THEN Target(c, y.s) ELSE y : y \in text.todo}
        /\ v.names = text.names /\ text.names \subseteq Name
        /\ text.todo \subseteq [c : Cluster \union {Self}, s : Section]
    BY <2>2, <2>4 DEF Texts
  <2>6. ASSUME NEW x \in v.todo PROVE Literal(x)
    <3>1. PICK y \in text.todo : x = IF y.c = Self THEN Target(c, y.s) ELSE y BY <2>5
    <3>2. x \in Targets BY <1>1, <1>4, ValuesTyped
    <3>3. CASE y.c = Self
      <4>1. x = Target(c, y.s) BY <3>1, <3>3
      <4>2. x.c = c /\ x.s = y.s BY <4>1 DEF Target
      <4>3. QED BY <1>1, <2>3, <3>2, <4>2 DEF Literal
    <3>4. CASE y.c # Self
      <4>1. x = y BY <3>1, <3>4
      <4>2. QED BY <2>3, <3>2, <3>4, <4>1 DEF Literal
    <3>5. QED BY <3>3, <3>4
  <2>7. TextOf(d, t) = v BY <2>1 DEF TextOf
  <2>8. \A x \in v.todo : x.s # "KEYS" BY <2>6 DEF Literal
  <2>9. \A n \in Name : HasRow(d, n, t) <=> n \in v.names \/ \E x \in v.todo : HasRow(d, n, x)
    BY <1>1, <2>7, <2>8 DEF ExpandedRows
  <2>10. v.names \union Due(d, v.todo) = Due(d, {t}) BY <2>5, <2>9 DEF Due
  <2>11. QED BY <2>6, <2>10
<1>5. QED BY <1>2, <1>3, <1>4

(* What an entry says that was read when nothing changed.                  *)
LEMMA SectionsExact ==
  ASSUME NEW c, NEW sections, NEW from, NEW to, NEW sn, NEW fl, SectionsOK(c, sections, from, to, sn, fl),
         NEW d, \A t \in from..to : sn[t] \subseteq {d} /\ t \notin fl
  PROVE  /\ Keys(d, c) \subseteq DOMAIN sections
         /\ \A s \in DOMAIN sections : s # "KEYS" => sections[s] \in Values(d, c, s)
<1>1. fl \intersect (from..to) = {} OBVIOUS
<1>2. Keys(d, c) \subseteq DOMAIN sections
  <2>1. Complete(c, sections, from, to, sn, fl) BY DEF SectionsOK
  <2>2. QED BY <1>1, <2>1 DEF Complete
<1>3. ASSUME NEW s \in DOMAIN sections, s # "KEYS" PROVE sections[s] \in Values(d, c, s)
  <2>1. From(c, s, sections[s], from, to, sn, fl) BY DEF SectionsOK
  <2>2. QED BY <1>3, <2>1 DEF From
<1>4. QED BY <1>2, <1>3

LEMMA ExactUse ==
  ASSUME IInv, stack # <<>>, Top.pc # "eval", NEW ts, NEW d \in Databases, Exact(stack, ts, d),
         LiteralTexts(d), ExpandedRows(d),
         NEW sections, NEW at, Use(sections, at),
         Keys(d, Top.t.c) \subseteq DOMAIN sections,
         \A s \in DOMAIN sections : s # "KEYS" => sections[s] \in Values(d, Top.t.c, s)
  PROVE  Exact(stack', ts, d)
<1>1. /\ Len(stack) \in Nat \ {0} /\ Len(stack) > 1 /\ Top.t \in Targets /\ FrameOK(Top, now) /\ now \in Nat
      /\ StackOK(stack, now)
  BY TopKnown, NowIsNat DEF IInv
<1>2. Literal(Top.t)
  <2>1. Len(stack) \in 1..Len(stack) BY <1>1
  <2>2. ExactAt(stack, Len(stack), ts, d) BY <2>1 DEF Exact
  <2>3. QED BY <1>1, <2>2 DEF ExactAt, Top
<1>3. Top.t.s # "KEYS" BY <1>2 DEF Literal
<1>4. CASE Top.t.s \notin DOMAIN sections
  <2>1. Return({}) BY <1>4 DEF Use
  <2>2. Top.t.s \notin DOMAIN d.rows[Top.t.c] BY <1>2, <1>4, LiteralValues
  <2>3. Due(d, {stack[Len(stack)].t}) = {} BY <1>2, <2>2, LiteralValues DEF Top
  <2>4. QED BY <1>1, <2>1, <2>3, ExactReturn DEF Return
<1>5. CASE Top.t.s \in DOMAIN sections
  <2> DEFINE s == Top.t.s
             f == [Top EXCEPT !.pc = "eval", !.at = at, !.until = now, !.text = sections[s],
                              !.todo = sections[s].todo, !.acc = sections[s].names]
  <2>1. stack' = AtTop(f) BY <1>5 DEF Use
  <2>2. f.t = Top.t /\ f.pc = "eval" /\ f.todo = sections[s].todo /\ f.acc = sections[s].names
    BY <1>1 DEF FrameOK
  <2>3. sections[s] \in Values(d, Top.t.c, s) BY <1>3, <1>5
  <2>4. (\A x \in f.todo : Literal(x)) /\ f.acc \union Due(d, f.todo) = Due(d, {f.t})
    <3>1. \A v \in Values(d, Top.t.c, Top.t.s) :
            (\A x \in v.todo : Literal(x)) /\ v.names \union Due(d, v.todo) = Due(d, {Top.t})
      BY <1>2, LiteralValues
    <3> HIDE DEF f
    <3>2. QED BY <2>2, <2>3, <3>1
  <2> HIDE DEF f
  <2>5. IsSeq(stack) /\ Len(stack) # 1 /\ f.t = stack[Len(stack)].t BY <1>1, <2>2 DEF StackOK, Top
  <2>6. Exact([stack EXCEPT ![Len(stack)] = f], ts, d) BY <2>4, <2>5, ExactTop
  <2>7. QED BY <2>1, <2>6 DEF AtTop
<1>6. QED BY <1>4, <1>5

(* The request that is under way is one for sections; while nothing        *)
(* changes, all frames are exact.                                          *)
Asking == stack # <<>> => query \in Queries /\ query.fn \in {"cluster", "group"}

ExactWhenSettled == Settled /\ LiteralNames(query.ts) /\ stack # <<>> => Exact(stack, query.ts, Visible)

LEMMA QueryStays ==
  ASSUME Next
  PROVE  \/ asked' = asked /\ query' = query /\ (stack = <<>> => stack' = <<>>)
         \/ stack' = <<>>
         \/ \E q \in Queries : q.fn \in {"cluster", "group"} /\ query' = q /\ stack' = <<Request(q.ts)>>
<1>1. CASE EvalDone BY <1>1 DEF EvalDone, Expanding
<1>2. ASSUME NEW q \in Queries, rangefunc_cluster(q) \/ rangefunc_group(q)
      PROVE  q.fn \in {"cluster", "group"} /\ query' = q /\ stack' = <<Request(q.ts)>>
  BY <1>2 DEF Asks, rangefunc_cluster, rangefunc_group
<1>3. QED
  BY <1>1, <1>2 DEF Next, Actions, Step, Hit, Miss, Load, EvalCall, Expanding, Select,
     libcrange_clear_caches, libcrange_want_caching, Tick, Update, Publish, Changes, request

LEMMA AskingStep == ASSUME Asking, Next PROVE Asking'
  BY QueryStays DEF Asking

LEMMA ExactStep ==
  ASSUME \A d \in Databases : ExpandedRows(d), IInv, Chained, ExactWhenSettled, Next,
         asked' = asked, query' = query, stack # <<>>, Settled', LiteralNames(query.ts)', stack' # <<>>
  PROVE  Exact(stack', query'.ts, Visible')
<1> DEFINE d == Visible
           ts == query.ts
<1>1. /\ Settled /\ Visible' = d /\ d \in Databases
      /\ \A t \in Window(asked, now) : seen'[t] \subseteq {d} /\ t \notin failed'
  BY SettledBefore
<1>2. LiteralNames(ts) /\ LiteralTexts(d) BY <1>1 DEF LiteralNames, LiteralTexts
<1> HIDE DEF d
<1>3. Exact(stack, ts, d) /\ ExpandedRows(d) BY <1>1, <1>2 DEF ExactWhenSettled, d
<1>4. WorldOK /\ StackOK(stack, now) /\ CacheOK BY DEF IInv
<1>5. /\ now \in 0..MaxTime /\ MaxTime \in Nat /\ Expiry \in Nat /\ now \in Nat /\ asked \in 0..now
  BY <1>4, BoundAssumption DEF WorldOK, RestOK
<1> SUFFICES Exact(stack', ts, d) BY <1>1
<1> HIDE DEF ts
<1>6. Grows(seen, seen', failed, failed') BY SeenStep
<1>7. CASE Hit
  <2> DEFINE e == cache[Top.t.c]
  <2>1. Top.pc # "eval" /\ Good(e) /\ Use(e.sections, now) BY <1>7 DEF Hit, Expanding
  <2>2. Top.t.c \in Cluster BY <1>4, <2>1, TopKnown DEF Targets
  <2>3. e.mtime \in 0..now /\ now <= e.mtime + Expiry /\ e.mtime \in Nat
    BY <1>4, <1>5, <2>1, <2>2 DEF Good, WorldOK, RestOK
  <2>4. SectionsOK(Top.t.c, e.sections, e.mtime, now, seen, failed) BY <1>4, <2>1, <2>2 DEF CacheOK, Good
  <2> HIDE DEF e
  <2>5. SectionsOK(Top.t.c, e.sections, e.mtime, now, seen', failed') BY <1>5, <1>6, <2>3, <2>4, FromLater
  <2>6. \A t \in e.mtime..now : t \in Window(asked, now) BY <1>5, <2>3 DEF Window
  <2>7. /\ Keys(d, Top.t.c) \subseteq DOMAIN e.sections
        /\ \A s \in DOMAIN e.sections : s # "KEYS" => e.sections[s] \in Values(d, Top.t.c, s)
    BY <1>1, <2>5, <2>6, SectionsExact
  <2>8. QED BY <1>1, <1>2, <1>3, <2>1, <2>7, ExactUse
<1>8. CASE Miss
  <2> DEFINE f == [Top EXCEPT !.pc = "load", !.at = now, !.until = now]
  <2>1. Top.pc = "lookup" /\ stack' = AtTop(f) BY <1>8 DEF Miss, Expanding
  <2>2. Len(stack) \in 1..Len(stack) /\ FrameOK(Top, now) BY <1>4, TopKnown
  <2>3. f.t = Top.t /\ f.pc = "load" /\ f.todo = Top.todo BY <2>2 DEF FrameOK
  <2> HIDE DEF f
  <2>4. \A x \in f.todo : Literal(x) BY <1>3, <2>2, <2>3 DEF Exact, ExactAt, Top
  <2>5. Exact([stack EXCEPT ![Len(stack)] = f], ts, d) BY <1>3, <1>4, <2>3, <2>4, ExactTop DEF Top, StackOK
  <2>6. QED BY <2>1, <2>5 DEF AtTop
<1>9. CASE Load
  <2>1. Top.pc # "eval" BY <1>9 DEF Load, Expanding
  <2>2. PICK outcome \in Outcome : \E x \in _cluster_keys(Top.t.c, outcome) : Failing(outcome) /\ Use(x, Top.at)
    BY <1>9 DEF Load
  <2>3. PICK sections \in _cluster_keys(Top.t.c, outcome) : Failing(outcome) /\ Use(sections, Top.at) BY <2>2
  <2>4. Top.t \in Targets /\ Top.at \in 0..now /\ Top.at \in Nat /\ Len(stack) > 1 /\ Len(stack) \in 1..Len(stack)
    BY <1>4, <1>5, <2>1, TopKnown DEF FrameOK
  <2>5. Top.t.c \in Cluster BY <2>4 DEF Targets
  <2>6. SectionsOK(Top.t.c, sections, Top.at, now, seen', failed')
    BY <1>5, <1>6, <2>3, <2>4, <2>5, LoadedOK DEF Grows
  <2>7. asked <= Top.at BY <2>4 DEF Chained, Top
  <2>8. \A t \in Top.at..now : t \in Window(asked, now) BY <1>5, <2>4, <2>7 DEF Window
  <2>9. /\ Keys(d, Top.t.c) \subseteq DOMAIN sections
        /\ \A s \in DOMAIN sections : s # "KEYS" => sections[s] \in Values(d, Top.t.c, s)
    BY <1>1, <2>6, <2>8, SectionsExact
  <2>10. QED BY <1>1, <1>2, <1>3, <2>1, <2>3, <2>9, ExactUse
<1>10. CASE EvalCall
  <2>1. Top.pc = "eval" BY <1>10 DEF EvalCall, Expanding
  <2>2. PICK t \in Top.todo : \/ UNCHANGED stack
                              \/ stack' = Append(AtTop([Top EXCEPT !.todo = @ \ {t}]), Expansion(t))
    BY <1>10 DEF EvalCall
  <2>3. Exact(Append([stack EXCEPT ![Len(stack)] = [stack[Len(stack)] EXCEPT !.todo = @ \ {t}]], Expansion(t)), ts, d)
    BY <1>3, <1>4, <1>5, <2>1, <2>2, ExactCall DEF Top
  <2>4. QED BY <1>3, <2>2, <2>3 DEF AtTop, Top
<1>11. CASE EvalDone
  <2>1. Top.pc = "eval" /\ Top.todo = {} /\ Len(stack) # 1 /\ Return(Top.acc)
    BY <1>11 DEF EvalDone, Expanding
  <2>2. Len(stack) \in Nat \ {0} BY <1>4, TopKnown
  <2>3. Len(stack) > 1 /\ Len(stack) \in 1..Len(stack) /\ ~(Len(stack) < Len(stack))
    <3>1. \A n \in Nat \ {0} : n # 1 => n > 1 /\ n \in 1..n /\ ~(n < n) OBVIOUS
    <3>2. Len(stack) # 1 BY <2>1
    <3>3. QED BY <2>2, <3>1, <3>2
  <2>4. Top.acc \union Due(d, {}) = Due(d, {Top.t}) BY <1>3, <2>1, <2>3 DEF Exact, ExactAt, Top
  <2>5. Top.acc = Due(d, {stack[Len(stack)].t}) BY <2>4 DEF Due, Top
  <2>6. QED BY <1>3, <1>4, <1>5, <2>1, <2>3, <2>5, ExactReturn DEF Return
<1>12. ASSUME NEW q \in Queries, rangefunc_cluster(q) \/ rangefunc_group(q) PROVE FALSE
  BY <1>12 DEF Asks, rangefunc_cluster, rangefunc_group
<1>13. CASE UNCHANGED stack BY <1>3, <1>13
<1>14. ASSUME ~(Step \/ \E q \in Queries : rangefunc_cluster(q) \/ rangefunc_group(q)) PROVE UNCHANGED stack
  BY <1>14 DEF Next, Actions, Select, libcrange_clear_caches, libcrange_want_caching, Tick, Update, Publish,
     Changes, request
<1>15. QED BY <1>7, <1>8, <1>9, <1>10, <1>11, <1>12, <1>13, <1>14 DEF Step

LEMMA ExactAsked ==
  ASSUME NEW q \in Queries, q.fn \in {"cluster", "group"}, NEW st, st = <<Request(q.ts)>>, NEW d,
         \A t \in q.ts : Like[t.c] = {t.c} /\ t.s # "KEYS"
  PROVE  Exact(st, q.ts, d)
<1> DEFINE f == Request(q.ts)
<1>1. f.todo = q.ts /\ f.acc = {} /\ q.ts \subseteq Targets BY QueriesAssumption DEF Request
<1>2. Len(st) = 1 /\ st[1] = f OBVIOUS
<1> HIDE DEF f
<1>3. \A x \in q.ts : Literal(x) BY <1>1 DEF Literal
<1>4. ExactAt(st, 1, q.ts, d) BY <1>1, <1>2, <1>3 DEF ExactAt
<1>5. QED BY <1>2, <1>4 DEF Exact

LEMMA ExactAlways ==
  ASSUME \A d \in Databases : ExpandedRows(d), IInv, Chained, Asking, ExactWhenSettled, Next
  PROVE  ExactWhenSettled'
<1> SUFFICES ASSUME Settled', LiteralNames(query.ts)', stack' # <<>> PROVE Exact(stack', query'.ts, Visible')
  BY DEF ExactWhenSettled
<1>1. CASE asked' = asked /\ query' = query /\ stack # <<>> BY <1>1, ExactStep
<1>2. ASSUME NEW q \in Queries, q.fn \in {"cluster", "group"}, query' = q, stack' = <<Request(q.ts)>>
      PROVE  Exact(stack', query'.ts, Visible')
  BY <1>2, ExactAsked DEF LiteralNames
<1>3. QED BY <1>1, <1>2, QueryStays

(* The table, asked by the three functions that read it.                   *)
LEMMA InTableIs ==
  ASSUME NEW n, NEW ts \in SUBSET Targets,
         \A t \in ts : Like[t.c] = {t.c} /\ (t.s = "CLUSTER" => LikeName[t.s] = {t.s})
  PROVE  InTable(n, ts) <=> \E t \in ts : \E m \in LikeName[n] : HasRow(Visible, m, t)
<1>1. ASSUME NEW t \in ts
      PROVE  (CASE t.c = "GROUPS" -> t.s \in Selected(Visible, [fn |-> "get_groups", nodes |-> <<n>>])
                [] t.s = "CLUSTER" -> t.c \in Selected(Visible, [fn |-> "clusters", nodes |-> <<n>>])
                [] OTHER -> t.s \in Selected(Visible, [fn |-> "mem", c |-> t.c, node |-> n]))
             <=> \E m \in LikeName[n] : HasRow(Visible, m, t)
  <2>1. t.c \in Cluster /\ t.s \in Section /\ Like[t.c] = {t.c} /\ (t.s = "CLUSTER" => LikeName[t.s] = {t.s})
    BY DEF Targets
  <2> DEFINE nodes == <<n>>
             d == Visible
             Has == \E m \in LikeName[n] : HasRow(d, m, t)
  <2>2. nodes[1] = n /\ DOMAIN nodes = {1} OBVIOUS
  <2>3. Selected(d, [fn |-> "get_groups", nodes |-> nodes]) = rangefunc_get_groups(d, nodes) BY DEF Selected
  <2>4. Selected(d, [fn |-> "clusters", nodes |-> nodes]) = rangefunc_clusters(d, nodes) BY DEF Selected
  <2>5. Selected(d, [fn |-> "mem", c |-> t.c, node |-> n]) = rangefunc_mem(d, t.c, n) BY DEF Selected
  <2> HIDE DEF nodes, d
  <2>6. rangefunc_get_groups(d, nodes) = GroupsOf(d, n) BY <2>2 DEF rangefunc_get_groups
  <2>7. rangefunc_clusters(d, nodes) = ClustersOf(d, n) BY <2>2 DEF rangefunc_clusters
  <2>8. t.c = "GROUPS" => (t.s \in Selected(d, [fn |-> "get_groups", nodes |-> nodes]) <=> Has)
    <3>1. SUFFICES ASSUME t.c = "GROUPS" PROVE t.s \in GroupsOf(d, n) <=> Has BY <2>3, <2>6
    <3>2. Like["GROUPS"] = {"GROUPS"} BY <2>1, <3>1
    <3>3. t.s \in GroupsOf(d, n) <=> \E m \in LikeName[n] : <<m, t.s, "GROUPS">> \in d.reverse
      BY <2>1, <3>2, Zenon DEF GroupsOf
    <3>4. QED BY <3>1, <3>3 DEF HasRow
  <2>9. t.s = "CLUSTER" => (t.c \in Selected(d, [fn |-> "clusters", nodes |-> nodes]) <=> Has)
    <3>1. SUFFICES ASSUME t.s = "CLUSTER" PROVE t.c \in ClustersOf(d, n) <=> Has BY <2>4, <2>7
    <3>2. LikeName["CLUSTER"] = {"CLUSTER"} BY <2>1, <3>1
    <3>3. t.c \in ClustersOf(d, n) <=> \E m \in LikeName[n] : <<m, "CLUSTER", t.c>> \in d.reverse
      BY <2>1, <3>2, Zenon DEF ClustersOf
    <3>4. QED BY <3>1, <3>3 DEF HasRow
  <2>10. t.s \in Selected(d, [fn |-> "mem", c |-> t.c, node |-> n]) <=> Has
    BY <2>1, <2>5 DEF rangefunc_mem, HasRow
  <2>11. CASE t.c = "GROUPS" /\ t.s = "CLUSTER"
    BY <2>8, <2>9, <2>11 DEF nodes, d
  <2>12. CASE t.c = "GROUPS" /\ t.s # "CLUSTER" BY <2>8, <2>12 DEF nodes, d
  <2>13. CASE t.c # "GROUPS" /\ t.s = "CLUSTER" BY <2>9, <2>13 DEF nodes, d
  <2>14. CASE t.c # "GROUPS" /\ t.s # "CLUSTER" BY <2>10, <2>14 DEF nodes, d
  <2>15. QED BY <2>11, <2>12, <2>13, <2>14
<1>2. QED BY <1>1 DEF InTable

(* When the loader has written the table, and nothing has changed or       *)
(* failed since the time a request's oldest entry can be from, clusters,   *)
(* mem and get_groups say of a name what %cluster and group answer for the *)
(* nodes it is LIKE: through nested texts, hits, misses and entries of     *)
(* different ages.                                                         *)
THEOREM AlwaysAgrees ==
  ASSUME \A d \in Databases : ExpandedRows(d)
  PROVE  Spec => []AgreesWithTables
<1>1. ASSUME IInv, Asking, ExactWhenSettled PROVE AgreesWithTables
  <2> SUFFICES ASSUME Answered, Settled, LiteralNames(query.ts), NEW n \in Name
               PROVE  InTable(n, query.ts) <=> LikeName[n] \intersect Top.acc # {}
    BY DEF AgreesWithTables
  <2> DEFINE d == Visible
             ts == query.ts
  <2>1. stack # <<>> /\ Top.pc = "eval" /\ Len(stack) = 1 /\ Top.todo = {} BY DEF Answered, Expanding
  <2>2. ts \in SUBSET Targets BY <1>1, <2>1, QueriesAssumption DEF Asking
  <2>3. Exact(stack, ts, d) BY <1>1, <2>1 DEF ExactWhenSettled
  <2>4. InTable(n, ts) <=> \E t \in ts : \E m \in LikeName[n] : HasRow(d, m, t)
    <3>1. \A t \in ts : Like[t.c] = {t.c} /\ (t.s = "CLUSTER" => LikeName[t.s] = {t.s}) BY DEF LiteralNames
    <3> HIDE DEF ts
    <3>2. QED BY <2>2, <3>1, InTableIs
  <2> HIDE DEF d, ts
  <2>5. 1 \in 1..Len(stack) /\ ~(1 < Len(stack)) BY <2>1
  <2>6. Top.acc \union Due(d, {}) = Due(d, ts) BY <2>1, <2>3, <2>5 DEF Exact, ExactAt, Top
  <2>7. Top.acc = Due(d, ts) BY <2>6 DEF Due
  <2>8. LikeName[n] \subseteq Name BY LikeAssumption DEF LikeAssumption
  <2>9. QED BY <2>4, <2>7, <2>8 DEF Due, ts
<1>2. Init => Chained /\ Asking /\ ExactWhenSettled
  <2>1. Len(<<>>) = 0 OBVIOUS
  <2>2. QED BY <2>1 DEF Init, Chained, Asking, ExactWhenSettled
<1>3. ASSUME IInv, Chained /\ Asking /\ ExactWhenSettled, [Next]_vars
      PROVE  (Chained /\ Asking /\ ExactWhenSettled)'
  <2>1. CASE Next BY <1>3, <2>1, ChainStep, AskingStep, ExactAlways
  <2>2. CASE UNCHANGED vars
    <3>1. asked' = asked /\ stack' = stack /\ seen' = seen /\ now' = now /\ query' = query /\ failed' = failed
          /\ files' = files /\ connection' = connection
      BY <2>2, Zenon DEF vars, environment, caching, request
    <3>2. Held' = Held /\ Visible' = Visible BY <3>1 DEF Held, Visible, Connected
    <3>3. Chained' BY <1>3, <3>1, <3>2 DEF Chained
    <3>4. Asking' BY <1>3, <3>1 DEF Asking
    <3>5. (Settled' <=> Settled) /\ (LiteralNames(query.ts)' <=> LiteralNames(query.ts))
      BY <3>1, <3>2 DEF Settled, LiteralNames
    <3>6. ExactWhenSettled' BY <1>3, <3>1, <3>2, <3>5 DEF ExactWhenSettled
    <3>7. QED BY <3>3, <3>4, <3>6
  <2>3. QED BY <1>3, <2>1, <2>2
<1>4. QED BY Invariant, <1>1, <1>2, <1>3, PTL DEF Spec

=============================================================================
