------------------------ MODULE ClusterCacheProofs ------------------------
(***************************************************************************)
(* Machine-checked proofs about ClusterCache, for any files, texts, calls   *)
(* and times: the types, that the cache is coherent, that the warning       *)
(* switch is off exactly while a has runs, and that an undisturbed request  *)
(* returns what the files say.                                              *)
(***************************************************************************)
EXTENDS ClusterCache, SequenceTheorems, WellFoundedInduction, TLAPS

(***************************************************************************)
(* Induction, by the least number without the property, and recursion.     *)
(***************************************************************************)

(* A non-empty set of naturals has a least element. *)
LEMMA LeastExists ==
  ASSUME NEW S \in SUBSET Nat, S # {}
  PROVE  \E m \in S : \A n \in S : m <= n
<1> DEFINE R == OpToRel(<, Nat)
<1>1. R = {ss \in Nat \X Nat : ss[1] < ss[2]} BY Zenon DEF OpToRel
<1>2. IsWellFoundedOn(R, Nat) BY NatLessThanWellFounded
<1> HIDE DEF R
<1>3. PICK m \in S : \A n \in S : ~ (<<n, m>> \in R) BY <1>2, WFMin, Zenon
<1>4. ASSUME NEW n \in S PROVE m <= n
  <2>1. n \in Nat /\ m \in Nat OBVIOUS
  <2>2. n < m => <<n, m>> \in R BY <1>1, <2>1
  <2>3. QED BY <1>3, <2>1, <2>2
<1>5. QED BY <1>4

(* A set of naturals that has 0, and the next of each it has, has all. *)
LEMMA Induct ==
  ASSUME NEW S, 0 \in S, \A n \in Nat : n \in S => n + 1 \in S
  PROVE  Nat \subseteq S
<1> DEFINE Out == Nat \ S
<1>1. SUFFICES ASSUME Out # {} PROVE FALSE OBVIOUS
<1>2. Out \in SUBSET Nat OBVIOUS
<1>3. PICK m \in Out : \A n \in Out : m <= n BY <1>1, <1>2, LeastExists
<1>4. m \in Nat /\ m # 0 BY <1>3
<1>5. m - 1 \in Nat /\ ~(m <= m - 1) /\ (m - 1) + 1 = m BY <1>4
<1>6. m - 1 \in S BY <1>3, <1>5
<1>7. m \in S BY <1>5, <1>6
<1>8. QED BY <1>3, <1>7

(* There is a function that each step is taken of the value before. *)
IsRecursive(f, S, base, step) ==
  f \in [Nat -> S] /\ f[0] = base /\ \A n \in Nat : f[n + 1] = step[<<n, f[n]>>]

LEMMA Recursion ==
  ASSUME NEW S, NEW base \in S, NEW step \in [Nat \X S -> S]
  PROVE  \E f : IsRecursive(f, S, base, step)
<1> DEFINE Upto(n, f) == f \in [0..n -> S] /\ f[0] = base /\ \A k \in 0..n - 1 : f[k + 1] = step[<<k, f[k]>>]
           Some == {n \in Nat : \E f : Upto(n, f)}
<1>1. Nat \subseteq Some
  <2>1. 0 \in Some
    <3>1. Upto(0, [k \in 0..0 |-> base]) OBVIOUS
    <3>2. QED BY <3>1
  <2>2. ASSUME NEW n \in Nat, n \in Some PROVE n + 1 \in Some
    <3>1. PICK f : Upto(n, f) BY <2>2
    <3> DEFINE g == [k \in 0..n + 1 |-> IF k = n + 1 THEN step[<<n, f[n]>>] ELSE f[k]]
    <3>2. f[n] \in S BY <3>1
    <3>3. <<n, f[n]>> \in Nat \X S BY <3>2
    <3>4. step[<<n, f[n]>>] \in S BY <3>3
    <3>5. g \in [0..n + 1 -> S] BY <3>1, <3>4
    <3>6. g[0] = base BY <3>1
    <3>7. ASSUME NEW k \in 0..n PROVE g[k + 1] = step[<<k, g[k]>>]
      <4>0. k \in 0..n + 1 /\ k # n + 1 /\ k + 1 \in 0..n + 1 OBVIOUS
      <4>1. CASE k = n
        <5>1. g[k + 1] = step[<<n, f[n]>>] /\ g[k] = f[n] BY <4>0, <4>1
        <5>2. QED BY <4>1, <5>1
      <4>2. CASE k # n
        <5>1. k \in 0..n - 1 /\ k + 1 \in 0..n + 1 /\ k + 1 # n + 1 /\ k \in 0..n + 1 /\ k # n + 1 BY <4>2
        <5>2. QED BY <3>1, <5>1
      <4>3. QED BY <4>1, <4>2
    <3>8. (n + 1) - 1 = n BY <2>2
    <3>9. Upto(n + 1, g) BY <3>5, <3>6, <3>7, <3>8
    <3> HIDE DEF Upto
    <3>10. QED BY <3>9
  <2> HIDE DEF Some
  <2>3. QED BY <2>1, <2>2, Induct
<1>2. ASSUME NEW n \in Nat, NEW m \in Nat, n <= m, NEW f, NEW g, Upto(n, f), Upto(m, g)
      PROVE  \A k \in 0..n : f[k] = g[k]
  <2> DEFINE Same == {k \in Nat : k <= n => f[k] = g[k]}
  <2>1. 0 \in Same BY <1>2
  <2>2. ASSUME NEW k \in Nat, k \in Same PROVE k + 1 \in Same
    <3>1. SUFFICES ASSUME k + 1 <= n PROVE f[k + 1] = g[k + 1] OBVIOUS
    <3>2. k \in 0..n - 1 /\ k \in 0..m - 1 /\ k <= n BY <1>2, <3>1
    <3>3. f[k] = g[k] BY <2>2, <3>2
    <3>4. QED BY <1>2, <3>2, <3>3
  <2>3. Nat \subseteq Same
    <3> HIDE DEF Same
    <3>1. QED BY <2>1, <2>2, Induct
  <2>4. QED BY <2>3
<1> DEFINE F(n) == CHOOSE f : Upto(n, f)
           f == [n \in Nat |-> F(n)[n]]
<1>3. ASSUME NEW n \in Nat PROVE Upto(n, F(n))
  <2>1. \E g : Upto(n, g) BY <1>1
  <2> HIDE DEF Upto
  <2>2. QED BY <2>1
<1>4. ASSUME NEW n \in Nat PROVE f[n] \in S
  <2> HIDE DEF F
  <2>1. F(n) \in [0..n -> S] /\ n \in 0..n BY <1>3
  <2>2. QED BY <2>1
<1>5. f[0] = base
  <2>1. F(0)[0] = base BY <1>3
  <2> HIDE DEF F
  <2>2. QED BY <2>1
<1>6. ASSUME NEW n \in Nat PROVE f[n + 1] = step[<<n, f[n]>>]
  <2>1. n \in 0..(n + 1) - 1 /\ n \in 0..n /\ n <= n + 1 /\ n + 1 \in Nat OBVIOUS
  <2>2. F(n + 1)[n + 1] = step[<<n, F(n + 1)[n]>>] BY <1>3, <2>1
  <2>3. F(n)[n] = F(n + 1)[n]
    <3>1. Upto(n, F(n)) /\ Upto(n + 1, F(n + 1)) BY <1>3, <2>1
    <3> HIDE DEF Upto, F
    <3>2. QED BY <1>2, <2>1, <3>1
  <2> HIDE DEF F
  <2>4. QED BY <2>1, <2>2, <2>3
<1>7. f \in [Nat -> S]
  <2> HIDE DEF F
  <2>1. QED BY <1>4
<1> HIDE DEF f
<1>8. QED BY <1>5, <1>6, <1>7 DEF IsRecursive

(***************************************************************************)
(* The stack.                                                              *)
(***************************************************************************)
IsSeq(st) == \E F : st \in Seq(F)

FrameOK(f) ==
  IF f.fn = "expand"
  THEN /\ DOMAIN f = {"fn", "c", "s", "pc", "st_mtime", "todo", "acc"}
       /\ f.c \in Cluster /\ \A q \in f.todo : CallOK(q)
  ELSE /\ DOMAIN f = {"fn", "call", "todo", "cur", "acc", "listing", "was_enabled"}
       /\ CallOK(f.call) /\ f.fn = f.call.fn /\ (f.listing => Lists(f.call))
       /\ \A t \in f.todo : t.c \in Cluster

(* A frame with another one above it. *)
Waiting(f) == IF f.fn = "expand" THEN f.pc = "eval" ELSE f.cur.c \in Cluster

(* Range functions and expansions alternate. *)
Alternates(st) ==
  \A k \in 1..Len(st) : st[k].fn = "expand" <=> k > 1 /\ st[k - 1].fn # "expand"

StackOK(st) ==
  /\ IsSeq(st)
  /\ \A k \in 1..Len(st) : FrameOK(st[k])
  /\ \A k \in 1..Len(st) - 1 : Waiting(st[k])
  /\ Alternates(st)

LEMMA SetTop ==
  ASSUME NEW st, StackOK(st), st # <<>>, NEW f, FrameOK(f), f.fn = st[Len(st)].fn
  PROVE  LET new == [st EXCEPT ![Len(st)] = f] IN
         /\ StackOK(new) /\ Len(new) = Len(st) /\ Len(st) \in Nat \ {0}
         /\ new # <<>> /\ new[Len(st)] = f
         /\ \A k \in 1..Len(st) - 1 : new[k] = st[k]
<1> DEFINE new == [st EXCEPT ![Len(st)] = f]
<1>1. PICK F : st \in Seq(F) BY DEF StackOK, IsSeq
<1>0. st \in Seq(F \union {f}) /\ Len(st) \in 1..Len(st) /\ Len(st) \in Nat \ {0}
  BY <1>1
<1>2. /\ new \in Seq(F \union {f}) /\ Len(new) = Len(st) /\ Len(st) \in Nat \ {0}
      /\ \A k \in 1..Len(st) : new[k] = IF k = Len(st) THEN f ELSE st[k]
  BY <1>0, ExceptSeq
<1> HIDE DEF new
<1>3. new[Len(st)] = f /\ \A k \in 1..Len(st) - 1 : new[k] = st[k]
  BY <1>2
<1>4. \A k \in 1..Len(st) : new[k].fn = st[k].fn
  BY <1>2
<1>5. \A k \in 1..Len(new) : FrameOK(new[k])
  BY <1>2, <1>3 DEF StackOK
<1>6. \A k \in 1..Len(new) - 1 : Waiting(new[k])
  BY <1>2, <1>3 DEF StackOK
<1>7. Alternates(new)
  BY <1>2, <1>4 DEF StackOK, Alternates
<1>8. StackOK(new) BY <1>2, <1>5, <1>6, <1>7 DEF StackOK, IsSeq
<1>9. new # <<>> BY <1>2
<1>10. QED BY <1>2, <1>3, <1>8, <1>9 DEF new

LEMMA PushFrame ==
  ASSUME NEW st, StackOK(st), st # <<>>, Waiting(st[Len(st)]),
         NEW f, FrameOK(f), f.fn = "expand" <=> st[Len(st)].fn # "expand"
  PROVE  /\ StackOK(Append(st, f))
         /\ Len(Append(st, f)) = Len(st) + 1 /\ Len(st) \in Nat \ {0}
         /\ Append(st, f)[Len(st) + 1] = f
         /\ \A k \in 1..Len(st) : Append(st, f)[k] = st[k]
<1> DEFINE new == Append(st, f)
<1>1. PICK F : st \in Seq(F) BY DEF StackOK, IsSeq
<1>2. /\ new \in Seq(F \union {f}) /\ Len(new) = Len(st) + 1 /\ Len(st) \in Nat \ {0}
      /\ new[Len(st) + 1] = f /\ \A k \in 1..Len(st) : new[k] = st[k]
  BY <1>1
<1> HIDE DEF new
<1>3. \A k \in 1..Len(new) : FrameOK(new[k])
  BY <1>2 DEF StackOK
<1>4. \A k \in 1..Len(new) - 1 : Waiting(new[k])
  BY <1>2 DEF StackOK
<1>5. Alternates(new)
  <2>1. ASSUME NEW k \in 1..Len(new)
        PROVE  new[k].fn = "expand" <=> k > 1 /\ new[k - 1].fn # "expand"
    <3>1. CASE k = Len(st) + 1
      <4>1. new[k] = f /\ new[k - 1] = st[Len(st)] /\ k > 1 BY <1>2, <3>1
      <4>2. QED BY <4>1
    <3>2. CASE k # Len(st) + 1
      <4>1. k \in 1..Len(st) /\ new[k] = st[k] BY <1>2, <3>2
      <4>2. k > 1 => new[k - 1] = st[k - 1] BY <1>2, <4>1
      <4>3. st[k].fn = "expand" <=> k > 1 /\ st[k - 1].fn # "expand"
        BY <4>1 DEF StackOK, Alternates
      <4>4. QED BY <4>1, <4>2, <4>3
    <3>3. QED BY <3>1, <3>2
  <2>2. QED BY <2>1 DEF Alternates
<1>6. StackOK(new) BY <1>2, <1>3, <1>4, <1>5 DEF StackOK, IsSeq
<1>7. QED BY <1>2, <1>6 DEF new

LEMMA PopFrame ==
  ASSUME NEW st, StackOK(st), st # <<>>
  PROVE  /\ StackOK(Front(st)) /\ Len(st) \in Nat \ {0} /\ Len(Front(st)) = Len(st) - 1
         /\ \A k \in 1..Len(st) - 1 : Front(st)[k] = st[k]
         /\ Front(st) # <<>> => /\ Len(st) > 1
                                /\ Waiting(Front(st)[Len(Front(st))])
<1> DEFINE new == Front(st)
<1>1. PICK F : st \in Seq(F) BY DEF StackOK, IsSeq
<1>2. /\ new \in Seq(F) /\ Len(new) = Len(st) - 1 /\ Len(st) \in Nat \ {0}
      /\ \A k \in 1..Len(st) - 1 : new[k] = st[k]
  <2> DEFINE m == Len(st) - 1
  <2>1. m \in Nat /\ Len(st) = m + 1 /\ \A i \in 1..m : st[i] \in F
    BY <1>1
  <2>2. new = SubSeq(st, 1, m) BY DEF Front
  <2> HIDE DEF new, m
  <2>3. /\ new \in Seq(F)
        /\ Len(new) = IF 1 <= m THEN m - 1 + 1 ELSE 0
        /\ \A i \in 1..m - 1 + 1 : new[i] = st[1 + i - 1]
    BY <2>1, <2>2, SubSeqProperties
  <2>4. Len(new) = m BY <2>1, <2>3
  <2>5. ASSUME NEW k \in 1..m PROVE new[k] = st[k]
    <3>1. k \in 1..m - 1 + 1 /\ 1 + k - 1 = k BY <2>1
    <3>2. QED BY <2>3, <3>1
  <2>6. Len(st) \in Nat \ {0} /\ m = Len(st) - 1 BY <2>1 DEF m
  <2>7. QED BY <2>3, <2>4, <2>5, <2>6
<1> HIDE DEF new
<1>3. \A k \in 1..Len(new) : FrameOK(new[k])
  BY <1>2 DEF StackOK
<1>4. \A k \in 1..Len(new) - 1 : Waiting(new[k])
  BY <1>2 DEF StackOK
<1>5. Alternates(new)
  BY <1>2 DEF StackOK, Alternates
<1>6. StackOK(new) BY <1>2, <1>3, <1>4, <1>5 DEF StackOK, IsSeq
<1>7. new # <<>> => Len(st) > 1 /\ Waiting(new[Len(new)])
  BY <1>2 DEF StackOK
<1>8. QED BY <1>2, <1>6, <1>7 DEF new

(***************************************************************************)
(* The parts of the inductive invariant.                                   *)
(***************************************************************************)

(* A version that was never unreadable is readable now if it is the last.  *)
FilesOK ==
  /\ \A c \in Cluster :
       /\ versions[c] \in Seq(Version(c)) /\ versions[c] # <<>>
       /\ dark[c] \subseteq 1..Len(versions[c])
       /\ ~readable[c] => Len(versions[c]) \in dark[c]
  /\ DOMAIN versions = Cluster /\ DOMAIN dark = Cluster
  /\ readable \in [Cluster -> BOOLEAN] /\ changes \in 0..MaxChanges

(* The time mt is that of a version of c not after version n. *)
TimeSeen(c, mt, n) == mt \in Time /\ \E u \in 1..n : versions[c][u].mtime = mt

(* An entry has the sections of the version it was read from, unless that  *)
(* could not be opened, and the time of that version or an earlier one.    *)
EntryOK(c) ==
  cache[c] # NoEntry =>
    /\ cache[c] \in Entry(c)
    /\ TimeSeen(c, cache[c].mtime, cache[c].of)
    /\ cache[c].of \notin dark[c] =>
         cache[c].sections = cluster_keys(versions[c][cache[c].of].body)

CacheOK == DOMAIN cache = Cluster /\ \A c \in Cluster : EntryOK(c)

(* A load under way has stat'ed a version that was there. *)
LoadOK ==
  Expanding("load") => TimeSeen(Top.c, Top.st_mtime, Len(versions[Top.c]))

(* A has remembers whether another has below it had warnings off already.  *)
Remembered(st) ==
  \A k \in 1..Len(st) : st[k].fn = "has" =>
    (st[k].was_enabled <=> \A l \in 1..k - 1 : st[l].fn # "has")

NoHas(st, n) == \A k \in 1..n : st[k].fn # "has"

SwitchOK(st, on) == (on <=> NoHas(st, Len(st))) /\ Remembered(st)

FlagsOK == {registered, want_caching, warn_enabled, steady} \subseteq BOOLEAN

IInv == /\ FilesOK /\ CacheOK /\ FlagsOK
        /\ StackOK(stack) /\ LoadOK /\ SwitchOK(stack, warn_enabled)

(***************************************************************************)
(* What the invariant gives.                                               *)
(***************************************************************************)
LEMMA StackDomain ==
  ASSUME StackOK(stack)
  PROVE  DOMAIN stack = 1..Len(stack) /\ Len(stack) \in Nat /\ (stack # <<>> => Len(stack) > 0)
BY DEF StackOK, IsSeq

LEMMA InvariantImplies ==
  ASSUME IInv
  PROVE  TypeOK /\ CacheCoherent /\ WarnSwitch
<1>1. TypeOK
  <2>1. \A c \in Cluster : cache[c] \in Entry(c) \union {NoEntry}
    BY DEF IInv, CacheOK, EntryOK
  <2>2. \A k \in DOMAIN stack :
          /\ stack[k].fn = "expand" <=> k > 1 /\ stack[k - 1].fn # "expand"
          /\ k < Len(stack) /\ stack[k].fn = "expand" => stack[k].pc = "eval"
    BY StackDomain DEF IInv, StackOK, Alternates, Waiting
  <2>3. QED BY <2>1, <2>2 DEF IInv, FilesOK, FlagsOK, TypeOK
<1>2. CacheCoherent
  <2> SUFFICES ASSUME NEW c \in Cluster, Exists(c), Hit(c), Distinguished(c)
               PROVE  cache[c].sections = Sections(c)
    BY DEF CacheCoherent
  <2> DEFINE n == Len(versions[c])
  <2>1. n \in Nat \ {0} /\ readable[c]
    BY DEF IInv, FilesOK, Distinguished
  <2>2. cache[c].of \in 1..n /\ TimeSeen(c, cache[c].mtime, cache[c].of)
        /\ (cache[c].of \notin dark[c] =>
             cache[c].sections = cluster_keys(versions[c][cache[c].of].body))
    BY DEF IInv, CacheOK, EntryOK, Hit, Entry
  <2>3. PICK u \in 1..cache[c].of : versions[c][u].mtime = versions[c][n].mtime
    BY <2>2 DEF TimeSeen, Hit, Current
  <2>4. u = n
    BY <2>1, <2>2, <2>3 DEF Distinguished
  <2>5. cache[c].of = n
    BY <2>1, <2>2, <2>4
  <2>6. cache[c].sections = cluster_keys(versions[c][n].body)
    BY <2>2, <2>5 DEF Distinguished
  <2>7. QED BY <2>1, <2>6 DEF Sections, Current
<1>3. WarnSwitch
  BY StackDomain DEF IInv, SwitchOK, NoHas, WarnSwitch
<1>4. QED BY <1>1, <1>2, <1>3

(***************************************************************************)
(* What the invariant needs of texts and frames.                           *)
(***************************************************************************)
SectionsOK(sections) ==
  \A s \in DOMAIN sections :
    sections[s] # BadText => \A q \in sections[s].calls : CallOK(q)

LEMMA EmptyIsOK == SectionsOK(<<>>)
BY DEF SectionsOK

LEMMA KeysAreOK ==
  ASSUME NEW c \in Cluster, NEW v \in Version(c)
  PROVE  SectionsOK(cluster_keys(v.body))
<1>1. CASE v.body \in {Gone, Malformed}
  BY <1>1, EmptyIsOK DEF cluster_keys
<1>2. CASE v.body \notin {Gone, Malformed}
  <2>1. BodyOK(v.body)
    BY <1>2, CallsAssumption DEF CallsAssumption, Version
  <2>2. \A s \in DOMAIN v.body :
          v.body[s] # BadText => \A q \in v.body[s].calls : CallOK(q)
    BY <1>2, <2>1 DEF BodyOK
  <2> DEFINE all == [s \in DOMAIN v.body \union {"KEYS"} |->
                       IF s = "KEYS" THEN [names |-> DOMAIN v.body, calls |-> {}] ELSE v.body[s]]
  <2>3. cluster_keys(v.body) = v.body \/ cluster_keys(v.body) = all
    BY <1>2 DEF cluster_keys
  <2>4. SectionsOK(v.body) BY <2>2 DEF SectionsOK
  <2>5. SectionsOK(all)
    <3>1. SUFFICES ASSUME NEW s \in DOMAIN v.body \union {"KEYS"}, all[s] # BadText,
                          NEW q \in all[s].calls
                   PROVE  CallOK(q)
      BY DEF SectionsOK
    <3>2. CASE s = "KEYS" BY <3>1, <3>2
    <3>3. CASE s # "KEYS" BY <2>2, <3>1, <3>3
    <3>4. QED BY <3>2, <3>3
  <2>6. QED BY <2>3, <2>4, <2>5, Zenon
<1>3. QED BY <1>1, <1>2

LEMMA CachedAreOK ==
  ASSUME CacheOK, NEW c \in Cluster, cache[c] # NoEntry
  PROVE  SectionsOK(cache[c].sections)
<1>1. cache[c].sections \in {<<>>} \union {cluster_keys(v.body) : v \in Version(c)}
  BY DEF CacheOK, EntryOK, Entry
<1>2. QED BY <1>1, EmptyIsOK, KeysAreOK

LEMMA CurrentIsVersion ==
  ASSUME FilesOK, NEW c \in Cluster
  PROVE  /\ Len(versions[c]) \in Nat \ {0} /\ Current(c) \in Version(c)
         /\ Current(c) = versions[c][Len(versions[c])]
         /\ Exists(c) => Current(c).mtime \in Time
<1>1. versions[c] \in Seq(Version(c)) /\ Len(versions[c]) \in Nat \ {0} BY DEF FilesOK
<1>2. Current(c) \in Version(c) /\ Current(c) = versions[c][Len(versions[c])]
  BY <1>1 DEF Current
<1>3. Exists(c) => Current(c).mtime \in Time
  BY <1>2 DEF Exists, Version
<1>4. QED BY <1>1, <1>2, <1>3

LEMMA SectionsAreOK ==
  ASSUME FilesOK, NEW c \in Cluster
  PROVE  SectionsOK(Sections(c))
BY CurrentIsVersion, KeysAreOK, EmptyIsOK DEF Sections

(* A waiting frame takes the answer of the one above it and stays what it  *)
(* is.                                                                     *)
LEMMA CollectFrame ==
  ASSUME NEW f, FrameOK(f), Waiting(f), NEW v
  PROVE  /\ FrameOK(Collect(f, v)) /\ Collect(f, v).fn = f.fn
         /\ f.fn = "expand" => Collect(f, v).pc = "eval"
         /\ f.fn = "has" => Collect(f, v).was_enabled = f.was_enabled
<1> DEFINE ks == {Target(f.cur.c, k) : k \in v}
<1>1. CASE f.fn # "expand" /\ f.listing
  <2>1. Collect(f, v) = [f EXCEPT !.listing = FALSE, !.todo = ks] BY <1>1 DEF Collect
  <2>2. \A t \in ks : t.c \in Cluster BY <1>1 DEF Waiting, Target
  <2> HIDE DEF ks
  <2>3. QED BY <1>1, <2>1, <2>2 DEF FrameOK
<1>2. CASE ~(f.fn # "expand" /\ f.listing)
  <2>1. \E x : Collect(f, v) = [f EXCEPT !.acc = x] BY <1>2 DEF Collect
  <2>2. PICK x : Collect(f, v) = [f EXCEPT !.acc = x] BY <2>1
  <2>3. CASE f.fn = "expand" BY <2>2, <2>3 DEF FrameOK, Waiting
  <2>4. CASE f.fn # "expand" BY <2>2, <2>4 DEF FrameOK
  <2>5. QED BY <2>3, <2>4
<1>3. QED BY <1>1, <1>2

LEMMA CallTargets ==
  ASSUME NEW q, CallOK(q)
  PROVE  q.fn # "expand" /\ \A t \in Targets(q) : t.c \in Cluster
<1>1. q.fn \in Functions /\ q.fn # "expand" BY DEF CallOK, Functions
<1>2. \A t \in Targets(q) : t.c \in Cluster
  BY <1>1 DEF CallOK, Functions, Targets, Target, AllTargets, all_clusters
<1>3. QED BY <1>1, <1>2

(***************************************************************************)
(* The moves of the stack.                                                 *)
(***************************************************************************)

(* A stack that agrees with a longer one on which functions run. *)
Agree(new, st) ==
  /\ Len(st) \in Nat /\ Len(new) \in Nat /\ Len(new) <= Len(st)
  /\ \A k \in 1..Len(new) : /\ new[k].fn = st[k].fn
                            /\ new[k].fn = "has" => new[k].was_enabled = st[k].was_enabled

LEMMA SwitchPrefix ==
  ASSUME NEW st, NEW new, Remembered(st), Agree(new, st)
  PROVE  Remembered(new) /\ (NoHas(new, Len(new)) <=> NoHas(st, Len(new)))
<1>0. /\ Len(st) \in Nat /\ Len(new) \in Nat /\ Len(new) <= Len(st)
      /\ \A k \in 1..Len(new) : /\ new[k].fn = st[k].fn
                                /\ new[k].fn = "has" => new[k].was_enabled = st[k].was_enabled
  BY DEF Agree
<1>1. NoHas(new, Len(new)) <=> NoHas(st, Len(new)) BY <1>0 DEF NoHas
<1>2. ASSUME NEW k \in 1..Len(new), new[k].fn = "has"
      PROVE  new[k].was_enabled <=> \A l \in 1..k - 1 : new[l].fn # "has"
  <2>1. k \in 1..Len(st) /\ st[k].fn = "has" /\ new[k].was_enabled = st[k].was_enabled
    BY <1>0, <1>2
  <2>2. st[k].was_enabled <=> \A l \in 1..k - 1 : st[l].fn # "has"
    BY <2>1 DEF Remembered
  <2>3. (\A l \in 1..k - 1 : new[l].fn # "has") <=> (\A l \in 1..k - 1 : st[l].fn # "has")
    BY <1>0, <1>2
  <2>4. QED BY <2>1, <2>2, <2>3, Zenon
<1>3. QED BY <1>1, <1>2 DEF Remembered

(* The top frame replaced by one of the same function. *)
LEMMA TopMove ==
  ASSUME StackOK(stack), stack # <<>>, NEW f, FrameOK(f), f.fn = Top.fn, f.fn # "has",
         SwitchOK(stack, warn_enabled)
  PROVE  /\ StackOK(AtTop(f)) /\ SwitchOK(AtTop(f), warn_enabled)
         /\ AtTop(f) # <<>> /\ Len(AtTop(f)) = Len(stack) /\ AtTop(f)[Len(stack)] = f
<1> DEFINE new == AtTop(f)
<1>1. /\ StackOK(new) /\ Len(new) = Len(stack) /\ Len(stack) \in Nat \ {0}
      /\ new # <<>> /\ new[Len(stack)] = f
      /\ \A k \in 1..Len(stack) - 1 : new[k] = stack[k]
  BY SetTop DEF AtTop, Top
<1> HIDE DEF new
<1>2. \A k \in 1..Len(new) : /\ new[k].fn = stack[k].fn
                             /\ new[k].fn = "has" => new[k].was_enabled = stack[k].was_enabled
  <2>1. ASSUME NEW k \in 1..Len(new), k # Len(stack) PROVE new[k] = stack[k]
    BY <1>1, <2>1
  <2>2. QED BY <1>1, <2>1 DEF Top
<1>3. SwitchOK(new, warn_enabled)
  <2>1. Agree(new, stack) BY <1>1, <1>2 DEF Agree
  <2>2. Remembered(new) /\ (NoHas(new, Len(new)) <=> NoHas(stack, Len(new)))
    BY <2>1, SwitchPrefix DEF SwitchOK
  <2>3. QED BY <1>1, <2>2 DEF SwitchOK
<1>4. QED BY <1>1, <1>3 DEF new

(* The top call returns. *)
LEMMA ReturnMove ==
  ASSUME StackOK(stack), stack # <<>>, Remembered(stack), NEW v, Return(v), NEW on,
         on <=> NoHas(stack, Len(stack) - 1)
  PROVE  StackOK(stack') /\ SwitchOK(stack', on) /\ ~Expanding("load")'
<1> DEFINE below == Front(stack)
<1>1. /\ StackOK(below) /\ Len(stack) \in Nat \ {0} /\ Len(below) = Len(stack) - 1
      /\ \A k \in 1..Len(stack) - 1 : below[k] = stack[k]
      /\ below # <<>> => Len(stack) > 1 /\ Waiting(below[Len(below)])
  BY PopFrame
<1>2. CASE below = <<>>
  <2>1. stack' = <<>> /\ Len(stack) = 1 BY <1>1, <1>2 DEF Return
  <2>2. Len(<<>>) = 0 /\ <<>> \in Seq({}) OBVIOUS
  <2>3. StackOK(<<>>) BY <2>2 DEF StackOK, IsSeq, Alternates
  <2>4. on BY <2>1 DEF NoHas
  <2>5. SwitchOK(<<>>, on) BY <2>2, <2>4 DEF SwitchOK, Remembered, NoHas
  <2>6. QED BY <2>1, <2>3, <2>5 DEF Expanding
<1>3. CASE below # <<>>
  <2> DEFINE n == Len(below)  f == Collect(below[n], v)
  <2>1. stack' = [below EXCEPT ![n] = f]
    BY <1>3 DEF Return
  <2>2. FrameOK(below[n]) /\ n \in Nat \ {0} /\ Waiting(below[n])
    BY <1>1, <1>3 DEF StackOK
  <2>3. /\ FrameOK(f) /\ f.fn = below[n].fn /\ (f.fn = "expand" => f.pc = "eval")
        /\ f.fn = "has" => f.was_enabled = below[n].was_enabled
    BY <2>2, CollectFrame
  <2> HIDE DEF f, below, n
  <2>4. /\ StackOK(stack') /\ Len(stack') = n /\ stack'[n] = f /\ stack' # <<>>
        /\ \A k \in 1..n - 1 : stack'[k] = below[k]
    <3>1. StackOK(below) /\ below # <<>> /\ FrameOK(f) /\ f.fn = below[Len(below)].fn
      BY <1>1, <1>3, <2>3 DEF n
    <3>2. LET new == [below EXCEPT ![Len(below)] = f] IN
          /\ StackOK(new) /\ Len(new) = Len(below) /\ Len(below) \in Nat \ {0}
          /\ new # <<>> /\ new[Len(below)] = f
          /\ \A k \in 1..Len(below) - 1 : new[k] = below[k]
      BY <3>1, SetTop, Zenon
    <3>3. QED BY <2>1, <3>2 DEF n
  <2>5. \A k \in 1..n : stack'[k].fn = stack[k].fn
                        /\ (stack'[k].fn = "has" => stack'[k].was_enabled = stack[k].was_enabled)
    <3>1. n = Len(stack) - 1 /\ \A k \in 1..n : below[k] = stack[k] BY <1>1 DEF n
    <3>2. ASSUME NEW k \in 1..n, k # n PROVE stack'[k] = stack[k]
      BY <2>2, <2>4, <3>1, <3>2
    <3>3. QED BY <2>2, <2>3, <2>4, <3>1, <3>2
  <2>6. SwitchOK(stack', on)
    <3>1. n = Len(stack) - 1 /\ Len(stack) \in Nat BY <1>1 DEF n
    <3>2. Agree(stack', stack)
      BY <2>2, <2>4, <2>5, <3>1 DEF Agree
    <3>3. Remembered(stack') /\ (NoHas(stack', Len(stack')) <=> NoHas(stack, Len(stack')))
      BY <3>2, SwitchPrefix
    <3>4. Len(stack') = Len(stack) - 1 BY <2>4, <3>1
    <3>5. QED BY <3>3, <3>4 DEF SwitchOK
  <2>7. ~Expanding("load")' BY <2>3, <2>4 DEF Expanding, Top
  <2>8. QED BY <2>4, <2>6, <2>7
<1>4. QED BY <1>2, <1>3

(* A call, or an expansion, is put on top of a waiting frame. *)
LEMMA PushMove ==
  ASSUME NEW st, StackOK(st), st # <<>>, Waiting(st[Len(st)]), NEW f, FrameOK(f),
         f.fn = "expand" <=> st[Len(st)].fn # "expand",
         NEW on, SwitchOK(st, on), f.fn = "has" => f.was_enabled = on
  PROVE  /\ StackOK(Append(st, f)) /\ SwitchOK(Append(st, f), on /\ f.fn # "has")
         /\ Append(st, f)[Len(Append(st, f))] = f /\ Append(st, f) # <<>>
<1> DEFINE new == Append(st, f)
<1>1. /\ StackOK(new) /\ Len(new) = Len(st) + 1 /\ Len(st) \in Nat \ {0}
      /\ new[Len(st) + 1] = f /\ \A k \in 1..Len(st) : new[k] = st[k]
  BY PushFrame
<1> HIDE DEF new
<1>2. on <=> NoHas(new, Len(st)) BY <1>1 DEF SwitchOK, NoHas
<1>3. (on /\ f.fn # "has") <=> NoHas(new, Len(new))
  BY <1>1, <1>2 DEF NoHas
<1>4. ASSUME NEW k \in 1..Len(new), new[k].fn = "has"
      PROVE  new[k].was_enabled <=> \A l \in 1..k - 1 : new[l].fn # "has"
  <2>1. CASE k = Len(st) + 1
    <3>1. new[k].was_enabled = on BY <1>1, <1>4, <2>1
    <3>2. k - 1 = Len(st) BY <1>1, <2>1
    <3>3. on <=> \A l \in 1..k - 1 : new[l].fn # "has" BY <1>2, <3>2, Zenon DEF NoHas
    <3>4. QED BY <3>1, <3>3, Zenon
  <2>2. CASE k # Len(st) + 1
    <3>1. k \in 1..Len(st) /\ new[k] = st[k] BY <1>1, <1>4, <2>2
    <3>2. (\A l \in 1..k - 1 : new[l].fn # "has") <=> (\A l \in 1..k - 1 : st[l].fn # "has")
      BY <1>1, <3>1
    <3>3. st[k].was_enabled <=> \A l \in 1..k - 1 : st[l].fn # "has"
      BY <1>4, <3>1 DEF SwitchOK, Remembered
    <3>4. QED BY <3>1, <3>2, <3>3, Zenon
  <2>3. QED BY <2>1, <2>2
<1>5. SwitchOK(new, on /\ f.fn # "has") BY <1>3, <1>4 DEF SwitchOK, Remembered
<1>6. new[Len(new)] = f /\ new # <<>> BY <1>1
<1>7. QED BY <1>1, <1>5, <1>6 DEF new

(* What a step may do to the stack and the switch. *)
StackMoves == StackOK(stack') /\ SwitchOK(stack', warn_enabled')

LEMMA TopFrame ==
  ASSUME StackOK(stack), stack # <<>>
  PROVE  /\ FrameOK(Top) /\ Top = stack[Len(stack)] /\ Len(stack) \in Nat \ {0}
         /\ Top.fn = "expand" => Top.c \in Cluster
<1>1. Top = stack[Len(stack)] /\ Len(stack) \in Nat \ {0}
  BY StackDomain DEF Top
<1>2. FrameOK(Top) BY <1>1 DEF StackOK
<1>3. Top.fn = "expand" => Top.c \in Cluster BY <1>2 DEF FrameOK
<1>4. QED BY <1>1, <1>2, <1>3

(* When another call than a has returns, the switch stays as it is. *)
LEMMA NotHasAbove ==
  ASSUME StackOK(stack), stack # <<>>, SwitchOK(stack, warn_enabled), Top.fn # "has"
  PROVE  warn_enabled <=> NoHas(stack, Len(stack) - 1)
<1>1. Top = stack[Len(stack)] /\ Len(stack) \in Nat \ {0} BY TopFrame
<1>2. NoHas(stack, Len(stack)) <=> NoHas(stack, Len(stack) - 1)
  BY <1>1 DEF NoHas
<1>3. QED BY <1>2 DEF SwitchOK

LEMMA ReturnKeeps ==
  ASSUME StackOK(stack), stack # <<>>, SwitchOK(stack, warn_enabled), Top.fn # "has",
         NEW v, Return(v), warn_enabled' = warn_enabled
  PROVE  StackMoves /\ ~Expanding("load")'
<1>1. warn_enabled <=> NoHas(stack, Len(stack) - 1) BY NotHasAbove
<1>2. Remembered(stack) BY DEF SwitchOK
<1>3. StackOK(stack') /\ SwitchOK(stack', warn_enabled) /\ ~Expanding("load")'
  BY <1>1, <1>2, ReturnMove
<1>4. QED BY <1>3 DEF StackMoves

LEMMA LookupKeeps ==
  ASSUME StackOK(stack), stack # <<>>, SwitchOK(stack, warn_enabled), Top.fn = "expand",
         NEW sections, SectionsOK(sections), NEW kinds, Lookup(sections, kinds),
         warn_enabled' = warn_enabled
  PROVE  StackMoves /\ ~Expanding("load")'
<1>1. CASE Return({})
  BY <1>1, ReturnKeeps
<1>2. CASE ~Return({})
  <2> DEFINE text == IF Top.s \in DOMAIN sections THEN sections[Top.s]
                     ELSE [names |-> {}, calls |-> {}]
             f == [Top EXCEPT !.pc = "eval", !.todo = text.calls, !.acc = text.names]
  <2>1. text # BadText /\ stack' = AtTop(f) BY <1>2 DEF Lookup
  <2>2. \A q \in text.calls : CallOK(q)
    <3>1. CASE Top.s \in DOMAIN sections BY <2>1, <3>1 DEF SectionsOK
    <3>2. CASE Top.s \notin DOMAIN sections BY <3>2
    <3>3. QED BY <3>1, <3>2
  <2> HIDE DEF text
  <2>3. FrameOK(Top) BY TopFrame
  <2>4. FrameOK(f) /\ f.fn = "expand" /\ f.pc = "eval"
    BY <2>2, <2>3 DEF FrameOK
  <2> HIDE DEF f
  <2>5. /\ StackOK(AtTop(f)) /\ SwitchOK(AtTop(f), warn_enabled)
        /\ AtTop(f) # <<>> /\ Len(AtTop(f)) = Len(stack) /\ AtTop(f)[Len(stack)] = f
    BY <2>4, TopMove
  <2>6. StackMoves BY <2>1, <2>5 DEF StackMoves
  <2>7. ~Expanding("load")' BY <2>1, <2>4, <2>5 DEF Expanding, Top
  <2>8. QED BY <2>6, <2>7
<1>3. QED BY <1>1, <1>2

(* A call is entered from a waiting frame, or by a new request.            *)
LEMMA EnterKeeps ==
  ASSUME NEW st, NEW on, NEW q, CallOK(q), Enter(q, st, on),
         \/ st = <<>> /\ on
         \/ /\ StackOK(st) /\ st # <<>> /\ Waiting(st[Len(st)]) /\ SwitchOK(st, on)
            /\ st[Len(st)].fn = "expand"
  PROVE  StackMoves /\ ~Expanding("load")'
<1> DEFINE f == [fn |-> q.fn, call |-> q, todo |-> Targets(q), cur |-> Target("none", "none"),
                 listing |-> Lists(q), acc |-> IF q.fn = "allclusters" THEN all_clusters ELSE {},
                 was_enabled |-> on]
<1>1. stack' = Append(st, f) /\ warn_enabled' = (on /\ q.fn # "has") BY DEF Enter
<1>2. q.fn # "expand" /\ \A t \in Targets(q) : t.c \in Cluster BY CallTargets
<1>3. FrameOK(f) /\ f.fn = q.fn /\ f.was_enabled = on BY <1>2 DEF FrameOK
<1> HIDE DEF f
<1>4. CASE st = <<>> /\ on
  <2>1. stack' = <<f>> /\ Len(<<f>>) = 1 /\ <<f>> \in Seq({f}) /\ <<f>>[1] = f
    BY <1>1, <1>4
  <2>2. StackOK(<<f>>)
    <3>1. IsSeq(<<f>>) BY <2>1, Zenon DEF IsSeq
    <3>2. \A k \in 1..Len(<<f>>) : k = 1 /\ <<f>>[k] = f BY <2>1
    <3>3. 1..Len(<<f>>) - 1 = {} BY <2>1
    <3>4. Alternates(<<f>>) BY <1>2, <1>3, <3>2 DEF Alternates
    <3>5. QED BY <1>3, <3>1, <3>2, <3>3, <3>4 DEF StackOK
  <2>3. (on /\ q.fn # "has") <=> NoHas(<<f>>, 1) BY <1>3, <1>4, <2>1 DEF NoHas
  <2>4. Remembered(<<f>>)
    <3>1. SUFFICES ASSUME NEW k \in 1..1, <<f>>[k].fn = "has"
                   PROVE  <<f>>[k].was_enabled <=> \A l \in 1..k - 1 : <<f>>[l].fn # "has"
      BY <2>1 DEF Remembered
    <3>2. k = 1 /\ \A l \in 1..k - 1 : <<f>>[l].fn # "has" BY <3>1
    <3>3. <<f>>[k].was_enabled = on BY <1>3, <2>1, <3>2
    <3>4. QED BY <1>4, <3>2, <3>3, Zenon
  <2>5. StackMoves BY <1>1, <2>1, <2>2, <2>3, <2>4 DEF StackMoves, SwitchOK
  <2>6. ~Expanding("load")' BY <1>2, <1>3, <2>1 DEF Expanding, Top
  <2>7. QED BY <2>5, <2>6
<1>5. CASE ~(st = <<>> /\ on)
  <2>1. /\ StackOK(st) /\ st # <<>> /\ Waiting(st[Len(st)]) /\ SwitchOK(st, on)
        /\ st[Len(st)].fn = "expand"
    BY <1>5
  <2>2. f.fn = "expand" <=> st[Len(st)].fn # "expand" BY <1>2, <1>3, <2>1
  <2>3. /\ StackOK(Append(st, f)) /\ SwitchOK(Append(st, f), on /\ f.fn # "has")
        /\ Append(st, f)[Len(Append(st, f))] = f /\ Append(st, f) # <<>>
    BY <1>3, <2>1, <2>2, PushMove
  <2>4. StackMoves BY <1>1, <1>3, <2>3 DEF StackMoves
  <2>5. ~Expanding("load")' BY <1>1, <1>2, <1>3, <2>3 DEF Expanding, Top
  <2>6. QED BY <2>4, <2>5
<1>6. QED BY <1>4, <1>5

(***************************************************************************)
(* The cache and the files.                                                *)
(***************************************************************************)
LEMMA CacheKept ==
  ASSUME CacheOK, UNCHANGED <<versions, dark, cache>>
  PROVE  CacheOK'
BY DEF CacheOK, EntryOK, TimeSeen, Entry

LEMMA FilesKept ==
  ASSUME FilesOK, UNCHANGED files
  PROVE  FilesOK'
BY DEF FilesOK, files

LEMMA NewVersionKeeps ==
  ASSUME FilesOK, CacheOK, LoadOK, StackOK(stack), NEW c \in Cluster, NEW body, NEW mtime,
         [mtime |-> mtime, body |-> body] \in Version(c), NewVersion(c, body, mtime),
         dark' = dark \/ dark' = [dark EXCEPT ![c] = @ \union {Len(versions[c]) + 1}],
         readable' \in [Cluster -> BOOLEAN],
         \A d \in Cluster \ {c} : readable'[d] = readable[d],
         ~readable'[c] => Len(versions[c]) + 1 \in dark'[c]
  PROVE  FilesOK' /\ CacheOK' /\ LoadOK'
<1> DEFINE v == [mtime |-> mtime, body |-> body]
<1> HIDE DEF v
<1>1. v \in Version(c) /\ versions' = [versions EXCEPT ![c] = Append(@, v)]
  BY DEF NewVersion, v
<1>2. DOMAIN versions = Cluster /\ DOMAIN dark = Cluster BY DEF FilesOK
<1>3. \A d \in Cluster : versions[d] \in Seq(Version(d)) /\ Len(versions[d]) \in Nat \ {0}
  BY DEF FilesOK
<1>4. /\ versions'[c] = Append(versions[c], v)
      /\ \A d \in Cluster \ {c} : versions'[d] = versions[d] /\ dark'[d] = dark[d]
      /\ DOMAIN versions' = Cluster /\ DOMAIN dark' = Cluster
  BY <1>1, <1>2
<1>5. /\ versions'[c] \in Seq(Version(c)) /\ Len(versions'[c]) = Len(versions[c]) + 1
      /\ versions'[c] # <<>>
  BY <1>1, <1>3, <1>4
<1>6. dark[c] \subseteq dark'[c] /\ dark'[c] \subseteq dark[c] \union {Len(versions[c]) + 1}
  BY <1>2
<1>7. changes' \in 0..MaxChanges
  BY BoundAssumption DEF FilesOK, NewVersion, Change, BoundAssumption
<1>8. FilesOK'
  <2>1. ASSUME NEW d \in Cluster
        PROVE  /\ versions'[d] \in Seq(Version(d)) /\ versions'[d] # <<>>
               /\ dark'[d] \subseteq 1..Len(versions'[d])
               /\ ~readable'[d] => Len(versions'[d]) \in dark'[d]
    <3>1. CASE d = c
      <4>1. dark[c] \subseteq 1..Len(versions[c]) BY DEF FilesOK
      <4>2. dark'[c] \subseteq 1..Len(versions'[c]) BY <1>3, <1>5, <1>6, <4>1
      <4>3. QED BY <1>5, <3>1, <4>2
    <3>2. CASE d # c BY <1>4, <3>2 DEF FilesOK
    <3>3. QED BY <3>1, <3>2
  <2>2. QED BY <1>4, <1>7, <2>1 DEF FilesOK
<1>9. CacheOK'
  <2>1. cache' = cache BY DEF NewVersion, caching
  <2>2. ASSUME NEW d \in Cluster, cache[d] # NoEntry
        PROVE  /\ cache[d] \in Entry(d)'
               /\ TimeSeen(d, cache[d].mtime, cache[d].of)'
               /\ cache[d].of \notin dark'[d] =>
                    cache[d].sections = cluster_keys(versions'[d][cache[d].of].body)
    <3>1. /\ cache[d] \in Entry(d) /\ TimeSeen(d, cache[d].mtime, cache[d].of)
          /\ cache[d].of \notin dark[d] =>
               cache[d].sections = cluster_keys(versions[d][cache[d].of].body)
      BY <2>2 DEF CacheOK, EntryOK
    <3>2. cache[d].of \in 1..Len(versions[d]) BY <3>1 DEF Entry
    <3>3. /\ cache[d].mtime \in Time
          /\ \E u \in 1..cache[d].of : versions'[d][u].mtime = cache[d].mtime
          /\ cache[d].of \in 1..Len(versions'[d])
          /\ versions'[d][cache[d].of] = versions[d][cache[d].of]
      <4>1. \A u \in 1..Len(versions[d]) : /\ versions'[d][u] = versions[d][u]
                                          /\ u \in 1..Len(versions'[d])
        BY <1>1, <1>2, <1>3, <1>4
      <4>2. PICK u \in 1..cache[d].of : versions[d][u].mtime = cache[d].mtime
        BY <3>1 DEF TimeSeen
      <4>3. u \in 1..Len(versions[d]) BY <1>3, <3>2
      <4>4. cache[d].mtime \in Time BY <3>1 DEF TimeSeen
      <4>5. QED BY <3>2, <4>1, <4>2, <4>3, <4>4
    <3>4. dark[d] \subseteq dark'[d] BY <1>4, <1>6
    <3>5. cache[d] \in Entry(d)' BY <3>1, <3>3 DEF Entry
    <3>6. TimeSeen(d, cache[d].mtime, cache[d].of)' BY <2>1, <3>3 DEF TimeSeen
    <3>7. QED BY <3>1, <3>3, <3>4, <3>5, <3>6
  <2>3. QED BY <2>1, <2>2 DEF CacheOK, EntryOK
<1>10. LoadOK'
  <2>1. SUFFICES ASSUME Expanding("load")' PROVE TimeSeen(Top.c, Top.st_mtime, Len(versions[Top.c]))'
    BY DEF LoadOK
  <2>2. stack' = stack BY DEF NewVersion
  <2>3. Expanding("load") /\ Top' = Top BY <2>1, <2>2 DEF Expanding, Top
  <2> DEFINE d == Top.c
  <2>4. d \in Cluster BY <2>3, TopFrame DEF Expanding
  <2>5. TimeSeen(d, Top.st_mtime, Len(versions[d])) BY <2>3 DEF LoadOK
  <2>6. PICK u \in 1..Len(versions[d]) : versions[d][u].mtime = Top.st_mtime /\ Top.st_mtime \in Time
    BY <2>5 DEF TimeSeen
  <2>7. Len(versions[d]) \in 1..Len(versions[d]) BY <1>3, <2>4
  <2>8. versions'[d][u] = versions[d][u] /\ u \in 1..Len(versions'[d])
    <3> HIDE DEF d
    <3>1. CASE d = c
      <4>1. \A k \in 1..Len(versions[c]) : versions'[c][k] = versions[c][k] /\ k \in 1..Len(versions'[c])
        BY <1>3, <1>4, <1>5
      <4>2. QED BY <3>1, <4>1
    <3>2. CASE d # c BY <1>4, <2>4, <3>2
    <3>3. QED BY <3>1, <3>2
  <2>9. QED BY <2>3, <2>6, <2>8 DEF TimeSeen
<1>11. QED BY <1>8, <1>9, <1>10

(***************************************************************************)
(* The invariant is inductive.                                             *)
(***************************************************************************)
LEMMA InitInvariant == Init => IInv
<1> SUFFICES ASSUME Init PROVE IInv OBVIOUS
<1>1. PICK f \in FirstFiles : versions = [c \in Cluster |-> <<f[c]>>] BY DEF Init
<1>2. \A c \in Cluster : f[c] \in Version(c) BY FilesAssumption DEF FilesAssumption
<1>3. FilesOK
  BY <1>1, <1>2, BoundAssumption DEF Init, FilesOK, BoundAssumption
<1>4. CacheOK BY DEF Init, CacheOK, EntryOK
<1>5. FlagsOK BY DEF Init, FlagsOK
<1>6. stack = <<>> /\ warn_enabled BY DEF Init
<1>7. Len(<<>>) = 0 /\ <<>> \in Seq({}) OBVIOUS
<1>8. StackOK(stack) BY <1>6, <1>7 DEF StackOK, IsSeq, Alternates
<1>9. LoadOK BY <1>6 DEF LoadOK, Expanding
<1>10. SwitchOK(stack, warn_enabled) BY <1>6, <1>7 DEF SwitchOK, NoHas, Remembered
<1>11. QED BY <1>3, <1>4, <1>5, <1>8, <1>9, <1>10 DEF IInv

(* The stat finds a version whose time the load will file its sections by. *)
LEMMA StatMissKeeps == IInv /\ StatMiss => StackMoves /\ LoadOK'
<1> SUFFICES ASSUME IInv, StatMiss PROVE StackMoves /\ LoadOK' OBVIOUS
<1>1. /\ stack # <<>> /\ Top.fn = "expand" /\ Exists(Top.c)
      /\ stack' = AtTop([Top EXCEPT !.pc = "load", !.st_mtime = Current(Top.c).mtime])
      /\ UNCHANGED <<versions, warn_enabled>>
  BY DEF StatMiss, Expanding, files, warnings
<1>2. FrameOK(Top) /\ Top.c \in Cluster BY <1>1, TopFrame DEF IInv
<1>a. PICK c \in Cluster : c = Top.c BY <1>2
<1>b. PICK mt : mt = Current(c).mtime OBVIOUS
<1>3. c = Top.c /\ mt = Current(c).mtime BY <1>a, <1>b
<1>4. PICK f : f = [Top EXCEPT !.pc = "load", !.st_mtime = mt] OBVIOUS
<1>5. FrameOK(f) /\ f.fn = "expand" /\ f.c = c /\ f.st_mtime = mt
  BY <1>1, <1>2, <1>3, <1>4 DEF FrameOK
<1>6. /\ StackOK(AtTop(f)) /\ SwitchOK(AtTop(f), warn_enabled)
      /\ AtTop(f) # <<>> /\ Len(AtTop(f)) = Len(stack) /\ AtTop(f)[Len(stack)] = f
  BY <1>1, <1>5, TopMove DEF IInv
<1>7. stack' = AtTop(f) BY <1>1, <1>3, <1>4
<1>8. StackMoves BY <1>1, <1>6, <1>7 DEF StackMoves
<1>9. Top' = f BY <1>6, <1>7 DEF Top
<1>10. /\ Len(versions[c]) \in Nat \ {0} /\ mt \in Time
       /\ versions[c][Len(versions[c])].mtime = mt
  BY <1>1, <1>3, CurrentIsVersion DEF IInv
<1>11. LoadOK'
  <2>1. Top'.c = c /\ Top'.st_mtime = mt BY <1>5, <1>9
  <2>2. Len(versions'[c]) \in 1..Len(versions'[c]) BY <1>1, <1>10
  <2>3. mt \in Time /\ \E u \in 1..Len(versions'[c]) : versions'[c][u].mtime = mt
    BY <1>1, <1>10, <2>2
  <2>4. QED BY <2>1, <2>3 DEF LoadOK, TimeSeen
<1>12. QED BY <1>8, <1>11

(* The entry a load files is as EntryOK wants it. *)
LEMMA LoadKeeps == IInv /\ Load => CacheOK'
<1> SUFFICES ASSUME IInv, Load PROVE CacheOK' OBVIOUS
<1> DEFINE c == Top.c
           n == Len(versions[c])
           entry == [mtime |-> Top.st_mtime, sections |-> Sections(c), of |-> n]
<1>1. /\ c \in Cluster /\ UNCHANGED <<versions, dark>>
      /\ cache' = IF registered THEN [cache EXCEPT ![c] = entry] ELSE cache
  BY TopFrame DEF IInv, Load, Expanding, files
<1>2. n \in Nat \ {0} /\ Current(c) \in Version(c) /\ Current(c) = versions[c][n]
  BY <1>1, CurrentIsVersion DEF IInv
<1>3. TimeSeen(c, Top.st_mtime, n) BY DEF IInv, LoadOK, Load
<1>4. Sections(c) \in {<<>>} \union {cluster_keys(v.body) : v \in Version(c)}
  BY <1>2 DEF Sections
<1>5. n \notin dark[c] => Sections(c) = cluster_keys(versions[c][n].body)
  BY <1>1, <1>2 DEF IInv, FilesOK, Sections
<1>6. entry \in Entry(c)
  BY <1>2, <1>3, <1>4 DEF Entry, TimeSeen
<1>7. DOMAIN cache = Cluster /\ DOMAIN cache' = Cluster
  BY <1>1 DEF IInv, CacheOK
<1>8. ASSUME NEW d \in Cluster, cache'[d] # NoEntry
      PROVE  /\ cache'[d] \in Entry(d)
             /\ TimeSeen(d, cache'[d].mtime, cache'[d].of)
             /\ cache'[d].of \notin dark[d] =>
                  cache'[d].sections = cluster_keys(versions[d][cache'[d].of].body)
  <2>1. CASE registered /\ d = c
    <3>1. cache'[d] = entry BY <1>1, <1>7, <2>1
    <3>2. entry.mtime = Top.st_mtime /\ entry.of = n /\ entry.sections = Sections(c) OBVIOUS
    <3> HIDE DEF entry, c, n
    <3>3. QED BY <1>3, <1>5, <1>6, <2>1, <3>1, <3>2
  <2>2. CASE ~(registered /\ d = c)
    <3>1. cache'[d] = cache[d] BY <1>1, <1>7, <2>2
    <3>2. QED BY <1>8, <3>1 DEF IInv, CacheOK, EntryOK
  <2>3. QED BY <2>1, <2>2
<1>9. QED BY <1>1, <1>7, <1>8 DEF CacheOK, EntryOK, TimeSeen, Entry

LEMMA ExpandKeeps ==
  ASSUME IInv, StatFails \/ StatHit \/ Load \/ EvalDone
  PROVE  StackMoves /\ LoadOK'
<1>1. stack # <<>> /\ Top.fn = "expand" /\ Top.c \in Cluster /\ warn_enabled' = warn_enabled
  BY TopFrame DEF IInv, StatFails, StatHit, Load, EvalDone, Expanding, warnings
<1>2. StackOK(stack) /\ SwitchOK(stack, warn_enabled) /\ Top.fn # "has" BY <1>1 DEF IInv
<1>3. CASE \E v : Return(v)
  BY <1>1, <1>2, <1>3, ReturnKeeps DEF LoadOK
<1>4. CASE \E sections, kinds : SectionsOK(sections) /\ Lookup(sections, kinds)
  BY <1>1, <1>2, <1>4, LookupKeeps DEF LoadOK
<1>5. (\E v : Return(v)) \/ \E sections, kinds : SectionsOK(sections) /\ Lookup(sections, kinds)
  <2>1. CASE StatFails \/ EvalDone BY <2>1 DEF StatFails, EvalDone
  <2>2. CASE StatHit
    <3>1. cache[Top.c] # NoEntry /\ Lookup(cache[Top.c].sections, {}) BY <2>2 DEF StatHit, Hit
    <3>2. SectionsOK(cache[Top.c].sections) BY <1>1, <3>1, CachedAreOK DEF IInv
    <3>3. QED BY <3>1, <3>2
  <2>3. CASE Load
    <3>1. Lookup(Sections(Top.c), LoadWarnings(Top.c)) BY <2>3 DEF Load
    <3>2. SectionsOK(Sections(Top.c)) BY <1>1, SectionsAreOK DEF IInv
    <3>3. QED BY <3>1, <3>2
  <2>4. QED BY <2>1, <2>2, <2>3
<1>6. QED BY <1>3, <1>4, <1>5

LEMMA EvalCallKeeps == IInv /\ EvalCall => StackMoves /\ LoadOK'
<1> SUFFICES ASSUME IInv, EvalCall PROVE StackMoves /\ LoadOK' OBVIOUS
<1>1. PICK q \in Top.todo : Enter(q, AtTop([Top EXCEPT !.todo = @ \ {q}]), warn_enabled)
  BY DEF EvalCall
<1>2. stack # <<>> /\ Top.fn = "expand" /\ Top.pc = "eval" /\ FrameOK(Top)
  BY TopFrame DEF IInv, EvalCall, Expanding
<1>3. PICK f : f = [Top EXCEPT !.todo = Top.todo \ {q}] OBVIOUS
<1>4. FrameOK(f) /\ f.fn = "expand" /\ f.pc = "eval" /\ Waiting(f) /\ CallOK(q)
  BY <1>2, <1>3 DEF FrameOK, Waiting
<1>5. /\ StackOK(AtTop(f)) /\ SwitchOK(AtTop(f), warn_enabled)
      /\ AtTop(f) # <<>> /\ Len(AtTop(f)) = Len(stack) /\ AtTop(f)[Len(stack)] = f
  BY <1>2, <1>4, TopMove DEF IInv
<1>6. Enter(q, AtTop(f), warn_enabled) BY <1>1, <1>3
<1>7. StackMoves /\ ~Expanding("load")' BY <1>4, <1>5, <1>6, EnterKeeps
<1>8. QED BY <1>7 DEF LoadOK

LEMMA NextTargetKeeps == IInv /\ NextTarget => StackMoves /\ LoadOK'
<1> SUFFICES ASSUME IInv, NextTarget PROVE StackMoves /\ LoadOK' OBVIOUS
<1>1. PICK t \in Top.todo : Push(t, [Top EXCEPT !.todo = @ \ {t}]) BY DEF NextTarget
<1>2. stack # <<>> /\ Top.fn # "expand" /\ FrameOK(Top) /\ warn_enabled' = warn_enabled
  BY TopFrame DEF IInv, NextTarget, InLoop, warnings
<1>3. PICK f, x : /\ f = [[Top EXCEPT !.todo = Top.todo \ {t}] EXCEPT !.cur = t]
                  /\ x = Expansion(t.c, t.s)
  OBVIOUS
<1>4. t.c \in Cluster BY <1>2 DEF FrameOK
<1>5. /\ FrameOK(f) /\ f.fn = Top.fn /\ Waiting(f)
      /\ f.fn = "has" => f.was_enabled = Top.was_enabled
  BY <1>2, <1>3, <1>4 DEF FrameOK, Waiting
<1>6. FrameOK(x) /\ x.fn = "expand" /\ x.pc = "stat" BY <1>3, <1>4 DEF Expansion, FrameOK
<1>7. stack' = Append(AtTop(f), x) BY <1>1, <1>3 DEF Push
<1>8. PICK st : st = AtTop(f) OBVIOUS
<1>9. /\ StackOK(st) /\ Len(st) = Len(stack) /\ Len(stack) \in Nat \ {0}
      /\ st # <<>> /\ st[Len(stack)] = f
      /\ \A k \in 1..Len(stack) - 1 : st[k] = stack[k]
  <2>1. StackOK(stack) /\ stack # <<>> /\ FrameOK(f) /\ f.fn = stack[Len(stack)].fn
    BY <1>2, <1>5 DEF IInv, Top
  <2>2. st = [stack EXCEPT ![Len(stack)] = f] BY <1>8 DEF AtTop
  <2>3. LET new == [stack EXCEPT ![Len(stack)] = f] IN
        /\ StackOK(new) /\ Len(new) = Len(stack) /\ Len(stack) \in Nat \ {0}
        /\ new # <<>> /\ new[Len(stack)] = f
        /\ \A k \in 1..Len(stack) - 1 : new[k] = stack[k]
    BY <2>1, SetTop, Zenon
  <2>4. QED BY <2>2, <2>3
<1>10. Agree(st, stack)
  <2>1. ASSUME NEW k \in 1..Len(st), k # Len(stack) PROVE st[k] = stack[k] BY <1>9, <2>1
  <2>2. QED BY <1>5, <1>9, <2>1 DEF Agree, Top
<1>11. SwitchOK(st, warn_enabled)
  <2>1. Remembered(st) /\ (NoHas(st, Len(st)) <=> NoHas(stack, Len(st)))
    BY <1>10, SwitchPrefix DEF IInv, SwitchOK
  <2>2. QED BY <1>9, <2>1 DEF IInv, SwitchOK
<1>12. /\ StackOK(Append(st, x)) /\ SwitchOK(Append(st, x), warn_enabled /\ x.fn # "has")
       /\ Append(st, x)[Len(Append(st, x))] = x /\ Append(st, x) # <<>>
  BY <1>2, <1>5, <1>6, <1>9, <1>11, PushMove
<1>13. StackMoves
  <2>1. SwitchOK(Append(st, x), warn_enabled) BY <1>6, <1>12 DEF SwitchOK
  <2>2. QED BY <1>2, <1>7, <1>8, <1>12, <2>1 DEF StackMoves
<1>14. ~Expanding("load")' BY <1>6, <1>7, <1>8, <1>12 DEF Expanding, Top
<1>15. QED BY <1>13, <1>14 DEF LoadOK

(* A has that returns gives the switch the value it found it with. *)
LEMMA LoopDoneKeeps == IInv /\ LoopDone => StackMoves /\ LoadOK'
<1> SUFFICES ASSUME IInv, LoopDone PROVE StackMoves /\ LoadOK' OBVIOUS
<1>1. PICK v : Return(v) BY DEF LoopDone, Answer
<1>2. /\ stack # <<>> /\ StackOK(stack) /\ Remembered(stack)
      /\ warn_enabled <=> NoHas(stack, Len(stack))
      /\ warn_enabled' = (warn_enabled \/ (Top.fn = "has" /\ Top.was_enabled))
  BY DEF IInv, LoopDone, InLoop, SwitchOK
<1>3. warn_enabled' <=> NoHas(stack, Len(stack) - 1)
  <2>1. Top = stack[Len(stack)] /\ Len(stack) \in Nat \ {0} BY <1>2, TopFrame
  <2>2. CASE Top.fn = "has"
    <3>1. ~NoHas(stack, Len(stack)) BY <2>1, <2>2 DEF NoHas
    <3>2. Len(stack) \in 1..Len(stack) BY <2>1
    <3>3. Top.was_enabled <=> NoHas(stack, Len(stack) - 1)
      BY <1>2, <2>1, <2>2, <3>2 DEF Remembered, NoHas
    <3>4. QED BY <1>2, <2>2, <3>1, <3>3
  <2>3. CASE Top.fn # "has"
    <3>1. NoHas(stack, Len(stack)) <=> NoHas(stack, Len(stack) - 1) BY <2>1, <2>3 DEF NoHas
    <3>2. QED BY <1>2, <2>3, <3>1
  <2>4. QED BY <2>2, <2>3
<1>4. StackOK(stack') /\ SwitchOK(stack', warn_enabled') /\ ~Expanding("load")'
  BY <1>1, <1>2, <1>3, ReturnMove
<1>5. QED BY <1>4 DEF StackMoves, LoadOK

(* The program and the outside world. *)
LEMMA StackKept ==
  ASSUME IInv, UNCHANGED <<stack, warn_enabled>>
  PROVE  StackMoves
BY DEF IInv, StackMoves, StackOK, IsSeq, Alternates, SwitchOK, Remembered, NoHas

LEMMA LoadKept ==
  ASSUME LoadOK, UNCHANGED <<stack, versions>>
  PROVE  LoadOK'
BY DEF LoadOK, Expanding, Top, TimeSeen

LEMMA WorldKeeps == IInv /\ World => FilesOK' /\ CacheOK' /\ LoadOK'
<1> SUFFICES ASSUME IInv, NEW c \in Changing,
                    \/ \E body \in BodiesOf[c], t \in Time : WriteFile(c, body, t)
                    \/ DeleteFile(c) \/ Chmod(c)
             PROVE  FilesOK' /\ CacheOK' /\ LoadOK'
  BY DEF World
<1>0. c \in Cluster BY FilesAssumption DEF FilesAssumption
<1>1. FilesOK /\ CacheOK /\ LoadOK /\ StackOK(stack) /\ readable \in [Cluster -> BOOLEAN]
      /\ DOMAIN dark = Cluster /\ DOMAIN versions = Cluster
      /\ Len(versions[c]) \in Nat \ {0} /\ dark[c] \subseteq 1..Len(versions[c])
  BY <1>0 DEF IInv, FilesOK
<1>2. CASE \E body \in BodiesOf[c], t \in Time : WriteFile(c, body, t)
  <2>1. PICK body \in BodiesOf[c], t \in Time : WriteFile(c, body, t) BY <1>2
  <2>2. [mtime |-> t, body |-> body] \in Version(c) BY DEF Version
  <2>3. NewVersion(c, body, t) /\ readable' = readable BY <2>1 DEF WriteFile
  <2>4. dark' = dark \/ dark' = [dark EXCEPT ![c] = @ \union {Len(versions[c]) + 1}]
    BY <2>1 DEF WriteFile
  <2>5. ~readable'[c] => Len(versions[c]) + 1 \in dark'[c]
    BY <1>0, <1>1, <2>1, <2>3 DEF WriteFile
  <2>6. QED BY <1>0, <1>1, <2>2, <2>3, <2>4, <2>5, NewVersionKeeps
<1>3. CASE DeleteFile(c)
  <2>1. [mtime |-> -1, body |-> Gone] \in Version(c) BY DEF Version
  <2>2. NewVersion(c, Gone, -1) /\ dark' = dark BY <1>3 DEF DeleteFile
  <2>3. /\ readable' \in [Cluster -> BOOLEAN] /\ readable'[c]
        /\ \A d \in Cluster \ {c} : readable'[d] = readable[d]
    BY <1>0, <1>1, <1>3 DEF DeleteFile
  <2>4. QED BY <1>0, <1>1, <2>1, <2>2, <2>3, NewVersionKeeps
<1>4. CASE Chmod(c)
  <2>1. /\ UNCHANGED <<versions, cache, stack>>
        /\ readable' = [readable EXCEPT ![c] = ~@]
        /\ dark' = [dark EXCEPT ![c] = @ \union {Len(versions[c])}]
        /\ changes' \in 0..MaxChanges
    BY <1>1, <1>4, BoundAssumption DEF Chmod, Change, caching, FilesOK, BoundAssumption
  <2>2. /\ readable' \in [Cluster -> BOOLEAN] /\ DOMAIN dark' = Cluster
        /\ \A d \in Cluster : /\ d # c => dark'[d] = dark[d] /\ readable'[d] = readable[d]
                              /\ d = c => dark'[d] = dark[d] \union {Len(versions[c])}
    BY <1>0, <1>1, <2>1
  <2>3. FilesOK'
    <3>1. ASSUME NEW d \in Cluster
          PROVE  /\ versions'[d] \in Seq(Version(d)) /\ versions'[d] # <<>>
                 /\ dark'[d] \subseteq 1..Len(versions'[d])
                 /\ ~readable'[d] => Len(versions'[d]) \in dark'[d]
      <4>1. CASE d = c BY <1>1, <2>1, <2>2, <4>1 DEF FilesOK
      <4>2. CASE d # c BY <1>1, <2>1, <2>2, <4>2 DEF FilesOK
      <4>3. QED BY <4>1, <4>2
    <3>2. QED BY <1>1, <2>1, <2>2, <3>1 DEF FilesOK
  <2>4. CacheOK'
    <3>1. ASSUME NEW d \in Cluster PROVE dark[d] \subseteq dark'[d]
      <4>1. dark'[d] = IF d = c THEN dark[c] \union {Len(versions[c])} ELSE dark[d]
        BY <1>1, <2>1
      <4>2. QED BY <4>1
    <3>2. QED BY <1>1, <2>1, <3>1 DEF CacheOK, EntryOK, Entry, TimeSeen
  <2>5. LoadOK' BY <1>1, <2>1, LoadKept
  <2>6. QED BY <2>3, <2>4, <2>5
<1>5. QED BY <1>2, <1>3, <1>4

LEMMA NextInvariant == IInv /\ [Next]_vars => IInv'
<1> SUFFICES ASSUME IInv, [Next]_vars PROVE IInv' OBVIOUS
<1>1. FilesOK' /\ CacheOK'
  <2>1. CASE World BY <2>1, WorldKeeps
  <2>2. CASE Load
    <3>1. UNCHANGED files BY <2>2 DEF Load
    <3>2. QED BY <2>2, <3>1, LoadKeeps, FilesKept DEF IInv
  <2>3. CASE libcrange_clear_caches
    <3>1. UNCHANGED files /\ cache' = [c \in Cluster |-> NoEntry] BY <2>3 DEF libcrange_clear_caches
    <3>2. QED BY <3>1, FilesKept DEF IInv, CacheOK, EntryOK
  <2>4. CASE ~World /\ ~Load /\ ~libcrange_clear_caches
    <3>1. UNCHANGED files /\ UNCHANGED cache
      BY <2>4 DEF Next, Step, Program, StatFails, StatHit, StatMiss, EvalCall, EvalDone, NextTarget,
                  LoopDone, Ask, libcrange_want_caching, FindCache, caching, vars
    <3>2. QED BY <3>1, FilesKept, CacheKept DEF IInv, files
  <2>5. QED BY <2>1, <2>2, <2>3, <2>4
<1>2. StackMoves /\ LoadOK'
  <2>1. CASE StatFails \/ StatHit \/ Load \/ EvalDone BY <2>1, ExpandKeeps
  <2>2. CASE StatMiss BY <2>2, StatMissKeeps
  <2>3. CASE EvalCall BY <2>3, EvalCallKeeps
  <2>4. CASE NextTarget BY <2>4, NextTargetKeeps
  <2>5. CASE LoopDone BY <2>5, LoopDoneKeeps
  <2>6. CASE \E q \in Queries : Ask(q)
    <3>1. PICK q \in Queries : Ask(q) BY <2>6
    <3>2. Enter(q, <<>>, TRUE) /\ CallOK(q) BY <3>1, CallsAssumption DEF Ask, CallsAssumption
    <3>3. StackMoves /\ ~Expanding("load")' BY <3>2, EnterKeeps
    <3>4. QED BY <3>3 DEF LoadOK
  <2>7. CASE World
    <3>1. UNCHANGED <<stack, warn_enabled>>
      BY <2>7 DEF World, WriteFile, DeleteFile, Chmod, NewVersion, warnings
    <3>2. QED BY <2>7, <3>1, WorldKeeps, StackKept
  <2>8. CASE libcrange_clear_caches \/ (\E want \in BOOLEAN : libcrange_want_caching(want))
             \/ UNCHANGED vars
    <3>1. UNCHANGED <<stack, warn_enabled, versions>>
      BY <2>8 DEF libcrange_clear_caches, libcrange_want_caching, vars, warnings, files
    <3>2. QED BY <3>1, StackKept, LoadKept DEF IInv
  <2>9. QED BY <2>1, <2>2, <2>3, <2>4, <2>5, <2>6, <2>7, <2>8 DEF Next, Step, Program
<1>3. FlagsOK'
  <2>1. warn_enabled' \in BOOLEAN
    BY DEF IInv, FlagsOK, Next, Step, Program, World, StatFails, StatHit, StatMiss, Load, EvalCall,
           EvalDone, NextTarget, LoopDone, Ask, Enter, libcrange_clear_caches,
           libcrange_want_caching, WriteFile, DeleteFile, Chmod, NewVersion, warnings, vars
  <2>2. registered' \in BOOLEAN /\ want_caching' \in BOOLEAN
    BY DEF IInv, FlagsOK, Next, Step, Program, World, StatFails, StatHit, StatMiss, Load, EvalCall,
           EvalDone, NextTarget, LoopDone, Ask, FindCache, libcrange_clear_caches,
           libcrange_want_caching, WriteFile, DeleteFile, Chmod, NewVersion, caching, vars
  <2>3. steady' \in BOOLEAN
    BY DEF IInv, FlagsOK, Next, Step, Program, World, StatFails, StatHit, StatMiss, Load, EvalCall,
           EvalDone, NextTarget, LoopDone, Ask, libcrange_clear_caches, Change,
           libcrange_want_caching, WriteFile, DeleteFile, Chmod, NewVersion, request, vars
  <2>4. QED BY <2>1, <2>2, <2>3 DEF FlagsOK
<1>4. QED BY <1>1, <1>2, <1>3 DEF IInv, StackMoves

(***************************************************************************)
(* What a request returns.  V gives every target what its text says when   *)
(* the calls in it are worth what V makes of them; the frames of a request *)
(* then add up to V, whatever order they are taken in.                     *)
(***************************************************************************)
Follows(V) == \A t \in AllTargets : V[t] = Follow(t, V)

(* No call in a text is worth what the order of a directory makes it. *)
Orderly(sections) ==
  \A s \in DOMAIN sections :
    sections[s] # BadText => \A q \in sections[s].calls : q.fn # "get_cluster"
AllOrderly == \A c \in Cluster : Orderly(Sections(c))

(* The targets a call takes into account, and all it makes of them. *)
KeysOf(q)   == Target(IF q.fn = "mem" THEN q.c ELSE "GROUPS", "KEYS")
Goals(q, V) == IF Lists(q) THEN {Target(KeysOf(q).c, k) : k \in V[KeysOf(q)]} ELSE Targets(q)
Gains(q, V, P) == UNION {Gain(q, t, V[t]) : t \in P}
Base(q)     == IF q.fn = "allclusters" THEN all_clusters ELSE {}
Whole(q, V) == Base(q) \union Gains(q, V, Goals(q, V))

(* A loop that has the targets P still to hear of; get_cluster has an      *)
(* answer for every node that it will not hear of again.                   *)
LoopExact(V, f, P) ==
  /\ P \subseteq AllTargets
  /\ f.listing => P = {KeysOf(f.call)} /\ f.acc = {}
  /\ ~f.listing /\ f.fn # "get_cluster" => f.acc \union Gains(f.call, V, P) = Whole(f.call, V)
  /\ ~f.listing /\ f.fn = "get_cluster" =>
       /\ P \subseteq Goals(f.call, V) /\ f.acc \subseteq Whole(f.call, V)
       /\ \A p \in Whole(f.call, V) :
            (\E a \in f.acc : a[1] = p[1]) \/ (\E t \in P : p[1] \in V[t])

(* A text being evaluated that has the calls Q still to hear of. *)
TextExact(V, f, Q) ==
  /\ Target(f.c, f.s) \in AllTargets
  /\ f.pc = "eval" => /\ V[Target(f.c, f.s)] = f.acc \union UNION {CallValue(q, V) : q \in Q}
                      /\ \A q \in Q : q.fn # "get_cluster"

(* A frame with g above it, and one on top. *)
Below(V, f, g) ==
  IF f.fn = "expand" THEN TextExact(V, f, f.todo \union {g.call})
  ELSE LoopExact(V, f, f.todo \union {f.cur}) /\ f.cur = Target(g.c, g.s)
OnTop(V, f) == IF f.fn = "expand" THEN TextExact(V, f, f.todo) ELSE LoopExact(V, f, f.todo)

StackExact(V, st) ==
  /\ \A k \in 1..Len(st) - 1 : Below(V, st[k], st[k + 1])
  /\ OnTop(V, st[Len(st)])

ValueExact(V, q, v) ==
  /\ v \subseteq CallValue(q, V)
  /\ q.fn # "get_cluster" => v = CallValue(q, V)
  /\ q.fn = "get_cluster" => (v = {} <=> CallValue(q, V) = {})

Exact(V, st, q, r) ==
  IF st = <<>> THEN ValueExact(V, q, r) ELSE st[1].call = q /\ StackExact(V, st)

(* The case QueryExact is about.  Entries are of the set that is           *)
(* registered: there are none while it is not.                             *)
Settled == steady /\ (registered => \A c \in Cluster : Distinguished(c))

ExactInv ==
  /\ ~registered => \A c \in Cluster : cache[c] = NoEntry
  /\ \A V, st, q, r :
       Follows(V) /\ AllOrderly /\ Settled /\ st = stack /\ q = query /\ r = result
         => Exact(V, st, q, r)

(***************************************************************************)
(* Calls and their targets.                                                *)
(***************************************************************************)
LEMMA TargetIs ==
  /\ \A c \in Cluster, s \in Section : Target(c, s) \in AllTargets
  /\ \A t \in AllTargets : t.c \in Cluster /\ t.s \in Section /\ Target(t.c, t.s) = t
  /\ \A c, s : Target(c, s).c = c /\ Target(c, s).s = s
BY DEF Target, AllTargets

LEMMA KeysInSection ==
  ASSUME NEW c \in Cluster, NEW v \in Version(c)
  PROVE  "KEYS" \in DOMAIN cluster_keys(v.body) =>
           /\ cluster_keys(v.body)["KEYS"].calls = {}
           /\ cluster_keys(v.body)["KEYS"].names \subseteq Section
<1>1. CASE v.body \in {Gone, Malformed}
  BY <1>1 DEF cluster_keys
<1>2. CASE v.body \notin {Gone, Malformed}
  <2>1. DOMAIN v.body \subseteq Section
    BY <1>2, CallsAssumption DEF CallsAssumption, Version, BodyOK
  <2> DEFINE all == [s \in DOMAIN v.body \union {"KEYS"} |->
                       IF s = "KEYS" THEN [names |-> DOMAIN v.body, calls |-> {}] ELSE v.body[s]]
  <2>2. cluster_keys(v.body) = (IF DOMAIN v.body = {} THEN v.body ELSE all)
    BY <1>2 DEF cluster_keys
  <2>3. all["KEYS"] = [names |-> DOMAIN v.body, calls |-> {}] OBVIOUS
  <2> HIDE DEF all
  <2>4. CASE DOMAIN v.body = {} BY <2>2, <2>4
  <2>5. CASE DOMAIN v.body # {} BY <2>1, <2>2, <2>3, <2>5
  <2>6. QED BY <2>4, <2>5
<1>3. QED BY <1>1, <1>2

(* What KEYS names are sections. *)
LEMMA KeysListed ==
  ASSUME FilesOK, NEW W, NEW c \in Cluster
  PROVE  Follow(Target(c, "KEYS"), W) \subseteq Section
<1>1. Current(c) \in Version(c) BY CurrentIsVersion
<1>2. "KEYS" \in DOMAIN Sections(c) =>
         Sections(c)["KEYS"].calls = {} /\ Sections(c)["KEYS"].names \subseteq Section
  BY <1>1, KeysInSection DEF Sections
<1>3. CASE "KEYS" \notin DOMAIN Sections(c) \/ Sections(c)["KEYS"] = BadText
  BY <1>3, TargetIs DEF Follow
<1>4. CASE "KEYS" \in DOMAIN Sections(c) /\ Sections(c)["KEYS"] # BadText
  <2>1. Follow(Target(c, "KEYS"), W) = Sections(c)["KEYS"].names
                                 \union UNION {CallValue(q, W) : q \in Sections(c)["KEYS"].calls}
    BY <1>4, TargetIs DEF Follow
  <2>2. QED BY <1>2, <1>4, <2>1
<1>5. QED BY <1>3, <1>4

LEMMA TargetsIn ==
  ASSUME NEW q, CallOK(q)
  PROVE  /\ Targets(q) \subseteq AllTargets
         /\ Lists(q) => Targets(q) = {KeysOf(q)} /\ KeysOf(q).c \in Cluster
<1>1. q.fn \in Functions /\ {"KEYS", "CLUSTER"} \subseteq Section
  BY SectionAssumption DEF CallOK, SectionAssumption
<1>2. Targets(q) \subseteq AllTargets
  BY <1>1, TargetIs DEF CallOK, Functions, Targets, all_clusters
<1>3. Lists(q) => Targets(q) = {KeysOf(q)} /\ KeysOf(q).c \in Cluster
  BY <1>1, TargetIs DEF CallOK, Lists, Targets, KeysOf
<1>4. QED BY <1>2, <1>3

(***************************************************************************)
(* The moves of the stack.                                                 *)
(***************************************************************************)

(* The same call, or the same expansion, further on. *)
Same(f, g) ==
  f.fn = g.fn /\ IF f.fn = "expand" THEN f.c = g.c /\ f.s = g.s ELSE f.call = g.call

LEMMA BelowSame ==
  ASSUME NEW V, NEW f, NEW g, NEW h, Same(g, h), Below(V, f, g),
         f.fn = "expand" <=> g.fn # "expand"
  PROVE  Below(V, f, h)
<1>1. CASE f.fn = "expand"
  <2>1. g.call = h.call BY <1>1 DEF Same
  <2>2. QED BY <1>1, <2>1 DEF Below
<1>2. CASE f.fn # "expand"
  <2>1. g.c = h.c /\ g.s = h.s BY <1>2 DEF Same
  <2>2. QED BY <1>2, <2>1 DEF Below
<1>3. QED BY <1>1, <1>2

(* Frame n has gone on, with nothing above it or one frame more. *)
LEMMA StackGoesOn ==
  ASSUME NEW V, NEW st, StackOK(st), NEW n \in 1..Len(st), StackExact(V, st),
         NEW new, StackOK(new), Len(new) = n \/ Len(new) = n + 1,
         \A k \in 1..n - 1 : new[k] = st[k], Same(st[n], new[n]),
         Len(new) = n => OnTop(V, new[n]),
         Len(new) = n + 1 => Below(V, new[n], new[n + 1]) /\ OnTop(V, new[n + 1])
  PROVE  StackExact(V, new) /\ new[1].call = st[1].call
<1>0. Len(st) \in Nat /\ Len(new) \in Nat /\ n \in Nat \ {0} /\ n <= Len(st)
  BY DEF StackOK, IsSeq
<1>1. OnTop(V, new[Len(new)]) OBVIOUS
<1>2. ASSUME NEW k \in 1..Len(new) - 1 PROVE Below(V, new[k], new[k + 1])
  <2>1. CASE k = n BY <1>0, <1>2, <2>1
  <2>2. CASE k # n
    <3>1. k \in 1..n - 1 /\ k \in 1..Len(st) - 1 /\ k \in 1..Len(st) /\ k + 1 \in 1..Len(st)
      BY <1>0, <1>2, <2>2
    <3>2. new[k] = st[k] /\ Below(V, st[k], st[k + 1]) BY <3>1 DEF StackExact
    <3>3. CASE k + 1 = n
      <4>1. st[k + 1].fn = "expand" <=> k + 1 > 1 /\ st[(k + 1) - 1].fn # "expand"
        BY <3>1 DEF StackOK, Alternates
      <4>2. (k + 1) - 1 = k /\ k + 1 > 1 BY <3>1
      <4>3. st[k].fn = "expand" <=> st[k + 1].fn # "expand" BY <4>1, <4>2
      <4>4. Same(st[k + 1], new[k + 1]) BY <3>3
      <4>5. Below(V, st[k], new[k + 1]) BY <3>2, <4>3, <4>4, BelowSame
      <4>6. QED BY <3>2, <4>5
    <3>4. CASE k + 1 # n
      <4>1. k + 1 \in 1..n - 1 BY <1>0, <3>1, <3>4
      <4>2. QED BY <3>2, <4>1
    <3>5. QED BY <3>3, <3>4
  <2>3. QED BY <2>1, <2>2
<1>3. new[1].call = st[1].call
  <2>1. CASE n = 1
    <3>1. 1 \in 1..Len(st) /\ ~(1 > 1) BY <1>0
    <3>2. st[1].fn # "expand" BY <3>1 DEF StackOK, Alternates
    <3>3. QED BY <2>1, <3>2 DEF Same
  <2>2. CASE n # 1
    <3>1. 1 \in 1..n - 1 BY <1>0, <2>2
    <3>2. QED BY <3>1
  <2>3. QED BY <2>1, <2>2
<1>4. QED BY <1>1, <1>2, <1>3 DEF StackExact

(* What the frame below does with the value of the one on top. *)
LEMMA CollectExact ==
  ASSUME FilesOK, NEW V, Follows(V), NEW f, FrameOK(f), Waiting(f), NEW g, Below(V, f, g), NEW v,
         IF f.fn = "expand" THEN ValueExact(V, g.call, v) ELSE v = V[Target(g.c, g.s)]
  PROVE  OnTop(V, Collect(f, v)) /\ Same(f, Collect(f, v))
<1>1. CASE f.fn = "expand"
  <2> DEFINE d == [f EXCEPT !.acc = @ \union v]
  <2>1. Collect(f, v) = d BY <1>1 DEF Collect
  <2>2. /\ d.fn = "expand" /\ d.c = f.c /\ d.s = f.s /\ d.pc = "eval" /\ d.todo = f.todo
        /\ d.acc = f.acc \union v
    BY <1>1 DEF FrameOK, Waiting
  <2>3. /\ Target(f.c, f.s) \in AllTargets
        /\ V[Target(f.c, f.s)] = f.acc \union UNION {CallValue(q, V) : q \in f.todo \union {g.call}}
        /\ \A q \in f.todo \union {g.call} : q.fn # "get_cluster"
    BY <1>1 DEF Below, TextExact, Waiting
  <2>4. v = CallValue(g.call, V) BY <1>1, <2>3 DEF ValueExact
  <2>5. V[Target(f.c, f.s)] = (f.acc \union v) \union UNION {CallValue(q, V) : q \in f.todo}
    BY <2>3, <2>4
  <2> HIDE DEF d
  <2>6. QED BY <1>1, <2>1, <2>2, <2>3, <2>5 DEF OnTop, TextExact, Same
<1>2. CASE f.fn # "expand" /\ f.listing
  <2> DEFINE ks == {Target(f.cur.c, k) : k \in v}
             d == [f EXCEPT !.listing = FALSE, !.todo = ks]
  <2>1. Collect(f, v) = d BY <1>2 DEF Collect
  <2>2. d.fn = f.fn /\ d.call = f.call /\ d.listing = FALSE /\ d.todo = ks /\ d.acc = f.acc
    BY <1>2 DEF FrameOK
  <2>3. /\ f.acc = {} /\ f.cur = KeysOf(f.call) /\ f.cur = Target(g.c, g.s)
        /\ Lists(f.call) /\ CallOK(f.call) /\ f.fn = f.call.fn
    BY <1>2 DEF Below, LoopExact, FrameOK
  <2>4. KeysOf(f.call) = Target(f.cur.c, "KEYS") /\ f.cur.c \in Cluster
    BY <2>3, TargetIs, TargetsIn DEF KeysOf
  <2>5. v = V[Target(f.cur.c, "KEYS")] /\ v \subseteq Section
    <3>1. Target(f.cur.c, "KEYS") \in AllTargets
      BY <2>4, TargetIs, SectionAssumption DEF SectionAssumption
    <3>2. V[Target(f.cur.c, "KEYS")] \subseteq Section BY <2>4, <3>1, KeysListed DEF Follows
    <3>3. QED BY <1>2, <2>3, <2>4, <3>2
  <2>6. ks = Goals(f.call, V)
    BY <2>3, <2>4, <2>5 DEF Goals
  <2>7. ks \subseteq AllTargets BY <2>4, <2>5, TargetIs
  <2>8. Base(f.call) = {} /\ f.fn # "get_cluster" BY <2>3 DEF Base, Lists
  <2> HIDE DEF ks, d
  <2>9. d.acc \union Gains(d.call, V, d.todo) = Whole(d.call, V)
    BY <2>2, <2>3, <2>6, <2>8 DEF Whole
  <2>10. LoopExact(V, d, d.todo) BY <2>2, <2>7, <2>8, <2>9 DEF LoopExact
  <2>11. QED BY <1>2, <2>1, <2>2, <2>10 DEF OnTop, Same
<1>3. CASE f.fn # "expand" /\ ~f.listing
  <2> DEFINE known == {p[1] : p \in f.acc}
             gain == Gain(f.call, f.cur, v)
             more == {p \in gain : f.fn = "get_cluster" => p[1] \notin known}
             d == [f EXCEPT !.acc = @ \union more]
  <2>1. Collect(f, v) = d BY <1>3 DEF Collect
  <2>2. /\ d.fn = f.fn /\ d.call = f.call /\ d.listing = f.listing /\ d.todo = f.todo
        /\ d.acc = f.acc \union more
    BY <1>3 DEF FrameOK
  <2>3. LoopExact(V, f, f.todo \union {f.cur}) /\ v = V[f.cur] /\ f.fn = f.call.fn
    BY <1>3 DEF Below, FrameOK
  <2>4. Gains(f.call, V, f.todo \union {f.cur}) = gain \union Gains(f.call, V, f.todo)
    BY <2>3 DEF Gains
  <2>5. f.todo \subseteq AllTargets BY <2>3 DEF LoopExact
  <2>6. CASE f.fn # "get_cluster"
    <3>1. more = gain BY <2>6
    <3> HIDE DEF gain, more, d
    <3>2. f.acc \union Gains(f.call, V, f.todo \union {f.cur}) = Whole(f.call, V)
      BY <1>3, <2>3, <2>6 DEF LoopExact
    <3>3. d.acc \union Gains(d.call, V, d.todo) = Whole(d.call, V)
      BY <2>2, <2>4, <3>1, <3>2
    <3>4. LoopExact(V, d, d.todo) BY <1>3, <2>2, <2>5, <2>6, <3>3 DEF LoopExact
    <3>5. QED BY <1>3, <2>1, <2>2, <3>4 DEF OnTop, Same
  <2>7. CASE f.fn = "get_cluster"
    <3>1. /\ f.acc \subseteq Whole(f.call, V) /\ f.todo \union {f.cur} \subseteq Goals(f.call, V)
          /\ \A p \in Whole(f.call, V) :
               (\E a \in f.acc : a[1] = p[1]) \/ (\E t \in f.todo \union {f.cur} : p[1] \in V[t])
      BY <1>3, <2>3, <2>7 DEF LoopExact
    <3>2. gain = v \X {f.cur.c}
      BY <2>3, <2>7 DEF Gain
    <3>3. gain \subseteq Whole(f.call, V)
      BY <2>3, <3>1 DEF Whole, Gains
    <3>4. more \subseteq gain /\ \A p \in gain : p[1] \in known \/ p \in more
      OBVIOUS
    <3>5. \A e \in v : <<e, f.cur.c>> \in gain /\ <<e, f.cur.c>>[1] = e BY <3>2
    <3>6. \A e \in known : \E a \in f.acc : a[1] = e OBVIOUS
    <3> HIDE DEF gain, more, known, d
    <3>7. d.acc \subseteq Whole(f.call, V) BY <2>2, <3>1, <3>3, <3>4
    <3>8. ASSUME NEW p \in Whole(f.call, V)
          PROVE  (\E a \in d.acc : a[1] = p[1]) \/ (\E t \in f.todo : p[1] \in V[t])
      <4>1. CASE \E a \in f.acc : a[1] = p[1] BY <2>2, <4>1
      <4>2. CASE p[1] \in V[f.cur]
        <5>1. p[1] \in v BY <2>3, <4>2
        <5>2. PICK x \in gain : x[1] = p[1] BY <3>5, <5>1
        <5>3. CASE x \in more BY <2>2, <5>2, <5>3
        <5>4. CASE x[1] \in known BY <2>2, <3>6, <5>2, <5>4
        <5>5. QED BY <3>4, <5>3, <5>4
      <4>3. CASE \E t \in f.todo : p[1] \in V[t] BY <4>3
      <4>4. QED BY <3>1, <4>1, <4>2, <4>3
    <3>9. LoopExact(V, d, d.todo) BY <1>3, <2>2, <2>5, <2>7, <3>1, <3>7, <3>8 DEF LoopExact
    <3>10. QED BY <1>3, <2>1, <2>2, <3>9 DEF OnTop, Same
  <2>8. QED BY <2>6, <2>7
<1>4. QED BY <1>1, <1>2, <1>3

(* A frame below the top one takes the value returned. *)
LEMMA ReturnShape ==
  ASSUME NEW below, StackOK(below), below # <<>>, NEW d, FrameOK(d), d.fn = below[Len(below)].fn
  PROVE  \A n, new : n = Len(below) /\ new = [below EXCEPT ![n] = d] =>
           /\ Len(new) = n /\ new[n] = d /\ new # <<>>
           /\ \A k \in 1..n - 1 : new[k] = below[k]
<1>1. LET w == [below EXCEPT ![Len(below)] = d] IN
      /\ StackOK(w) /\ Len(w) = Len(below) /\ Len(below) \in Nat \ {0}
      /\ w # <<>> /\ w[Len(below)] = d
      /\ \A k \in 1..Len(below) - 1 : w[k] = below[k]
  BY SetTop, Zenon
<1>2. QED BY <1>1

(* The value of the top frame is returned. *)
LEMMA ReturnExact ==
  ASSUME FilesOK, StackOK(stack), stack # <<>>, StackOK(stack'), NEW V, Follows(V),
         NEW q, Exact(V, stack, q, result), NEW v, Return(v),
         IF Top.fn = "expand" THEN v = V[Target(Top.c, Top.s)] ELSE ValueExact(V, Top.call, v)
  PROVE  Exact(V, stack', q, result')
<1> DEFINE below == Front(stack)  n == Len(below)
<1>1. /\ StackOK(below) /\ Len(stack) \in Nat \ {0} /\ n = Len(stack) - 1
      /\ \A k \in 1..Len(stack) - 1 : below[k] = stack[k]
      /\ below # <<>> => Len(stack) > 1 /\ Waiting(below[n])
  BY PopFrame
<1>2. stack[1].call = q /\ StackExact(V, stack) /\ Top = stack[Len(stack)]
  BY TopFrame DEF Exact
<1>3. CASE below = <<>>
  <2>1. stack' = <<>> /\ result' = v /\ Len(stack) = 1 BY <1>1, <1>3 DEF Return
  <2>2. 1 \in 1..Len(stack) /\ ~(1 > 1) BY <2>1
  <2>3. Top.fn # "expand" /\ Top.call = q BY <1>2, <2>1, <2>2 DEF StackOK, Alternates
  <2>4. ValueExact(V, q, v) BY <2>3
  <2>5. QED BY <2>1, <2>4 DEF Exact
<1>4. CASE below # <<>>
  <2> DEFINE f == below[n]  d == Collect(f, v)
  <2>1. stack' = [below EXCEPT ![n] = d] BY <1>4 DEF Return
  <2>2. n \in Nat \ {0} /\ FrameOK(f) /\ Waiting(f) /\ f = stack[n] /\ n \in 1..Len(stack)
        /\ n + 1 = Len(stack) /\ n \in 1..Len(stack) - 1 /\ n + 1 \in 1..Len(stack)
    BY <1>1, <1>4 DEF StackOK
  <2>3. Below(V, f, Top) BY <1>2, <2>2 DEF StackExact
  <2>4. Top.fn = "expand" <=> f.fn # "expand"
    <3>1. stack[n + 1].fn = "expand" <=> n + 1 > 1 /\ stack[(n + 1) - 1].fn # "expand"
      BY <2>2 DEF StackOK, Alternates
    <3>2. n + 1 > 1 /\ (n + 1) - 1 = n BY <2>2
    <3>3. QED BY <1>2, <2>2, <3>1, <3>2
  <2>5. IF f.fn = "expand" THEN ValueExact(V, Top.call, v) ELSE v = V[Target(Top.c, Top.s)]
    BY <2>4
  <2>6. OnTop(V, d) /\ Same(f, d) BY <2>2, <2>3, <2>5, CollectExact
  <2>7. FrameOK(d) /\ d.fn = f.fn BY <2>2, CollectFrame
  <2> HIDE DEF d, f, n, below
  <2>8. /\ Len(stack') = n /\ stack'[n] = d /\ stack' # <<>>
        /\ \A k \in 1..n - 1 : stack'[k] = below[k]
    <3>1. PICK m, e, new : m = n /\ e = d /\ new = stack' OBVIOUS
    <3>2. /\ StackOK(below) /\ below # <<>> /\ m = Len(below) /\ FrameOK(e)
          /\ e.fn = below[Len(below)].fn
          /\ new = [below EXCEPT ![m] = e]
      BY <1>1, <1>4, <2>1, <2>7, <3>1 DEF n, f
    <3>3. Len(new) = m /\ new[m] = e /\ new # <<>> /\ \A k \in 1..m - 1 : new[k] = below[k]
      BY <3>2, ReturnShape
    <3>4. QED BY <3>1, <3>3
  <2>9. \A k \in 1..n - 1 : stack'[k] = stack[k]
    <3>1. \A k \in 1..n - 1 : k \in 1..Len(stack) - 1 BY <1>1, <2>2 DEF n
    <3>2. QED BY <1>1, <2>8, <3>1
  <2>10. Same(stack[n], stack'[n]) /\ OnTop(V, stack'[n]) BY <2>2, <2>6, <2>8
  <2>11. StackExact(V, stack') /\ stack'[1].call = stack[1].call
    <3>1. Len(stack') = n /\ Len(stack') # n + 1 BY <2>2, <2>8
    <3>2. QED BY <1>2, <2>2, <2>9, <2>10, <3>1, StackGoesOn
  <2>12. QED BY <1>2, <2>8, <2>11 DEF Exact
<1>5. QED BY <1>3, <1>4

(* The top frame goes on, by itself or with another above it. *)
LEMMA TopExact ==
  ASSUME StackOK(stack), stack # <<>>, StackOK(stack'), NEW V, NEW q, Exact(V, stack, q, result),
         NEW f, FrameOK(f), Same(Top, f), stack' = AtTop(f), OnTop(V, f)
  PROVE  Exact(V, stack', q, result')
<1>1. Top = stack[Len(stack)] /\ Len(stack) \in Nat \ {0} BY TopFrame
<1>2. f.fn = stack[Len(stack)].fn BY <1>1 DEF Same
<1>3. LET new == [stack EXCEPT ![Len(stack)] = f] IN
      /\ StackOK(new) /\ Len(new) = Len(stack) /\ Len(stack) \in Nat \ {0}
      /\ new # <<>> /\ new[Len(stack)] = f
      /\ \A k \in 1..Len(stack) - 1 : new[k] = stack[k]
  BY <1>2, SetTop, Zenon
<1>4. /\ Len(stack') = Len(stack) /\ stack' # <<>> /\ stack'[Len(stack)] = f
      /\ \A k \in 1..Len(stack) - 1 : stack'[k] = stack[k]
  BY <1>3 DEF AtTop
<1>5. stack[1].call = q /\ StackExact(V, stack) BY DEF Exact
<1>6. Len(stack) \in 1..Len(stack) /\ Len(stack') # Len(stack) + 1 BY <1>1, <1>4
<1>7. Same(stack[Len(stack)], stack'[Len(stack)]) /\ OnTop(V, stack'[Len(stack)]) BY <1>1, <1>4
<1>8. StackExact(V, stack') /\ stack'[1].call = stack[1].call
  BY <1>4, <1>5, <1>6, <1>7, StackGoesOn
<1>9. QED BY <1>4, <1>5, <1>8 DEF Exact

LEMMA PushExact ==
  ASSUME StackOK(stack), stack # <<>>, StackOK(stack'), NEW V, NEW q, Exact(V, stack, q, result),
         NEW f, FrameOK(f), Same(Top, f), Waiting(f), NEW g, stack' = Append(AtTop(f), g),
         Below(V, f, g), OnTop(V, g)
  PROVE  Exact(V, stack', q, result')
<1>1. Top = stack[Len(stack)] /\ Len(stack) \in Nat \ {0} BY TopFrame
<1>2. f.fn = stack[Len(stack)].fn BY <1>1 DEF Same
<1>3. PICK st : st = AtTop(f) OBVIOUS
<1>4. /\ StackOK(st) /\ Len(st) = Len(stack) /\ st # <<>> /\ st[Len(stack)] = f
      /\ \A k \in 1..Len(stack) - 1 : st[k] = stack[k]
  <2>1. LET new == [stack EXCEPT ![Len(stack)] = f] IN
        /\ StackOK(new) /\ Len(new) = Len(stack) /\ Len(stack) \in Nat \ {0}
        /\ new # <<>> /\ new[Len(stack)] = f
        /\ \A k \in 1..Len(stack) - 1 : new[k] = stack[k]
    BY <1>2, SetTop, Zenon
  <2>2. QED BY <1>3, <2>1 DEF AtTop
<1>5. PICK F : st \in Seq(F) BY <1>4 DEF StackOK, IsSeq
<1>6. /\ Len(Append(st, g)) = Len(st) + 1 /\ Append(st, g)[Len(st) + 1] = g
      /\ \A k \in 1..Len(st) : Append(st, g)[k] = st[k]
  BY <1>5
<1>7. stack' = Append(st, g) BY <1>3
<1> DEFINE n == Len(stack)
<1>8. /\ Len(stack') = n + 1 /\ stack'[n + 1] = g /\ stack'[n] = f
      /\ \A k \in 1..n - 1 : stack'[k] = stack[k]
      /\ n \in 1..n /\ n + 1 # n /\ stack' # <<>>
  <2>1. n \in 1..Len(st) BY <1>1, <1>4
  <2>2. \A k \in 1..n - 1 : k \in 1..Len(st) BY <1>1, <1>4
  <2>3. n + 1 # n /\ n + 1 # 0 BY <1>1
  <2>4. Len(<<>>) = 0 OBVIOUS
  <2>5. QED BY <1>4, <1>6, <1>7, <2>1, <2>2, <2>3, <2>4
<1>9. stack[1].call = q /\ StackExact(V, stack) BY DEF Exact
<1>10. Same(stack[n], stack'[n]) BY <1>1, <1>8
<1>11. StackExact(V, stack') /\ stack'[1].call = stack[1].call
  <2>1. Len(stack') = n \/ Len(stack') = n + 1 BY <1>8
  <2>2. Len(stack') # n BY <1>8
  <2>3. Below(V, stack'[n], stack'[n + 1]) /\ OnTop(V, stack'[n + 1]) BY <1>8
  <2>4. n \in 1..Len(stack) BY <1>8
  <2>5. PICK m, new : m = n /\ new = stack' OBVIOUS
  <2> HIDE DEF n
  <2>6. /\ m \in 1..Len(stack) /\ StackOK(new) /\ Len(new) = m + 1 /\ Len(new) # m
        /\ \A k \in 1..m - 1 : new[k] = stack[k]
        /\ Same(stack[m], new[m]) /\ Below(V, new[m], new[m + 1]) /\ OnTop(V, new[m + 1])
    BY <1>8, <1>10, <2>2, <2>3, <2>4, <2>5
  <2>7. StackExact(V, new) /\ new[1].call = stack[1].call BY <1>9, <2>6, StackGoesOn, Zenon
  <2>8. QED BY <2>5, <2>7
<1>12. QED BY <1>8, <1>9, <1>11 DEF Exact

(***************************************************************************)
(* The steps.                                                              *)
(***************************************************************************)

(* What was looked up is evaluated, or returned when it has no text. *)
LEMMA LookupExact ==
  ASSUME FilesOK, StackOK(stack), stack # <<>>, StackOK(stack'), NEW V, Follows(V), AllOrderly,
         NEW q, Exact(V, stack, q, result), Top.fn = "expand",
         NEW kinds, Lookup(Sections(Top.c), kinds)
  PROVE  Exact(V, stack', q, result')
<1> DEFINE t == Target(Top.c, Top.s)
           S == Sections(Top.c)
           text == IF Top.s \in DOMAIN S THEN S[Top.s] ELSE [names |-> {}, calls |-> {}]
           f == [Top EXCEPT !.pc = "eval", !.todo = text.calls, !.acc = text.names]
<1>1. FrameOK(Top) /\ Top = stack[Len(stack)] /\ Top.c \in Cluster BY TopFrame
<1>2. t \in AllTargets BY <1>1 DEF Exact, StackExact, OnTop, TextExact
<1>3. t.c = Top.c /\ t.s = Top.s /\ V[t] = Follow(t, V) BY <1>2, TargetIs DEF Follows
<1>4. \/ Return({}) /\ (Top.s \notin DOMAIN S \/ text = BadText)
      \/ /\ Top.s \in DOMAIN S \/ Top.s = "CLUSTER"
         /\ text # BadText /\ stack' = AtTop(f)
  BY DEF Lookup
<1>5. CASE Return({}) /\ (Top.s \notin DOMAIN S \/ text = BadText)
  <2>1. V[t] = {} BY <1>3, <1>5 DEF Follow
  <2>2. QED BY <1>5, <2>1, ReturnExact
<1>6. CASE text # BadText /\ stack' = AtTop(f)
  <2>1. V[t] = text.names \union UNION {CallValue(p, V) : p \in text.calls}
    <3>1. CASE Top.s \in DOMAIN S BY <1>3, <1>6, <3>1 DEF Follow
    <3>2. CASE Top.s \notin DOMAIN S
      <4>1. V[t] = {} BY <1>3, <3>2 DEF Follow
      <4>2. text.names = {} /\ text.calls = {} BY <3>2
      <4>3. QED BY <4>1, <4>2
    <3>3. QED BY <3>1, <3>2
  <2>2. \A p \in text.calls : CallOK(p) /\ p.fn # "get_cluster"
    <3>1. CASE Top.s \in DOMAIN S
      BY <1>1, <1>6, <3>1, SectionsAreOK DEF SectionsOK, AllOrderly, Orderly
    <3>2. CASE Top.s \notin DOMAIN S BY <3>2
    <3>3. QED BY <3>1, <3>2
  <2> HIDE DEF text
  <2>3. /\ FrameOK(f) /\ f.fn = "expand" /\ f.c = Top.c /\ f.s = Top.s /\ f.pc = "eval"
        /\ f.todo = text.calls /\ f.acc = text.names
    BY <1>1, <2>2 DEF FrameOK
  <2> HIDE DEF f
  <2>4. OnTop(V, f) BY <1>2, <2>1, <2>2, <2>3 DEF OnTop, TextExact
  <2>5. Same(Top, f) BY <2>3 DEF Same
  <2>6. QED BY <1>6, <2>3, <2>4, <2>5, TopExact
<1>7. QED BY <1>4, <1>5, <1>6

(* A loop that begins has heard of nothing. *)
LEMMA EnterExact ==
  ASSUME NEW V, NEW q, CallOK(q), NEW f,
         \E on : f = [fn |-> q.fn, call |-> q, todo |-> Targets(q), cur |-> Target("none", "none"),
                      listing |-> Lists(q),
                      acc |-> IF q.fn = "allclusters" THEN all_clusters ELSE {}, was_enabled |-> on]
  PROVE  OnTop(V, f)
<1>1. /\ f.fn = q.fn /\ f.call = q /\ f.todo = Targets(q) /\ f.listing = Lists(q)
      /\ f.acc = Base(q)
  BY DEF Base
<1>2. Targets(q) \subseteq AllTargets /\ (Lists(q) => Targets(q) = {KeysOf(q)}) BY TargetsIn
<1>3. q.fn # "expand" BY CallTargets
<1>4. CASE Lists(q)
  <2>1. Base(q) = {} BY <1>4 DEF Base, Lists
  <2>2. QED BY <1>1, <1>2, <1>3, <1>4, <2>1 DEF OnTop, LoopExact
<1>5. CASE ~Lists(q)
  <2>1. Goals(q, V) = Targets(q) BY <1>5 DEF Goals
  <2>2. f.acc \union Gains(q, V, Targets(q)) = Whole(q, V) BY <1>1, <2>1 DEF Whole
  <2>3. CASE q.fn # "get_cluster"
    BY <1>1, <1>2, <1>3, <1>5, <2>2, <2>3 DEF OnTop, LoopExact
  <2>4. CASE q.fn = "get_cluster"
    <3>1. \A t : Gain(q, t, V[t]) = V[t] \X {t.c} BY <2>4 DEF Gain
    <3>2. Base(q) = {} BY <2>4 DEF Base
    <3>3. ASSUME NEW p \in Whole(q, V) PROVE \E t \in Targets(q) : p[1] \in V[t]
      <4>1. PICK t \in Targets(q) : p \in Gain(q, t, V[t]) BY <2>1, <3>2, <3>3 DEF Whole, Gains
      <4>2. p \in V[t] \X {t.c} BY <3>1, <4>1
      <4>3. QED BY <4>2
    <3>4. f.acc = {} /\ f.todo \subseteq Goals(q, V) BY <1>1, <2>1, <3>2
    <3>5. LoopExact(V, f, f.todo) BY <1>1, <1>2, <1>5, <2>4, <3>3, <3>4 DEF LoopExact
    <3>6. QED BY <1>1, <1>3, <3>5 DEF OnTop
  <2>5. QED BY <2>3, <2>4
<1>6. QED BY <1>4, <1>5

(* What a loop that has heard of everything answers. *)
LEMMA WholeAnswers ==
  ASSUME NEW V, NEW q, CallOK(q)
  PROVE  /\ ~ByNode(q.fn) => Whole(q, V) = CallValue(q, V)
         /\ ByNode(q.fn) => {p[2] : p \in {p \in Whole(q, V) : p[1] \in q.es}} = CallValue(q, V)
<1>0. q.fn \in Functions BY DEF CallOK
<1>1. CASE q.fn \in {"cluster", "group"}
  <2>1. Whole(q, V) = UNION {V[t] : t \in Targets(q)}
    BY <1>1 DEF Whole, Base, Goals, Lists, Gains, Gain
  <2>2. QED BY <1>1, <2>1 DEF ByNode, CallValue
<1>2. CASE q.fn = "allclusters"
  <2>1. Targets(q) = {} BY <1>2 DEF Targets
  <2>2. Whole(q, V) = all_clusters BY <1>2, <2>1 DEF Whole, Base, Goals, Lists, Gains
  <2>3. QED BY <1>2, <2>2 DEF ByNode, CallValue
<1>3. CASE q.fn = "has"
  <2>1. Targets(q) = {Target(c, q.tag) : c \in all_clusters} BY <1>3 DEF Targets
  <2>2. Whole(q, V) = UNION {Gain(q, t, V[t]) : t \in Targets(q)}
    BY <1>3 DEF Whole, Base, Goals, Lists, Gains
  <2>3. \A t : Gain(q, t, V[t]) = {c \in {t.c} : q.value \in V[t]} BY <1>3 DEF Gain
  <2>4. CallValue(q, V) = {c \in all_clusters : q.value \in V[Target(c, q.tag)]}
    BY <1>3 DEF CallValue
  <2>5. Whole(q, V) = CallValue(q, V)
    <3>1. \A c : Gain(q, Target(c, q.tag), V[Target(c, q.tag)]) = {x \in {c} : q.value \in V[Target(c, q.tag)]}
      BY <2>3, TargetIs
    <3>2. Whole(q, V) = UNION {Gain(q, Target(c, q.tag), V[Target(c, q.tag)]) : c \in all_clusters}
      BY <2>1, <2>2
    <3>3. QED BY <2>4, <3>1, <3>2
  <2>6. QED BY <1>3, <2>5 DEF ByNode
<1>4. CASE q.fn = "mem"
  <2> DEFINE keys == V[Target(q.c, "KEYS")]
  <2>1. Goals(q, V) = {Target(q.c, k) : k \in keys}
    BY <1>4, TargetIs DEF Goals, Lists, KeysOf
  <2>2. Whole(q, V) = UNION {Gain(q, t, V[t]) : t \in Goals(q, V)}
    BY <1>4 DEF Whole, Base, Gains
  <2>3. \A t : Gain(q, t, V[t]) = {s \in {t.s} : V[t] \intersect q.es # {}} BY <1>4 DEF Gain
  <2>4. CallValue(q, V) = {s \in keys : V[Target(q.c, s)] \intersect q.es # {}}
    BY <1>4 DEF CallValue
  <2> HIDE DEF keys
  <2>5. Whole(q, V) = CallValue(q, V)
    <3>1. \A k : Gain(q, Target(q.c, k), V[Target(q.c, k)]) = {x \in {k} : V[Target(q.c, k)] \intersect q.es # {}}
      BY <2>3, TargetIs
    <3>2. Whole(q, V) = UNION {Gain(q, Target(q.c, k), V[Target(q.c, k)]) : k \in keys}
      BY <2>1, <2>2
    <3>3. QED BY <2>4, <3>1, <3>2
  <2>6. QED BY <1>4, <2>5 DEF ByNode
<1>5. CASE q.fn \in {"clusters", "get_cluster"}
  <2>1. Targets(q) = {Target(c, "CLUSTER") : c \in all_clusters} BY <1>5 DEF Targets
  <2>2. Whole(q, V) = UNION {Gain(q, t, V[t]) : t \in Targets(q)}
    BY <1>5 DEF Whole, Base, Goals, Lists, Gains
  <2>3. \A t : Gain(q, t, V[t]) = V[t] \X {t.c} BY <1>5 DEF Gain
  <2>4. CallValue(q, V) = {c \in all_clusters : V[Target(c, "CLUSTER")] \intersect q.es # {}}
    BY <1>5 DEF CallValue
  <2>5. \A e, c : <<e, c>> \in Whole(q, V) <=> c \in all_clusters /\ e \in V[Target(c, "CLUSTER")]
    BY <2>1, <2>2, <2>3, TargetIs
  <2>6. \A p \in Whole(q, V) : p = <<p[1], p[2]>>
    BY <2>2, <2>3
  <2>7. {p[2] : p \in {p \in Whole(q, V) : p[1] \in q.es}} = CallValue(q, V)
    <3>1. ASSUME NEW p \in Whole(q, V), p[1] \in q.es PROVE p[2] \in CallValue(q, V)
      BY <2>4, <2>5, <2>6, <3>1
    <3>2. ASSUME NEW c \in CallValue(q, V)
          PROVE  \E p \in Whole(q, V) : p[1] \in q.es /\ p[2] = c
      <4>1. PICK e : e \in V[Target(c, "CLUSTER")] /\ e \in q.es BY <2>4
      <4>2. <<e, c>> \in Whole(q, V) BY <2>4, <2>5, <4>1
      <4>3. <<e, c>>[1] = e /\ <<e, c>>[2] = c OBVIOUS
      <4>4. QED BY <4>1, <4>2, <4>3
    <3>3. QED BY <3>1, <3>2
  <2>8. QED BY <1>5, <2>7 DEF ByNode
<1>6. CASE q.fn = "get_groups"
  <2> DEFINE keys == V[Target("GROUPS", "KEYS")]
  <2>1. Goals(q, V) = {Target("GROUPS", k) : k \in keys}
    BY <1>6, TargetIs DEF Goals, Lists, KeysOf
  <2>2. Whole(q, V) = UNION {Gain(q, t, V[t]) : t \in Goals(q, V)}
    BY <1>6 DEF Whole, Base, Gains
  <2>3. \A t : Gain(q, t, V[t]) = V[t] \X {t.s} BY <1>6 DEF Gain
  <2>4. CallValue(q, V) = {g \in keys : V[Target("GROUPS", g)] \intersect q.es # {}}
    BY <1>6 DEF CallValue
  <2> HIDE DEF keys
  <2>5. \A e, g : <<e, g>> \in Whole(q, V) <=> g \in keys /\ e \in V[Target("GROUPS", g)]
    BY <2>1, <2>2, <2>3, TargetIs
  <2>6. \A p \in Whole(q, V) : p = <<p[1], p[2]>>
    BY <2>2, <2>3
  <2>7. {p[2] : p \in {p \in Whole(q, V) : p[1] \in q.es}} = CallValue(q, V)
    <3>1. ASSUME NEW p \in Whole(q, V), p[1] \in q.es PROVE p[2] \in CallValue(q, V)
      BY <2>4, <2>5, <2>6, <3>1
    <3>2. ASSUME NEW g \in CallValue(q, V)
          PROVE  \E p \in Whole(q, V) : p[1] \in q.es /\ p[2] = g
      <4>1. PICK e : e \in V[Target("GROUPS", g)] /\ e \in q.es BY <2>4
      <4>2. <<e, g>> \in Whole(q, V) BY <2>4, <2>5, <4>1
      <4>3. <<e, g>>[1] = e /\ <<e, g>>[2] = g OBVIOUS
      <4>4. QED BY <4>1, <4>2, <4>3
    <3>3. QED BY <3>1, <3>2
  <2>8. QED BY <1>6, <2>7 DEF ByNode
<1>7. QED BY <1>0, <1>1, <1>2, <1>3, <1>4, <1>5, <1>6 DEF Functions

LEMMA LoopDoneExact ==
  ASSUME IInv, StackOK(stack'), NEW V, Follows(V), NEW q, Exact(V, stack, q, result), LoopDone
  PROVE  Exact(V, stack', q, result')
<1>1. /\ stack # <<>> /\ Top.fn # "expand" /\ Top.todo = {} /\ Answer /\ StackOK(stack) /\ FilesOK
      /\ FrameOK(Top) /\ Top = stack[Len(stack)]
  BY TopFrame DEF IInv, LoopDone, InLoop
<1>2. CallOK(Top.call) /\ Top.fn = Top.call.fn BY <1>1 DEF FrameOK
<1>3. LoopExact(V, Top, {}) /\ ~Top.listing
  BY <1>1 DEF Exact, StackExact, OnTop, LoopExact
<1> DEFINE call == Top.call  acc == Top.acc
           picked == {p[2] : p \in {p \in acc : p[1] \in call.es}}
           all == {p[2] : p \in {p \in Whole(call, V) : p[1] \in call.es}}
<1>4. CASE Top.fn # "get_cluster"
  <2>1. acc = Whole(call, V)
    <3>1. acc \union Gains(call, V, {}) = Whole(call, V) BY <1>3, <1>4 DEF LoopExact
    <3>2. QED BY <3>1 DEF Gains
  <2>2. CASE ByNode(Top.fn)
    <3>1. Return({p[2] : p \in {p \in acc : p[1] \in call.es}}) BY <1>1, <2>2 DEF Answer
    <3>2. picked = CallValue(call, V) BY <1>2, <2>1, <2>2, WholeAnswers
    <3>3. Return(picked) /\ ValueExact(V, call, picked) BY <1>2, <1>4, <3>1, <3>2 DEF ValueExact
    <3>4. QED BY <1>1, <3>3, ReturnExact
  <2>3. CASE ~ByNode(Top.fn)
    <3>1. Return(acc) BY <1>1, <2>3 DEF Answer
    <3>2. acc = CallValue(call, V) BY <1>2, <2>1, <2>3, WholeAnswers
    <3>3. ValueExact(V, call, acc) BY <1>2, <1>4, <3>2 DEF ValueExact
    <3>4. QED BY <1>1, <3>1, <3>3, ReturnExact
  <2>4. QED BY <2>2, <2>3
<1>5. CASE Top.fn = "get_cluster"
  <2>1. /\ acc \subseteq Whole(call, V)
        /\ \A p \in Whole(call, V) : \E a \in acc : a[1] = p[1]
    BY <1>3, <1>5 DEF LoopExact
  <2>2. all = CallValue(call, V) BY <1>2, <1>5, WholeAnswers DEF ByNode
  <2>3. Return(picked) BY <1>1, <1>5 DEF Answer, ByNode
  <2>4. picked \subseteq all BY <2>1
  <2>5. ASSUME picked = {} PROVE all = {}
    <3>1. SUFFICES ASSUME NEW p \in Whole(call, V), p[1] \in call.es PROVE FALSE OBVIOUS
    <3>2. PICK a \in acc : a[1] = p[1] BY <2>1
    <3>3. a[2] \in picked BY <3>1, <3>2
    <3>4. QED BY <2>5, <3>3
  <2> HIDE DEF picked, all
  <2>6. ValueExact(V, call, picked) BY <1>2, <1>5, <2>2, <2>4, <2>5 DEF ValueExact
  <2>7. QED BY <1>1, <2>3, <2>6, ReturnExact
<1>6. QED BY <1>4, <1>5

LEMMA EvalCallExact ==
  ASSUME IInv, StackOK(stack'), NEW V, NEW q, Exact(V, stack, q, result), EvalCall
  PROVE  Exact(V, stack', q, result')
<1>1. PICK p \in Top.todo : Enter(p, AtTop([Top EXCEPT !.todo = @ \ {p}]), warn_enabled)
  BY DEF EvalCall
<1>2. /\ stack # <<>> /\ Top.fn = "expand" /\ Top.pc = "eval" /\ FrameOK(Top) /\ StackOK(stack)
      /\ Top = stack[Len(stack)]
  BY TopFrame DEF IInv, EvalCall, Expanding
<1>3. PICK f : f = [Top EXCEPT !.todo = Top.todo \ {p}] OBVIOUS
<1>4. /\ FrameOK(f) /\ Waiting(f) /\ Same(Top, f) /\ CallOK(p)
      /\ f.fn = "expand" /\ f.c = Top.c /\ f.s = Top.s /\ f.pc = "eval" /\ f.acc = Top.acc
      /\ f.todo = Top.todo \ {p}
  BY <1>2, <1>3 DEF FrameOK, Waiting, Same
<1>5. PICK g : g = [fn |-> p.fn, call |-> p, todo |-> Targets(p), cur |-> Target("none", "none"),
                    listing |-> Lists(p),
                    acc |-> IF p.fn = "allclusters" THEN all_clusters ELSE {},
                    was_enabled |-> warn_enabled]
  OBVIOUS
<1>6. OnTop(V, g) BY <1>4, <1>5, EnterExact
<1>7. stack' = Append(AtTop(f), g) BY <1>1, <1>3, <1>5 DEF Enter
<1>8. Below(V, f, g)
  <2>1. TextExact(V, Top, Top.todo) BY <1>2 DEF Exact, StackExact, OnTop
  <2>2. g.call = p BY <1>5
  <2>3. f.todo \union {g.call} = Top.todo BY <1>4, <2>2
  <2>4. QED BY <1>2, <1>4, <2>1, <2>3 DEF Below, TextExact
<1>9. QED BY <1>2, <1>4, <1>6, <1>7, <1>8, PushExact

LEMMA NextTargetExact ==
  ASSUME IInv, StackOK(stack'), NEW V, NEW q, Exact(V, stack, q, result), NextTarget
  PROVE  Exact(V, stack', q, result')
<1>1. PICK t \in Top.todo : Push(t, [Top EXCEPT !.todo = @ \ {t}]) BY DEF NextTarget
<1>2. /\ stack # <<>> /\ Top.fn # "expand" /\ FrameOK(Top) /\ StackOK(stack)
      /\ Top = stack[Len(stack)]
  BY TopFrame DEF IInv, NextTarget, InLoop
<1>3. PICK f, x : /\ f = [[Top EXCEPT !.todo = Top.todo \ {t}] EXCEPT !.cur = t]
                  /\ x = Expansion(t.c, t.s)
  OBVIOUS
<1>4. LoopExact(V, Top, Top.todo) BY <1>2 DEF Exact, StackExact, OnTop
<1>5. t \in AllTargets /\ Target(t.c, t.s) = t BY <1>4, TargetIs DEF LoopExact
<1>6. /\ FrameOK(f) /\ f.fn = Top.fn /\ f.call = Top.call /\ f.listing = Top.listing
      /\ f.acc = Top.acc /\ f.todo = Top.todo \ {t} /\ f.cur = t
  BY <1>2, <1>3 DEF FrameOK
<1>7. Waiting(f) /\ Same(Top, f) BY <1>2, <1>5, <1>6, TargetIs DEF Waiting, Same
<1>8. x.fn = "expand" /\ x.c = t.c /\ x.s = t.s /\ x.pc = "stat" BY <1>3 DEF Expansion
<1>9. OnTop(V, x) BY <1>5, <1>8 DEF OnTop, TextExact
<1>10. Below(V, f, x)
  <2>1. f.todo \union {f.cur} = Top.todo BY <1>6
  <2>2. LoopExact(V, f, Top.todo) BY <1>4, <1>6 DEF LoopExact
  <2>3. QED BY <1>2, <1>5, <1>6, <1>8, <2>1, <2>2 DEF Below
<1>11. stack' = Append(AtTop(f), x) BY <1>1, <1>3 DEF Push
<1>12. QED BY <1>2, <1>6, <1>7, <1>9, <1>10, <1>11, PushExact

LEMMA StepExact ==
  ASSUME IInv, StackOK(stack'), NEW V, Follows(V), AllOrderly,
         NEW q, Exact(V, stack, q, result),
         \A c \in Cluster : Exists(c) /\ Hit(c) => cache[c].sections = Sections(c),
         Step
  PROVE  Exact(V, stack', q, result')
<1>0. StackOK(stack) /\ FilesOK BY DEF IInv
<1>1. CASE StatFails
  <2>1. /\ stack # <<>> /\ Top.fn = "expand" /\ Top.c \in Cluster /\ Top = stack[Len(stack)]
        /\ ~Exists(Top.c) /\ Return({})
    BY <1>0, <1>1, TopFrame DEF StatFails, Expanding
  <2>2. Target(Top.c, Top.s) \in AllTargets BY <2>1 DEF Exact, StackExact, OnTop, TextExact
  <2>3. DOMAIN Sections(Top.c) = {} BY <2>1 DEF Exists, Sections, cluster_keys
  <2>4. V[Target(Top.c, Top.s)] = {} BY <2>2, <2>3, TargetIs DEF Follows, Follow
  <2>5. QED BY <1>0, <2>1, <2>4, ReturnExact
<1>2. CASE StatHit
  <2>1. /\ stack # <<>> /\ Top.fn = "expand" /\ Top.c \in Cluster /\ Exists(Top.c) /\ Hit(Top.c)
        /\ Lookup(cache[Top.c].sections, {})
    BY <1>0, <1>2, TopFrame DEF StatHit, Expanding
  <2>2. cache[Top.c].sections = Sections(Top.c) BY <2>1
  <2>3. Lookup(Sections(Top.c), {}) BY <2>1, <2>2
  <2>4. QED BY <1>0, <2>1, <2>3, LookupExact
<1>3. CASE StatMiss
  <2>1. /\ stack # <<>> /\ Top.fn = "expand" /\ FrameOK(Top) /\ Top = stack[Len(stack)]
        /\ stack' = AtTop([Top EXCEPT !.pc = "load", !.st_mtime = Current(Top.c).mtime])
    BY <1>0, <1>3, TopFrame DEF StatMiss, Expanding
  <2>2. PICK f : f = [Top EXCEPT !.pc = "load", !.st_mtime = Current(Top.c).mtime] OBVIOUS
  <2>3. /\ FrameOK(f) /\ f.fn = "expand" /\ f.c = Top.c /\ f.s = Top.s /\ f.pc = "load"
    BY <2>1, <2>2 DEF FrameOK
  <2>4. Target(Top.c, Top.s) \in AllTargets BY <2>1 DEF Exact, StackExact, OnTop, TextExact
  <2>5. OnTop(V, f) /\ Same(Top, f) BY <2>1, <2>3, <2>4 DEF OnTop, TextExact, Same
  <2>6. QED BY <1>0, <2>1, <2>2, <2>3, <2>5, TopExact
<1>4. CASE Load
  <2>1. /\ stack # <<>> /\ Top.fn = "expand" /\ Lookup(Sections(Top.c), LoadWarnings(Top.c))
    BY <1>4 DEF Load, Expanding
  <2>2. QED BY <1>0, <2>1, LookupExact
<1>5. CASE EvalCall BY <1>5, EvalCallExact
<1>6. CASE EvalDone
  <2>1. /\ stack # <<>> /\ Top.fn = "expand" /\ Top.pc = "eval" /\ Top.todo = {} /\ Return(Top.acc)
        /\ Top = stack[Len(stack)]
    BY <1>0, <1>6, TopFrame DEF EvalDone, Expanding
  <2>2. TextExact(V, Top, {}) BY <2>1 DEF Exact, StackExact, OnTop
  <2>3. Top.acc = V[Target(Top.c, Top.s)] BY <2>1, <2>2 DEF TextExact
  <2>4. QED BY <1>0, <2>1, <2>3, ReturnExact
<1>7. CASE NextTarget BY <1>7, NextTargetExact
<1>8. CASE LoopDone BY <1>8, LoopDoneExact
<1>9. QED BY <1>1, <1>2, <1>3, <1>4, <1>5, <1>6, <1>7, <1>8 DEF Step

LEMMA AskExact ==
  ASSUME NEW V, NEW q \in Queries, Ask(q)
  PROVE  Exact(V, stack', q, result')
<1>1. CallOK(q) BY CallsAssumption DEF CallsAssumption
<1>2. PICK f : f = [fn |-> q.fn, call |-> q, todo |-> Targets(q), cur |-> Target("none", "none"),
                    listing |-> Lists(q),
                    acc |-> IF q.fn = "allclusters" THEN all_clusters ELSE {}, was_enabled |-> TRUE]
  OBVIOUS
<1>3. stack' = Append(<<>>, f) BY <1>2 DEF Ask, Enter
<1>4. Len(stack') = 1 /\ stack'[1] = f /\ stack' # <<>> /\ f.call = q BY <1>2, <1>3
<1>5. OnTop(V, f) BY <1>1, <1>2, EnterExact
<1>6. StackExact(V, stack')
  <2>1. 1..Len(stack') - 1 = {} BY <1>4
  <2>2. QED BY <1>4, <1>5, <2>1 DEF StackExact
<1>7. QED BY <1>4, <1>6 DEF Exact

(***************************************************************************)
(* From state to state, the files being the same.                          *)
(***************************************************************************)
LEMMA SameFiles ==
  ASSUME UNCHANGED files
  PROVE  /\ \A c : Sections(c)' = Sections(c)
         /\ all_clusters' = all_clusters
         /\ \A c : Distinguished(c)' <=> Distinguished(c)
         /\ AllOrderly' <=> AllOrderly
<1>1. versions' = versions /\ readable' = readable /\ dark' = dark BY DEF files
<1>2. \A c : Current(c)' = Current(c) BY <1>1 DEF Current
<1>3. \A c : Sections(c)' = Sections(c) BY <1>1, <1>2 DEF Sections
<1>4. all_clusters' = all_clusters BY <1>1, <1>2 DEF all_clusters, Exists
<1>5. \A c : Distinguished(c)' <=> Distinguished(c) BY <1>1 DEF Distinguished
<1>6. AllOrderly' <=> AllOrderly BY <1>3 DEF AllOrderly, Orderly
<1>7. QED BY <1>3, <1>4, <1>5, <1>6

LEMMA SameValues ==
  ASSUME UNCHANGED files, NEW V
  PROVE  /\ \A q : Targets(q)' = Targets(q)
         /\ \A q : CallValue(q, V)' = CallValue(q, V)
         /\ \A q : Whole(q, V)' = Whole(q, V)
         /\ \A q : Goals(q, V)' = Goals(q, V)
         /\ Follows(V)' <=> Follows(V)
<1>1. all_clusters' = all_clusters /\ \A c : Sections(c)' = Sections(c) BY SameFiles
<1>2. \A q : Targets(q)' = Targets(q) BY <1>1 DEF Targets
<1>3. \A q : CallValue(q, V)' = CallValue(q, V) BY <1>1, <1>2 DEF CallValue
<1>4. \A q : Goals(q, V)' = Goals(q, V) BY <1>2 DEF Goals
<1>5. \A q : Whole(q, V)' = Whole(q, V) BY <1>1, <1>4 DEF Whole, Base
<1>6. \A t : Follow(t, V)' = Follow(t, V) BY <1>1, <1>3 DEF Follow
<1>7. Follows(V)' <=> Follows(V) BY <1>6 DEF Follows
<1>8. QED BY <1>2, <1>3, <1>4, <1>5, <1>7

LEMMA SameExact ==
  ASSUME UNCHANGED files, NEW V, NEW st, NEW q, NEW r, Exact(V, st, q, r)
  PROVE  Exact(V, st, q, r)'
<1>1. /\ \A p : CallValue(p, V)' = CallValue(p, V)
      /\ \A p : Whole(p, V)' = Whole(p, V)
      /\ \A p : Goals(p, V)' = Goals(p, V)
  BY SameValues
<1>2. ValueExact(V, q, r) => ValueExact(V, q, r)' BY <1>1 DEF ValueExact
<1>3. \A f, P : LoopExact(V, f, P) => LoopExact(V, f, P)' BY <1>1 DEF LoopExact
<1>4. \A f, Q : TextExact(V, f, Q) => TextExact(V, f, Q)' BY <1>1 DEF TextExact
<1>5. \A f, g : Below(V, f, g) => Below(V, f, g)' BY <1>3, <1>4 DEF Below
<1>6. \A f : OnTop(V, f) => OnTop(V, f)' BY <1>3, <1>4 DEF OnTop
<1>7. StackExact(V, st) => StackExact(V, st)' BY <1>5, <1>6 DEF StackExact
<1>8. QED BY <1>2, <1>7 DEF Exact

(***************************************************************************)
(* The invariant is inductive.                                             *)
(***************************************************************************)
LEMMA EmptyUnregistered ==
  ASSUME IInv, \A c \in Cluster : ~registered => cache[c] = NoEntry, [Next]_vars, ~registered'
  PROVE  \A c \in Cluster : cache'[c] = NoEntry
<1>1. CASE Load
  <2>1. ~registered /\ cache' = cache BY <1>1 DEF Load
  <2>2. QED BY <2>1
<1>2. CASE libcrange_clear_caches
  BY <1>2 DEF libcrange_clear_caches
<1>3. CASE StatFails \/ StatHit \/ StatMiss
  <2>1. FindCache BY <1>3 DEF StatFails, StatHit, StatMiss
  <2>2. ~registered /\ cache' = cache BY <2>1 DEF FindCache
  <2>3. QED BY <2>2
<1>4. CASE EvalCall \/ EvalDone \/ NextTarget \/ LoopDone \/ World \/ (\E q \in Queries : Ask(q))
             \/ (\E want \in BOOLEAN : libcrange_want_caching(want)) \/ UNCHANGED vars
  <2>1. UNCHANGED <<cache, registered>>
    BY <1>4 DEF World, EvalCall, EvalDone, NextTarget, LoopDone, Ask, libcrange_want_caching,
                WriteFile, DeleteFile, Chmod, NewVersion, caching, vars
  <2>2. QED BY <2>1
<1>5. QED BY <1>1, <1>2, <1>3, <1>4 DEF Next, Step, Program

LEMMA ExactInit == Init => ExactInv
BY DEF Init, ExactInv, Settled

LEMMA ExactNext == IInv /\ IInv' /\ ExactInv /\ [Next]_vars => ExactInv'
<1> SUFFICES ASSUME IInv, IInv', ExactInv, [Next]_vars PROVE ExactInv' OBVIOUS
<1>1. \A c \in Cluster : ~registered' => cache'[c] = NoEntry
  BY EmptyUnregistered DEF ExactInv
<1>2. ASSUME NEW V, NEW st, NEW q, NEW r, Follows(V)', AllOrderly', Settled',
             st = stack', q = query', r = result'
      PROVE  Exact(V, st, q, r)'
  <2>1. steady' /\ ~World /\ ~libcrange_clear_caches
    BY <1>2 DEF Settled, World, WriteFile, DeleteFile, Chmod, NewVersion, Change,
                libcrange_clear_caches
  <2>2. UNCHANGED files
    BY <2>1 DEF Next, Step, Program, StatFails, StatHit, StatMiss, Load, EvalCall, EvalDone,
                NextTarget, LoopDone, Ask, libcrange_want_caching, vars, files
  <2>3. Follows(V) /\ AllOrderly /\ \A c : Distinguished(c)' <=> Distinguished(c)
    BY <1>2, <2>2, SameFiles, SameValues
  <2>4. SUFFICES Exact(V, st, q, r) BY <2>2, SameExact
  <2>5. StackOK(stack') BY DEF IInv
  <2>6. CASE \E p \in Queries : Ask(p)
    <3>1. PICK p \in Queries : Ask(p) BY <2>6
    <3>2. q = p BY <1>2, <3>1 DEF Ask
    <3>3. Exact(V, stack', p, result') BY <3>1, AskExact
    <3>4. QED BY <1>2, <3>2, <3>3
  <2>7. CASE Step
    <3>1. query' = query /\ steady' = steady /\ (registered => registered')
      <4>1. CASE StatFails \/ StatHit \/ StatMiss
        <5>1. FindCache /\ UNCHANGED <<query, steady>>
          BY <4>1 DEF StatFails, StatHit, StatMiss, request
        <5>2. QED BY <5>1 DEF FindCache
      <4>2. CASE Load \/ EvalCall \/ EvalDone \/ NextTarget \/ LoopDone
        <5>1. UNCHANGED <<query, steady, registered>>
          BY <4>2 DEF Load, EvalCall, EvalDone, NextTarget, LoopDone, request, caching
        <5>2. QED BY <5>1
      <4>3. QED BY <2>7, <4>1, <4>2 DEF Step
    <3>2. Settled BY <1>2, <2>3, <3>1 DEF Settled
    <3>3. Exact(V, stack, q, result) BY <1>2, <2>3, <3>1, <3>2 DEF ExactInv
    <3>4. \A c \in Cluster : Exists(c) /\ Hit(c) => cache[c].sections = Sections(c)
      <4>1. CacheCoherent BY InvariantImplies
      <4>2. QED BY <3>2, <4>1 DEF CacheCoherent, ExactInv, Hit, Settled
    <3>5. Exact(V, stack', q, result') BY <2>3, <2>5, <2>7, <3>3, <3>4, StepExact
    <3>6. QED BY <1>2, <3>5
  <2>8. CASE (\E want \in BOOLEAN : libcrange_want_caching(want)) \/ UNCHANGED vars
    <3>1. UNCHANGED <<stack, query, result, steady, registered>>
      BY <2>8 DEF libcrange_want_caching, vars, request, caching
    <3>2. Settled BY <1>2, <2>3, <3>1 DEF Settled
    <3>3. QED BY <1>2, <2>3, <3>1, <3>2 DEF ExactInv
  <2>9. QED BY <2>1, <2>6, <2>7, <2>8 DEF Next, Program
<1>3. QED BY <1>1, <1>2 DEF ExactInv

LEMMA ExactInvariance == Spec => []ExactInv
<1>1. Init => IInv /\ ExactInv BY InitInvariant, ExactInit
<1>2. IInv /\ ExactInv /\ [Next]_vars => (IInv /\ ExactInv)' BY NextInvariant, ExactNext
<1>3. QED BY <1>1, <1>2, PTL DEF Spec

(***************************************************************************)
(* Following the calls Depth deep follows them to the end.                 *)
(***************************************************************************)

(* All a target may ever contain. *)
Names == Cluster \union UNION {UNION {Sections(c)[s].names : s \in DOMAIN Sections(c)} : c \in Cluster}

LEMMA CallIn ==
  ASSUME NEW W \in [AllTargets -> SUBSET Names], NEW q, CallOK(q)
  PROVE  CallValue(q, W) \subseteq Names
<1>1. q.fn \in Functions /\ {"KEYS", "CLUSTER"} \subseteq Section
  BY SectionAssumption DEF CallOK, SectionAssumption
<1>2. CASE q.fn \in {"cluster", "group"}
  <2>1. CallValue(q, W) = UNION {W[t] : t \in Targets(q)} BY <1>2 DEF CallValue
  <2>2. \A t \in Targets(q) : W[t] \in SUBSET Names BY TargetsIn
  <2>3. QED BY <2>1, <2>2
<1>3. CASE q.fn \in {"has", "clusters", "get_cluster", "allclusters"}
  <2>1. CallValue(q, W) \subseteq all_clusters BY <1>3 DEF CallValue
  <2>2. QED BY <2>1 DEF all_clusters, Names
<1>4. CASE q.fn = "mem"
  <2>1. CallValue(q, W) \subseteq W[Target(q.c, "KEYS")] BY <1>4 DEF CallValue
  <2>2. Target(q.c, "KEYS") \in AllTargets BY <1>1, <1>4, TargetIs DEF CallOK
  <2>3. W[Target(q.c, "KEYS")] \in SUBSET Names BY <2>2
  <2>4. QED BY <2>1, <2>3
<1>5. CASE q.fn = "get_groups"
  <2>1. CallValue(q, W) \subseteq W[Target("GROUPS", "KEYS")] BY <1>5 DEF CallValue
  <2>2. Target("GROUPS", "KEYS") \in AllTargets BY <1>1, <1>5, TargetIs DEF CallOK
  <2>3. W[Target("GROUPS", "KEYS")] \in SUBSET Names BY <2>2
  <2>4. QED BY <2>1, <2>3
<1>6. QED BY <1>1, <1>2, <1>3, <1>4, <1>5 DEF Functions

LEMMA FollowIn ==
  ASSUME FilesOK, NEW W \in [AllTargets -> SUBSET Names], NEW t \in AllTargets
  PROVE  Follow(t, W) \subseteq Names
<1>1. t.c \in Cluster /\ SectionsOK(Sections(t.c)) BY TargetIs, SectionsAreOK
<1>2. CASE t.s \notin DOMAIN Sections(t.c) \/ Sections(t.c)[t.s] = BadText
  BY <1>2 DEF Follow
<1>3. CASE t.s \in DOMAIN Sections(t.c) /\ Sections(t.c)[t.s] # BadText
  <2> DEFINE text == Sections(t.c)[t.s]
  <2>1. Follow(t, W) = text.names \union UNION {CallValue(q, W) : q \in text.calls}
    BY <1>3 DEF Follow
  <2>2. \A q \in text.calls : CallValue(q, W) \subseteq Names
    BY <1>1, <1>3, CallIn DEF SectionsOK
  <2>3. text.names \subseteq Names BY <1>1, <1>3 DEF Names
  <2> HIDE DEF text
  <2>4. QED BY <2>1, <2>2, <2>3
<1>4. QED BY <1>2, <1>3

LEMMA ValueSteps ==
  ASSUME FilesOK
  PROVE  /\ \A t \in AllTargets : SectionValue[0][t] = {}
         /\ \A n \in Nat, t \in AllTargets :
              SectionValue[n + 1][t] = Follow(t, SectionValue[n])
<1> DEFINE S == [AllTargets -> SUBSET Names]
           base == [t \in AllTargets |-> {}]
           next(W) == [t \in AllTargets |-> Follow(t, W)]
           step == [p \in Nat \X S |-> next(p[2])]
           Def(f) == [depth \in Nat |->
                       [t \in AllTargets |-> IF depth = 0 THEN {} ELSE Follow(t, f[depth - 1])]]
<1>1. base \in S OBVIOUS
<1>2. \A W \in S : next(W) \in S BY FollowIn
<1>3. PICK f : IsRecursive(f, S, base, step)
  <2> HIDE DEF S, next, base
  <2>1. step \in [Nat \X S -> S] BY <1>2
  <2> HIDE DEF step
  <2>2. QED BY <1>1, <2>1, Recursion
<1>4. f[0] = base /\ \A n \in Nat : f[n] \in S /\ f[n + 1] = next(f[n])
  <2> HIDE DEF S, next, base
  <2>1. f \in [Nat -> S] /\ f[0] = base /\ \A n \in Nat : f[n + 1] = step[<<n, f[n]>>]
    BY <1>3 DEF IsRecursive
  <2>2. \A n \in Nat : <<n, f[n]>> \in Nat \X S BY <2>1
  <2>3. QED BY <2>1, <2>2
<1>5. f = Def(f)
  <2>1. ASSUME NEW d \in Nat
        PROVE  f[d] = [t \in AllTargets |-> IF d = 0 THEN {} ELSE Follow(t, f[d - 1])]
    <3>1. CASE d = 0 BY <1>4, <3>1
    <3>2. CASE d # 0
      <4>1. d - 1 \in Nat /\ (d - 1) + 1 = d BY <3>2
      <4>2. f[d] = next(f[d - 1]) BY <1>4, <4>1
      <4>3. QED BY <3>2, <4>2
    <3>3. QED BY <3>1, <3>2
  <2>2. f = [d \in Nat |-> f[d]] BY <1>3 DEF IsRecursive
  <2>3. QED BY <2>1, <2>2
<1>6. SectionValue = CHOOSE g : g = Def(g) BY DEF SectionValue
<1>7. SectionValue = Def(SectionValue)
  <2> HIDE DEF Def
  <2>1. QED BY <1>5, <1>6
<1>8. \A d \in Nat, t \in AllTargets :
        SectionValue[d][t] = IF d = 0 THEN {} ELSE Follow(t, SectionValue[d - 1])
  <2> DEFINE g == SectionValue
  <2>1. g = [depth \in Nat |->
              [t \in AllTargets |-> IF depth = 0 THEN {} ELSE Follow(t, g[depth - 1])]]
    BY <1>7
  <2> HIDE DEF g
  <2>2. \A d \in Nat : g[d] = [t \in AllTargets |-> IF d = 0 THEN {} ELSE Follow(t, g[d - 1])]
    BY <2>1
  <2>3. \A d \in Nat, t \in AllTargets : g[d][t] = IF d = 0 THEN {} ELSE Follow(t, g[d - 1])
    BY <2>2
  <2>4. QED BY <2>3 DEF g
<1>9. QED
  <2> DEFINE g == SectionValue
  <2>1. \A d \in Nat, t \in AllTargets : g[d][t] = IF d = 0 THEN {} ELSE Follow(t, g[d - 1])
    BY <1>8
  <2> HIDE DEF g
  <2>2. \A n \in Nat : n + 1 \in Nat /\ n + 1 # 0 /\ (n + 1) - 1 = n OBVIOUS
  <2>3. \A n \in Nat, t \in AllTargets : g[n + 1][t] = Follow(t, g[n])
    <3>1. SUFFICES ASSUME NEW n \in Nat, NEW t \in AllTargets PROVE g[n + 1][t] = Follow(t, g[n])
      OBVIOUS
    <3>2. PICK d \in Nat : d = n + 1 /\ d # 0 /\ d - 1 = n BY <2>2
    <3>3. g[d][t] = Follow(t, g[d - 1]) BY <2>1, <3>2
    <3>4. QED BY <3>2, <3>3
  <2>4. \A t \in AllTargets : g[0][t] = {} BY <2>1
  <2>5. QED BY <2>3, <2>4 DEF g

(* A call is worth the same when all it may look up is.                    *)
LEMMA SameReach ==
  ASSUME NEW q, CallOK(q), NEW V, NEW W, \A t \in Reach(q) : V[t] = W[t],
         \A c \in Cluster : V[Target(c, "KEYS")] \subseteq Section
  PROVE  CallValue(q, V) = CallValue(q, W)
<1>1. q.fn \in Functions /\ {"KEYS", "CLUSTER"} \subseteq Section
  BY SectionAssumption DEF CallOK, SectionAssumption
<1>2. CASE q.fn \in {"cluster", "group"}
  <2>1. Targets(q) \subseteq Reach(q) BY <1>2 DEF Targets, Reach, Target
  <2>2. QED BY <1>2, <2>1 DEF CallValue
<1>3. CASE q.fn = "has"
  <2>1. \A c \in all_clusters : Target(c, q.tag) \in Reach(q)
    BY <1>3 DEF Reach, Target, all_clusters
  <2>2. QED BY <1>3, <2>1 DEF CallValue
<1>4. CASE q.fn \in {"clusters", "get_cluster"}
  <2>1. \A c \in all_clusters : Target(c, "CLUSTER") \in Reach(q)
    BY <1>4 DEF Reach, Target, all_clusters
  <2>2. QED BY <1>4, <2>1 DEF CallValue
<1>5. CASE q.fn = "allclusters" BY <1>5 DEF CallValue
<1>6. CASE q.fn = "mem"
  <2>1. q.c \in Cluster BY <1>6 DEF CallOK
  <2>2. \A s \in Section : Target(q.c, s) \in Reach(q) BY <1>6 DEF Reach, Target
  <2>3. \A s \in Section : V[Target(q.c, s)] = W[Target(q.c, s)] BY <2>2
  <2>4. V[Target(q.c, "KEYS")] \subseteq Section BY <2>1
  <2>5. QED BY <1>1, <1>6, <2>3, <2>4 DEF CallValue
<1>7. CASE q.fn = "get_groups"
  <2>1. "GROUPS" \in Cluster BY <1>7 DEF CallOK
  <2>2. \A s \in Section : Target("GROUPS", s) \in Reach(q) BY <1>7 DEF Reach, Target
  <2>3. \A s \in Section : V[Target("GROUPS", s)] = W[Target("GROUPS", s)] BY <2>2
  <2>4. V[Target("GROUPS", "KEYS")] \subseteq Section BY <2>1
  <2>5. QED BY <1>1, <1>7, <2>3, <2>4 DEF CallValue
<1>8. QED BY <1>1, <1>2, <1>3, <1>4, <1>5, <1>6, <1>7 DEF Functions

LEMMA ReachIn ==
  ASSUME NEW q, CallOK(q)
  PROVE  Reach(q) \subseteq AllTargets
<1>1. q.fn \in Functions /\ {"KEYS", "CLUSTER"} \subseteq Section
  BY SectionAssumption DEF CallOK, SectionAssumption
<1>2. CASE q.fn = "cluster" BY <1>2 DEF CallOK, Reach
<1>3. CASE q.fn = "allclusters" BY <1>3 DEF Reach
<1>4. CASE q.fn = "has"
  <2>1. Reach(q) = [c : Cluster, s : {q.tag}] /\ q.tag \in Section BY <1>4 DEF CallOK, Reach
  <2>2. QED BY <2>1 DEF AllTargets
<1>5. CASE q.fn \in {"clusters", "get_cluster"}
  <2>1. Reach(q) = [c : Cluster, s : {"CLUSTER"}] BY <1>5 DEF Reach
  <2>2. QED BY <1>1, <2>1 DEF AllTargets
<1>6. CASE q.fn = "group"
  <2>1. Reach(q) = [c : {"GROUPS"}, s : q.es] /\ q.es \subseteq Section /\ "GROUPS" \in Cluster
    BY <1>6 DEF CallOK, Reach
  <2>2. QED BY <2>1 DEF AllTargets
<1>7. CASE q.fn = "mem"
  <2>1. Reach(q) = [c : {q.c}, s : Section] /\ q.c \in Cluster BY <1>7 DEF CallOK, Reach
  <2>2. QED BY <2>1 DEF AllTargets
<1>8. CASE q.fn = "get_groups"
  <2>1. Reach(q) = [c : {"GROUPS"}, s : Section] /\ "GROUPS" \in Cluster
    BY <1>8 DEF CallOK, Reach
  <2>2. QED BY <2>1 DEF AllTargets
<1>9. QED BY <1>1, <1>2, <1>3, <1>4, <1>5, <1>6, <1>7, <1>8 DEF Functions

(* What rank says of the texts of the files as they are. *)
LEMMA RankedNow ==
  ASSUME FilesOK, NEW rank, WellFounded(rank), NEW c \in Cluster, NEW s \in DOMAIN Sections(c),
         Sections(c)[s] # BadText, NEW q \in Sections(c)[s].calls
  PROVE  q.fn # "get_cluster" /\ \A t \in Reach(q) : rank[t] < rank[Target(c, s)]
<1>1. Current(c) \in Version(c) BY CurrentIsVersion
<1>2. Sections(c) = cluster_keys(Current(c).body) /\ Current(c).body # Gone
  BY DEF Sections, cluster_keys
<1>3. Current(c).body \in BodiesOf[c] BY <1>1, <1>2 DEF Version
<1>4. QED BY <1>2, <1>3 DEF WellFounded

LEMMA DeepEnough ==
  ASSUME FilesOK, NEW rank, WellFounded(rank)
  PROVE  Follows(SectionValue[Depth]) /\ AllOrderly
<1> DEFINE g == SectionValue
           Done == {n \in Nat : \A t \in AllTargets : rank[t] < n => g[n][t] = g[n + 1][t]}
<1>0. rank \in [AllTargets -> 0..Depth - 1] /\ Depth \in Nat
  BY BoundAssumption DEF WellFounded, BoundAssumption
<1>1. /\ \A t \in AllTargets : g[0][t] = {}
      /\ \A n \in Nat, t \in AllTargets : g[n + 1][t] = Follow(t, g[n])
  BY ValueSteps
<1> HIDE DEF g
<1>2. 0 \in Done BY <1>0
<1>3. ASSUME NEW n \in Nat, n \in Done PROVE n + 1 \in Done
  <2>1. SUFFICES ASSUME NEW t \in AllTargets, rank[t] < n + 1
                 PROVE  g[n + 1][t] = g[(n + 1) + 1][t]
    OBVIOUS
  <2>0. ASSUME NEW c \in Cluster PROVE g[n][Target(c, "KEYS")] \subseteq Section
    <3>1. Target(c, "KEYS") \in AllTargets BY TargetIs, SectionAssumption DEF SectionAssumption
    <3>2. CASE n = 0 BY <1>1, <3>1, <3>2
    <3>3. CASE n # 0
      <4>1. PICK m \in Nat : m + 1 = n
        <5>1. n - 1 \in Nat /\ (n - 1) + 1 = n BY <3>3
        <5>2. QED BY <5>1
      <4>2. g[m + 1][Target(c, "KEYS")] = Follow(Target(c, "KEYS"), g[m]) BY <1>1, <3>1
      <4>3. QED BY <4>1, <4>2, KeysListed
    <3>4. QED BY <3>2, <3>3
  <2>2. g[n + 1][t] = Follow(t, g[n]) /\ g[(n + 1) + 1][t] = Follow(t, g[n + 1])
    BY <1>1
  <2>3. t.c \in Cluster /\ t.s \in Section /\ Target(t.c, t.s) = t BY TargetIs
  <2>4. ASSUME t.s \in DOMAIN Sections(t.c), Sections(t.c)[t.s] # BadText,
               NEW q \in Sections(t.c)[t.s].calls
        PROVE  CallValue(q, g[n]) = CallValue(q, g[n + 1])
    <3>1. CallOK(q) BY <2>3, <2>4, SectionsAreOK DEF SectionsOK
    <3>2. \A u \in Reach(q) : rank[u] < rank[t] BY <2>3, <2>4, RankedNow
    <3>3. \A u \in Reach(q) : u \in AllTargets BY <3>1, ReachIn
    <3>4. \A u \in Reach(q) : rank[u] < n BY <1>0, <2>1, <3>2, <3>3
    <3>5. \A u \in Reach(q) : g[n][u] = g[n + 1][u] BY <1>3, <3>3, <3>4
    <3>6. \A c \in Cluster : g[n][Target(c, "KEYS")] \subseteq Section BY <2>0
    <3>7. QED BY <3>1, <3>5, <3>6, SameReach
  <2>5. Follow(t, g[n]) = Follow(t, g[n + 1]) BY <2>4 DEF Follow
  <2>6. QED BY <2>2, <2>5
<1>4. Nat \subseteq Done
  <2> HIDE DEF Done
  <2>1. QED BY <1>2, <1>3, Induct
<1>5. ASSUME NEW t \in AllTargets PROVE g[Depth][t] = Follow(t, g[Depth])
  <2>1. rank[t] < Depth BY <1>0
  <2>2. g[Depth][t] = g[Depth + 1][t] BY <1>0, <1>4, <2>1
  <2>3. QED BY <1>0, <1>1, <2>2
<1>6. Follows(g[Depth]) BY <1>5 DEF Follows
<1>7. AllOrderly BY RankedNow DEF AllOrderly, Orderly
<1>8. QED BY <1>6, <1>7 DEF g

(***************************************************************************)
(* Theorems.                                                               *)
(***************************************************************************)
LEMMA Invariance == Spec => []IInv
BY InitInvariant, NextInvariant, PTL DEF Spec

(* Versions, entries, the switches and the stack are well-typed: functions *)
(* and expansions alternate and wait as yamlfile.c's calls do.             *)
THEOREM TypeCorrect == Spec => []TypeOK
<1>1. IInv => TypeOK BY InvariantImplies
<1>2. QED BY <1>1, Invariance, PTL

(* For any files and any interleaving of writers with lookups, a hit in    *)
(* _expand_cluster's cache on a time the file never had before gives what  *)
(* the file says.                                                          *)
THEOREM AlwaysCoherent == Spec => []CacheCoherent
<1>1. IInv => CacheCoherent BY InvariantImplies
<1>2. QED BY <1>1, Invariance, PTL

(* rangefunc_has leaves the warning switch as it found it, at every depth. *)
THEOREM AlwaysSwitched == Spec => []WarnSwitch
<1>1. IInv => WarnSwitch BY InvariantImplies
<1>2. QED BY <1>1, Invariance, PTL

(* A request during which the files stay as they are returns what they     *)
(* say, however its lookups are ordered and whatever the cache has kept    *)
(* from before, if the texts' calls come to an end.                        *)
THEOREM AlwaysExact ==
  ASSUME NEW rank, WellFounded(rank)
  PROVE  Spec => []QueryExact
<1>1. IInv /\ ExactInv => QueryExact
  <2> SUFFICES ASSUME IInv, ExactInv, stack = <<>>, steady,
                      registered => \A c \in Cluster : Distinguished(c)
               PROVE  LET exact == CallValue(query, SectionValue[Depth]) IN
                      /\ result \subseteq exact
                      /\ query.fn # "get_cluster" => result = exact
                      /\ query.fn = "get_cluster" => (result = {} <=> exact = {})
    BY DEF QueryExact
  <2>1. PICK V : V = SectionValue[Depth] OBVIOUS
  <2>2. Follows(V) /\ AllOrderly BY <2>1, DeepEnough DEF IInv
  <2>3. Exact(V, stack, query, result) BY <2>2 DEF ExactInv, Settled
  <2>4. ValueExact(V, query, result) BY <2>3 DEF Exact
  <2>5. QED BY <2>1, <2>4 DEF ValueExact
<1>2. QED BY <1>1, Invariance, ExactInvariance, PTL
=============================================================================
