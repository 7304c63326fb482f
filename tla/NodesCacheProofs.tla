-------------------------- MODULE NodesCacheProofs --------------------------
(***************************************************************************)
(* Proofs about the nodes.cf backend, in three parts.  NodesCache: its     *)
(* types, and that an answer without a warning is current.  The invariant  *)
(* says of every entry that, if it has the file's time, it has its lines,  *)
(* or could not be read; an entry that is being filled is excepted, and of *)
(* that one the invariant says what stat and fopen have seen.  NodesFile,  *)
(* as NodesBackend runs it: after each line the sections and the range in  *)
(* work are those of the lines read so far (Progress), so that at the end  *)
(* they are what the file says.  NodesBackend: what the cache keeps was    *)
(* made of the lines it keeps them for (KeptInv), and what a survey has    *)
(* found was so at some moment since it began (SurveyInv).                 *)
(***************************************************************************)
EXTENDS NodesBackend, FiniteSetTheorems, SequenceTheorems, WellFoundedInduction, TLAPS

GhostOK ==
  /\ twice \in [Tables -> BOOLEAN] /\ refused \in [Tables -> BOOLEAN]

Times ==
  \A t \in Tables : file[t].mtime <= now /\ (cache[t] # NoEntry => cache[t].mtime <= file[t].mtime)

Filling ==
  pc \in {"open", "read"} =>
    /\ st.mtime <= file[table].mtime /\ ~refused[table]
    /\ file[table].lines \in during

Opened ==
  pc = "read" =>
    /\ st.lines # Gone /\ st.lines \in during
    /\ st.mtime = file[table].mtime /\ ~twice[table] => st.lines = file[table].lines

Same(t) ==
  cache[t] # NoEntry /\ ~twice[t] /\ cache[t].mtime = file[t].mtime =>
    \/ refused[t] /\ cache[t].content = {}
    \/ cache[t].content = file[t].lines
Coherent == \A t \in Tables : ~InQuery(t) => Same(t)

Inv == TypeOK /\ GhostOK /\ Times /\ Filling /\ Opened /\ Coherent /\ AnswerCurrent

(* In the initial states no file was there and nothing is cached.          *)
LEMMA InitInv == Init => Inv
  <1> SUFFICES ASSUME Init PROVE Inv
    OBVIOUS
  <1>1. TypeOK
    <2>1. file \in [Tables -> Version] /\ st \in Version /\ now \in 1..MaxTime
      BY TimeAssumption DEF TimeAssumption, Init, Version
    <2>2. QED
      BY <2>1 DEF Init, TypeOK, Tables
  <1>2. QED
    BY <1>1 DEF Init, Inv, GhostOK, Times, Filling, Opened, Coherent, Same, AnswerCurrent, Tables

(* Time passes: no file and no entry gets a time that is still to come.    *)
LEMMA TickInv == Inv /\ Tick => Inv'
  BY TimeAssumption DEF Inv, TypeOK, GhostOK, Times, Filling, Opened, Coherent, Same, AnswerCurrent, Tick, query, ghosts, Version, Entry, InQuery

(* Another program writes a file: its entry has an earlier time than the   *)
(* file now has, or the file has been changed twice in a second; a query   *)
(* that is between stat and the end of the file sees one more version.     *)
LEMMA WriteInv ==
  ASSUME NEW t \in Tables, NEW lines \in {Gone} \union SUBSET Line PROVE Inv /\ Write(t, lines) => Inv'
  <1> SUFFICES ASSUME Inv, Write(t, lines) PROVE Inv'
    OBVIOUS
  <1>0. /\ file' = [file EXCEPT ![t] = [mtime |-> now, lines |-> lines]]
        /\ during' = IF InQuery(t) THEN during \union {lines} ELSE during
        /\ twice' = [twice EXCEPT ![t] = twice[t] \/ file[t].mtime = now]
        /\ UNCHANGED <<readable, now, cache, query, refused>>
    BY DEF Write
  <1>f. /\ file \in [Tables -> Version] /\ now \in 1..MaxTime /\ table \in Tables
        /\ file'[t] = [mtime |-> now, lines |-> lines]
        /\ \A u \in Tables : u # t => file'[u] = file[u]
    BY <1>0 DEF Inv, TypeOK
  <1>w. /\ twice \in [Tables -> BOOLEAN] /\ refused \in [Tables -> BOOLEAN]
        /\ twice'[t] = (twice[t] \/ file[t].mtime = now)
        /\ \A u \in Tables : u # t => twice'[u] = twice[u]
    BY <1>0 DEF Inv, GhostOK
  <1>1. TypeOK'
    <2>0. now \in 0..MaxTime /\ lines \in {Gone} \union SUBSET Line
      BY <1>f, TimeAssumption DEF TimeAssumption
    <2>1. [mtime |-> now, lines |-> lines] \in Version
      BY <2>0 DEF Version
    <2>2. file' \in [Tables -> Version]
      BY <2>1, <1>0, <1>f
    <2>3. QED
      BY <2>2, <1>0 DEF Inv, TypeOK, query
  <1>2. GhostOK'
    <2>1. (twice[t] \/ file[t].mtime = now) \in BOOLEAN
      BY <1>w
    <2>2. QED
      BY <2>1, <1>0, <1>w DEF GhostOK
  <1>n. /\ \A u \in Tables : file[u].mtime \in Nat /\ file[u].mtime <= now
        /\ now \in Nat /\ file'[t].mtime = now
        /\ \A u \in Tables : cache[u] # NoEntry => cache[u].mtime \in Nat /\ cache[u].mtime <= file[u].mtime
    BY <1>f, TimeAssumption DEF TimeAssumption, Inv, TypeOK, Version, Entry, Times
  <1>3. Times'
    BY <1>n, <1>0, <1>f DEF Times
  <1>4. Filling'
    <2> SUFFICES ASSUME pc \in {"open", "read"} PROVE Filling'
      BY <1>0 DEF Filling, query
    <2>1. CASE table = t
      BY <2>1, <1>0, <1>f, <1>n DEF Inv, TypeOK, Version, Filling, InQuery, query
    <2>2. CASE table # t
      BY <2>2, <1>0, <1>f DEF Inv, Filling, InQuery, query
    <2>3. QED
      BY <2>1, <2>2
  <1>5. Opened'
    <2> SUFFICES ASSUME pc = "read" PROVE Opened'
      BY <1>0 DEF Opened, query
    <2>1. st.lines # Gone /\ st.lines \in during'
      BY <1>0 DEF Inv, Opened, query
    <2>2. CASE table = t
      <3>0. st.mtime \in Nat /\ st.mtime <= file[t].mtime
        BY <2>2, TimeAssumption DEF TimeAssumption, Inv, TypeOK, Version, Filling
      <3>1. st.mtime = now => file[t].mtime = now
        BY <3>0, <1>n
      <3>2. st.mtime = file'[t].mtime => twice'[t]
        BY <3>1, <1>n, <1>w
      <3>3. QED
        BY <2>1, <2>2, <3>2, <1>0 DEF Opened, query
    <2>3. CASE table # t
      BY <2>1, <2>3, <1>0, <1>f, <1>w DEF Inv, Opened, query
    <2>4. QED
      BY <2>2, <2>3
  <1>6. Coherent'
    <2> SUFFICES ASSUME NEW u \in Tables, ~InQuery(u) PROVE Same(u)'
      BY <1>0 DEF Coherent, InQuery, query
    <2>1. CASE u = t
      <3>1. cache[t] # NoEntry /\ cache[t].mtime = now => file[t].mtime = now
        BY <1>n
      <3>2. cache[t] # NoEntry /\ cache[t].mtime = file'[t].mtime => twice'[t]
        BY <3>1, <1>n, <1>w
      <3>3. QED
        BY <2>1, <3>2, <1>0 DEF Same
    <2>2. CASE u # t
      BY <2>2, <1>0, <1>f, <1>w DEF Inv, Coherent, Same
    <2>3. QED
      BY <2>1, <2>2
  <1>7. AnswerCurrent'
    <2>1. pc = "returned" => during' = during
      BY <1>0 DEF InQuery
    <2>2. ~twice'[table] => ~twice[table]
      BY <1>w, <1>f
    <2>3. QED
      BY <2>1, <2>2, <1>0 DEF Inv, AnswerCurrent, query
  <1>8. QED
    BY <1>1, <1>2, <1>3, <1>4, <1>5, <1>6, <1>7 DEF Inv

(* A file is protected or made readable: no entry changes.                 *)
LEMMA ChmodInv == ASSUME NEW t \in Tables PROVE Inv /\ Chmod(t) => Inv'
  BY TimeAssumption DEF Inv, TypeOK, GhostOK, Times, Filling, Opened, Coherent, Same, AnswerCurrent, Chmod, query, ghosts, Version, Entry, InQuery

(* A query begins with the entries as they are.                            *)
LEMMA AskInv == ASSUME NEW t \in Tables PROVE Inv /\ Ask(t) => Inv'
  BY TimeAssumption DEF Inv, TypeOK, GhostOK, Times, Filling, Opened, Coherent, Same, AnswerCurrent, Ask, environment, Version, Entry, InQuery

(* stat finds no file: the answer has a warning.                           *)
LEMMA NoFileInv == Inv /\ NoFile => Inv'
  BY TimeAssumption DEF Inv, TypeOK, GhostOK, Times, Filling, Opened, Coherent, Same, AnswerCurrent, NoFile, environment, ghosts, Version, Entry, InQuery

(* The answer is the entry, and that has the lines of the file.            *)
LEMMA HitInv == Inv /\ Hit => Inv'
  BY TimeAssumption DEF Inv, TypeOK, GhostOK, Times, Filling, Opened, Coherent, Same, AnswerCurrent, Hit, Good, environment, Version, Entry, InQuery

(* From here on the entry is being filled.                                 *)
LEMMA MissInv == Inv /\ Miss => Inv'
  BY TimeAssumption DEF Inv, TypeOK, GhostOK, Times, Filling, Opened, Coherent, Same, AnswerCurrent, Miss, Emptied, environment, Version, Entry, InQuery

(* What is opened is one of the versions since stat.                       *)
LEMMA OpenInv == Inv /\ Open => Inv'
  BY TimeAssumption DEF Inv, TypeOK, GhostOK, Times, Filling, Opened, Coherent, Same, AnswerCurrent, Open, Opens, environment, ghosts, Version, Entry, InQuery

(* The entry is empty, and the ghost says why.                             *)
LEMMA OpenFailsInv == Inv /\ OpenFails => Inv'
  BY TimeAssumption DEF Inv, TypeOK, GhostOK, Times, Filling, Opened, Coherent, Same, AnswerCurrent, OpenFails, environment, Version, Entry, InQuery

(* The entry gets the lines of a version since stat, and if its time is    *)
(* still the file's and the file was not changed twice in a second, those  *)
(* are the file's lines.                                                   *)
LEMMA ReadInv == Inv /\ Read => Inv'
  <1> SUFFICES ASSUME Inv, Read PROVE Inv'
    OBVIOUS
  <1> PICK lines \in {st.lines, file[table].lines} \ {Gone} :
        /\ cache' = [cache EXCEPT ![table] = [mtime |-> st.mtime, content |-> Before \union lines]]
        /\ answer' = Before \union lines
    BY DEF Read
  <1>0. /\ pc = "read" /\ pc' = "returned" /\ table \in Tables
        /\ UNCHANGED <<environment, table, st, warned, ghosts>>
    BY DEF Read, Inv, TypeOK
  <1>b. Before = {}
    BY <1>0 DEF Before, Inv, TypeOK
  <1>l. lines \in SUBSET Line /\ lines \in during
    BY <1>0 DEF Inv, TypeOK, Version, Filling, Opened
  <1>c. /\ answer' = lines /\ cache'[table] = [mtime |-> st.mtime, content |-> lines]
        /\ \A u \in Tables : u # table => cache'[u] = cache[u]
    BY <1>0, <1>b DEF Inv, TypeOK
  <1>1. TypeOK'
    <2>1. [mtime |-> st.mtime, content |-> lines] \in Entry
      BY <1>l DEF Inv, TypeOK, Version, Entry
    <2>2. cache' \in [Tables -> Entry \union {NoEntry}]
      BY <2>1, <1>b DEF Inv, TypeOK
    <2>3. QED
      BY <2>2, <1>0, <1>c, <1>l DEF Inv, TypeOK, environment
  <1>2. GhostOK' /\ Filling' /\ Opened'
    BY <1>0 DEF Inv, GhostOK, Filling, Opened, ghosts
  <1>3. Times'
    BY <1>0, <1>c DEF Inv, Times, Filling, environment
  <1>4. Coherent'
    <2> SUFFICES ASSUME NEW u \in Tables PROVE Same(u)'
      BY DEF Coherent
    <2>1. CASE u = table
      BY <2>1, <1>0, <1>c DEF Inv, Opened, Same, environment, ghosts
    <2>2. CASE u # table
      BY <2>2, <1>0, <1>c DEF Inv, Coherent, Same, InQuery, environment, ghosts
    <2>3. QED
      BY <2>1, <2>2
  <1>5. AnswerCurrent'
    BY <1>0, <1>c, <1>l DEF AnswerCurrent, ghosts
  <1>6. QED
    BY <1>1, <1>2, <1>3, <1>4, <1>5 DEF Inv

(* The caller has the answer; the entries stay.                            *)
LEMMA ReturnInv == Inv /\ Return => Inv'
  BY TimeAssumption DEF Inv, TypeOK, GhostOK, Times, Filling, Opened, Coherent, Same, AnswerCurrent, Return, environment, ghosts, Version, Entry, InQuery

(* Nothing happens.                                                        *)
LEMMA StutterInv == Inv /\ UNCHANGED vars => Inv'
  BY DEF Inv, TypeOK, GhostOK, Times, Filling, Opened, Coherent, Same, AnswerCurrent, InQuery, vars, environment, query, ghosts

(* The invariant holds in every state.                                     *)
THEOREM Invariant == Spec => []Inv
  <1>1. Inv /\ [Next]_vars => Inv'
    <2> SUFFICES ASSUME Inv, [Next]_vars PROVE Inv'
      OBVIOUS
    <2>1. CASE Tick \/ NoFile \/ Hit \/ Miss \/ Open \/ OpenFails \/ Read \/ Return
      BY <2>1, TickInv, NoFileInv, HitInv, MissInv, OpenInv, OpenFailsInv, ReadInv, ReturnInv
    <2>2. CASE \E t \in Tables : Chmod(t) \/ Ask(t) \/ \E lines \in {Gone} \union SUBSET Line : Write(t, lines)
      BY <2>2, WriteInv, ChmodInv, AskInv
    <2>3. CASE UNCHANGED vars
      BY <2>3, StutterInv
    <2>4. QED
      BY <2>1, <2>2, <2>3 DEF Next
  <1>2. QED
    BY <1>1, InitInv, PTL DEF Spec

(* _parse_cluster_vips and _expand_cluster: the variables keep their       *)
(* types, and the entry of vips.cf is empty until fopen has found it.      *)
THEOREM TypeCorrect == Spec => []TypeOK
  <1>1. Inv => TypeOK
    BY DEF Inv
  <1>2. QED
    BY <1>1, Invariant, PTL

(* Whatever is done to the files, an answer without a warning is what the  *)
(* file held at some moment of the query, but for files changed twice in a *)
(* second and for those an earlier query has warned of.                    *)
THEOREM AlwaysCurrent == Spec => []AnswerCurrent
  <1>1. Inv => AnswerCurrent
    BY DEF Inv
  <1>2. QED
    BY <1>1, Invariant, PTL

(***************************************************************************)
(* Lemmas about the text of a section.                                     *)
(***************************************************************************)

(* A non-empty set of naturals has a least element.                        *)
LEMMA LeastExists ==
  ASSUME NEW S \in SUBSET Nat, S # {}
  PROVE  \E m \in S : \A n \in S : m <= n
<1> DEFINE R == OpToRel(<, Nat)
<1>1. R = {ss \in Nat \X Nat : ss[1] < ss[2]} BY Zenon DEF OpToRel
<1>2. IsWellFoundedOn(R, Nat) BY NatLessThanWellFounded
<1> HIDE DEF R
<1>3. PICK m \in S : \A n \in S : ~ (<<n, m>> \in R) BY <1>2, WFMin, Zenon
<1>4. ASSUME NEW n \in S PROVE m <= n
  <2>1. n \in Nat /\ m \in Nat OBVIOUS
  <2>2. n < m => <<n, m>> \in R BY <1>1, <2>1
  <2>3. QED BY <1>3, <2>1, <2>2
<1>5. QED BY <1>4

(* A set of the first lines is finite, and its count is a natural.         *)
LEMMA FirstLines ==
  ASSUME NEW n \in Nat, NEW ks \in SUBSET (1..n)
  PROVE  IsFiniteSet(ks) /\ Cardinality(ks) \in Nat
<1>1. IsFiniteSet(1..n) BY FS_Interval
<1>2. QED BY <1>1, FS_Subset, FS_CardinalityType

(* The parser counts as everyone does.                                     *)
LEMMA SameCount == \A S : Parser!Cardinality(S) = Cardinality(S)
BY DEF Parser!Cardinality, Cardinality

(* A sequence with one more element.                                       *)
LEMMA AppendIs ==
  ASSUME NEW S, NEW t \in Seq(S), NEW e \in S
  PROVE  Append(t, e) = [j \in 1..Len(t) + 1 |-> IF j = Len(t) + 1 THEN e ELSE t[j]]
<1> DEFINE n == Len(t)
           u == [j \in 1..n + 1 |-> IF j = n + 1 THEN e ELSE t[j]]
<1>1. /\ Append(t, e) \in Seq(S) /\ Len(Append(t, e)) = n + 1 /\ n \in Nat
      /\ \A i \in 1..n : Append(t, e)[i] = t[i] /\ t[i] \in S
      /\ Append(t, e)[n + 1] = e
  BY AppendProperties
<1>2. u \in Seq(S) /\ Len(u) = n + 1 BY <1>1
<1>3. \A i \in 1..n + 1 : u[i] = Append(t, e)[i] BY <1>1
<1> HIDE DEF u
<1>4. QED BY <1>1, <1>2, <1>3, SeqEqual DEF u

(* in_regex after k parts is whether their slashes are odd in number.      *)
Odd(text_, k) == Cardinality({j \in 1..k : text_[j] = Parser!Slash}) % 2 = 1

LEMMA OddStep ==
  ASSUME NEW t, NEW k \in Nat \ {0}
  PROVE  /\ ~Odd(t, 0)
         /\ Odd(t, k) <=> IF t[k] = Parser!Slash THEN ~Odd(t, k - 1) ELSE Odd(t, k - 1)
<1> DEFINE S(i) == {j \in 1..i : t[j] = Parser!Slash}
<1>1. S(0) = {} OBVIOUS
<1>2. ~Odd(t, 0) BY <1>1, FS_EmptySet DEF Odd
<1>3. k - 1 \in Nat /\ S(k - 1) \in SUBSET (1..k - 1) /\ S(k) \in SUBSET (1..k) OBVIOUS
<1>4. /\ IsFiniteSet(S(k - 1)) /\ Cardinality(S(k - 1)) \in Nat
      /\ Cardinality(S(k)) \in Nat
  BY <1>3, FirstLines
<1>5. CASE t[k] = Parser!Slash
  <2>1. S(k) = S(k - 1) \union {k} /\ k \notin S(k - 1) BY <1>5
  <2> DEFINE m == Cardinality(S(k - 1))
             c == Cardinality(S(k))
  <2>2. c = m + 1 BY <2>1, <1>4, FS_AddElement
  <2>3. m \in Nat BY <1>4
  <2> HIDE DEF m, c, S
  <2>4. c % 2 = 1 <=> ~(m % 2 = 1) BY <2>2, <2>3
  <2>5. QED BY <1>2, <1>5, <2>4, Zenon DEF Odd, m, c, S
<1>6. CASE t[k] # Parser!Slash
  <2>1. S(k) = S(k - 1) BY <1>6
  <2>2. QED BY <1>2, <1>6, <2>1 DEF Odd
<1>7. QED BY <1>5, <1>6

(* The recursive function is that, too.                                    *)
LEMMA OpenIsOdd ==
  ASSUME NEW t, Len(t) \in Nat
  PROVE  \A k \in 0..Len(t) : Parser!SlashOpen(t)[k] <=> Odd(t, k)
<1> DEFINE n == Len(t)
           Step(g) == [k \in 0..n |-> IF k = 0 THEN FALSE ELSE IF t[k] = Parser!Slash THEN ~g[k - 1] ELSE g[k - 1]]
           odd == [k \in 0..n |-> Odd(t, k)]
           open == Parser!SlashOpen(t)
<1>1. open = CHOOSE g : g = Step(g) BY DEF Parser!SlashOpen
<1>2. odd = Step(odd)
  <2>1. ASSUME NEW k \in 0..n PROVE odd[k] = Step(odd)[k]
    <3>1. CASE k = 0
      <4>1. ~Odd(t, 0) BY OddStep, 1 \in Nat \ {0}
      <4>2. QED BY <3>1, <4>1 DEF Odd
    <3>2. CASE k # 0
      <4>1. k \in Nat \ {0} /\ k - 1 \in 0..n BY <3>2
      <4>2. Odd(t, k) <=> IF t[k] = Parser!Slash THEN ~Odd(t, k - 1) ELSE Odd(t, k - 1) BY <4>1, OddStep
      <4>3. odd[k - 1] = Odd(t, k - 1) BY <4>1
      <4>4. QED BY <3>2, <4>2, <4>3 DEF Odd
    <3>3. QED BY <3>1, <3>2
  <2>2. QED BY <2>1
<1>3. open = Step(open) BY <1>1, <1>2
<1> DEFINE Bad == {k \in 0..n : ~(open[k] <=> Odd(t, k))}
<1>4. SUFFICES ASSUME Bad # {} PROVE FALSE OBVIOUS
<1>5. PICK k \in Bad : \A j \in Bad : k <= j
  <2>1. Bad \in SUBSET Nat OBVIOUS
  <2>2. QED BY <1>4, <2>1, LeastExists
<1>6. CASE k = 0
  <2>1. ~Odd(t, 0) BY OddStep, 1 \in Nat \ {0}
  <2>2. open[0] = FALSE BY <1>3
  <2>3. QED BY <1>6, <2>1, <2>2
<1>7. CASE k # 0
  <2>1. k \in Nat \ {0} /\ k \in 0..n /\ k - 1 \in 0..n /\ ~(k <= k - 1) BY <1>7
  <2>2. open[k - 1] <=> Odd(t, k - 1) BY <1>5, <2>1
  <2>3. open[k] = IF t[k] = Parser!Slash THEN ~open[k - 1] ELSE open[k - 1] BY <1>3, <1>7, <2>1
  <2>4. Odd(t, k) <=> IF t[k] = Parser!Slash THEN ~Odd(t, k - 1) ELSE Odd(t, k - 1) BY <2>1, OddStep
  <2>5. open[k] <=> Odd(t, k) BY <2>2, <2>3, <2>4
  <2>6. QED BY <2>5
<1>8. QED BY <1>6, <1>7

(* _substitute_dollars resolves the names it should.                       *)
LEMMA Substituted ==
  ASSUME NEW t, Len(t) \in Nat, DOMAIN t = 1..Len(t)
  PROVE  Parser!_substitute_dollars(t) = Parser!Resolved(t)
<1>1. ASSUME NEW k \in DOMAIN t PROVE Parser!InRegex(t, k) <=> Parser!SlashOpen(t)[k - 1]
  <2>1. k - 1 \in 0..Len(t) OBVIOUS
  <2>2. Parser!SlashOpen(t)[k - 1] <=> Odd(t, k - 1) BY <2>1, OpenIsOdd
  <2>3. Parser!InRegex(t, k) <=> Odd(t, k - 1) BY SameCount DEF Parser!InRegex, Odd
  <2>4. QED BY <2>2, <2>3
<1>2. QED BY <1>1 DEF Parser!_substitute_dollars, Parser!Resolved

(* The entries of some lines, and of some lines and a later one.           *)
LEMMA TextOfNone == ASSUME NEW f PROVE Parser!TextOf(f, {}) = <<>>
<1>1. Cardinality({}) = 0 BY FS_EmptySet
<1>2. QED BY <1>1, SameCount DEF Parser!TextOf

AllMeant(f) == {Parser!Meant(f.lines[k]) : k \in Parser!Entries(f)}

(* A number beyond all in ks comes after them and moves none of them.      *)
LEMMA NthIs ==
  ASSUME NEW n \in Nat, NEW ks \in SUBSET (1..n), NEW a \in Nat, a > n
  PROVE  /\ Parser!Nth(ks \union {a}, Cardinality(ks) + 1) = a
         /\ \A j \in 1..Cardinality(ks) : Parser!Nth(ks \union {a}, j) = Parser!Nth(ks, j)
<1> DEFINE all == ks \union {a}
           Rank(S, k) == Cardinality({i \in S : i <= k})
           c == Cardinality(ks)
<1>1. IsFiniteSet(ks) /\ c \in Nat BY FirstLines
<1>2. a \notin ks OBVIOUS
<1>3. Rank(all, a) = c + 1
  <2>0. a <= a /\ \A i \in ks : i <= a OBVIOUS
  <2>1. {i \in all : i <= a} = ks \union {a} BY <2>0, Zenon
  <2>2. QED BY <1>1, <1>2, <2>1, FS_AddElement
<1>4. ASSUME NEW k \in ks PROVE Rank(all, k) = Rank(ks, k) /\ Rank(ks, k) \in Nat /\ Rank(ks, k) <= c
  <2>1. {i \in all : i <= k} = {i \in ks : i <= k} OBVIOUS
  <2>2. {i \in ks : i <= k} \in SUBSET ks OBVIOUS
  <2>3. QED BY <1>1, <2>1, <2>2, FS_Subset, FS_CardinalityType
<1>5. Parser!Nth(all, c + 1) = CHOOSE k \in all : Rank(all, k) = c + 1 BY SameCount DEF Parser!Nth
<1> HIDE DEF Rank, c
<1>6. \A k \in all : Rank(all, k) = c + 1 <=> k = a
  <2>1. \A k \in ks : Rank(all, k) # c + 1 BY <1>1, <1>4
  <2>2. QED BY <1>3, <2>1, <1>2
<1>7. Parser!Nth(all, c + 1) = a BY <1>5, <1>6
<1>8. ASSUME NEW j \in 1..c PROVE Parser!Nth(all, j) = Parser!Nth(ks, j)
  <2>1. j # c + 1 BY <1>1
  <2>2. \A k : (k \in all /\ Rank(all, k) = j) <=> (k \in ks /\ Rank(ks, k) = j) BY <1>3, <1>4, <2>1
  <2>3. /\ Parser!Nth(all, j) = CHOOSE k : k \in all /\ Rank(all, k) = j
        /\ Parser!Nth(ks, j) = CHOOSE k : k \in ks /\ Rank(ks, k) = j
    BY SameCount DEF Parser!Nth, Rank
  <2>4. QED BY <2>2, <2>3
<1>9. QED BY <1>7, <1>8 DEF c

(* One more line at the end of a section appends its entry to the text.    *)
LEMMA TextOfMore ==
  ASSUME NEW f, NEW n \in Nat, NEW ks \in SUBSET (1..n), NEW a \in Nat, a > n
  PROVE  /\ Parser!TextOf(f, ks \union {a}) = Append(Parser!TextOf(f, ks), Parser!Meant(f.lines[a]))
<1> DEFINE c == Cardinality(ks)
           t == Parser!TextOf(f, ks)
           e == Parser!Meant(f.lines[a])
<1>1. IsFiniteSet(ks) /\ c \in Nat BY FirstLines
<1>2. Cardinality(ks \union {a}) = c + 1 BY <1>1, FS_AddElement
<1>3. t = [j \in 1..c |-> Parser!Meant(f.lines[Parser!Nth(ks, j)])] BY SameCount DEF Parser!TextOf
<1>4. Parser!TextOf(f, ks \union {a}) = [j \in 1..c + 1 |-> Parser!Meant(f.lines[Parser!Nth(ks \union {a}, j)])]
  BY <1>2, SameCount DEF Parser!TextOf
<1>5. /\ Parser!Nth(ks \union {a}, c + 1) = a
      /\ \A j \in 1..c : Parser!Nth(ks \union {a}, j) = Parser!Nth(ks, j)
  BY NthIs
<1>6. t \in Seq({t[j] : j \in 1..c} \union {e}) /\ Len(t) = c BY <1>1, <1>3
<1> HIDE DEF t, c, e
<1>7. Append(t, e) = [j \in 1..c + 1 |-> IF j = c + 1 THEN e ELSE t[j]]
  <2>1. \E S : t \in Seq(S) /\ e \in S BY <1>6
  <2>2. QED BY <1>6, <2>1, AppendIs
<1>8. ASSUME NEW j \in 1..c + 1 PROVE Parser!Meant(f.lines[Parser!Nth(ks \union {a}, j)]) = IF j = c + 1 THEN e ELSE t[j]
  <2>1. j # c + 1 => j \in 1..c BY <1>1
  <2>2. QED BY <1>3, <1>5, <2>1 DEF e
<1>9. QED BY <1>4, <1>7, <1>8 DEF t, e

(***************************************************************************)
(* The names at the margin, as _cluster_keys comes to them.                *)
(***************************************************************************)

(* The last name before line k, or Null.                                   *)
NameOf(f, hs) == IF hs = {} THEN Null ELSE f.lines[CHOOSE h \in hs : TRUE].name
NameAt(f, k) == NameOf(f, Parser!HeaderOf(f, k))
HasLines(f) == Parser!IsFile(f)
IsIndented(f, k) == k \in Parser!Lines(f) /\ Parser!Indented(f.lines[k])

LEMMA LineFacts ==
  ASSUME NEW f, HasLines(f)
  PROVE  /\ Len(f.lines) \in Nat /\ Parser!Lines(f) = 1..Len(f.lines)
         /\ Parser!Headers(f) \in SUBSET (1..Len(f.lines))
         /\ \A h \in Parser!Headers(f) : f.lines[h].name # Null /\ ~IsIndented(f, h)
         /\ \A k \in Parser!Entries(f) : IsIndented(f, k)
         /\ \A k : IsIndented(f, k) => k \in 1..Len(f.lines)
BY DEF HasLines, Parser!IsFile, Parser!Lines, Parser!Headers, Parser!Entries, IsIndented, Parser!Indented, Parser!Signs

(* There is at most one, and it has a name.                                *)
LEMMA OneHeader ==
  ASSUME NEW f, HasLines(f), NEW k \in Nat, NEW h \in Parser!HeaderOf(f, k)
  PROVE  /\ Parser!HeaderOf(f, k) = {h} /\ NameAt(f, k) = f.lines[h].name /\ NameAt(f, k) # Null
         /\ h \in Parser!Headers(f) /\ h < k /\ h \in Nat
<1>1. h \in Parser!Headers(f) /\ h < k /\ h \in Nat BY LineFacts DEF Parser!HeaderOf
<1>2. ASSUME NEW g \in Parser!HeaderOf(f, k) PROVE g = h
  <2>1. g \in Parser!Headers(f) /\ g < k /\ g \in Nat BY LineFacts DEF Parser!HeaderOf
  <2>2. (g <= h \/ g >= k) /\ (h <= g \/ h >= k) BY <1>1, <2>1 DEF Parser!HeaderOf
  <2>3. QED BY <1>1, <2>1, <2>2
<1>3. Parser!HeaderOf(f, k) = {h} BY <1>2
<1>4. NameAt(f, k) = f.lines[h].name BY <1>3 DEF NameAt, NameOf
<1>5. QED BY <1>1, <1>3, <1>4, LineFacts

(* From one line to the next.                                              *)
LEMMA NoHeaderYet == ASSUME NEW f, HasLines(f) PROVE Parser!HeaderOf(f, 1) = {} /\ NameAt(f, 1) = Null
<1>1. Parser!HeaderOf(f, 1) = {} BY LineFacts DEF Parser!HeaderOf
<1>2. QED BY <1>1 DEF NameAt, NameOf

(* Below a name, what follows belongs to it; below anything else, to what  *)
(* the lines before belong to.                                             *)
LEMMA AfterHeader ==
  ASSUME NEW f, HasLines(f), NEW k \in Parser!Headers(f)
  PROVE  Parser!HeaderOf(f, k + 1) = {k} /\ NameAt(f, k + 1) = f.lines[k].name
<1>1. k \in Nat /\ \A g \in Parser!Headers(f) : g \in Nat BY LineFacts
<1>2. k \in Parser!HeaderOf(f, k + 1) BY <1>1 DEF Parser!HeaderOf
<1>3. QED BY <1>1, <1>2, OneHeader

LEMMA AfterOther ==
  ASSUME NEW f, HasLines(f), NEW k \in Nat, k \notin Parser!Headers(f)
  PROVE  Parser!HeaderOf(f, k + 1) = Parser!HeaderOf(f, k) /\ NameAt(f, k + 1) = NameAt(f, k)
<1>1. \A g \in Parser!Headers(f) : g \in Nat /\ g # k BY LineFacts
<1>2. Parser!HeaderOf(f, k + 1) = Parser!HeaderOf(f, k) BY <1>1 DEF Parser!HeaderOf
<1>3. QED BY <1>2 DEF NameAt

(* Two lines with different names have a header between them.              *)
LEMMA LaterHeader ==
  ASSUME NEW f, HasLines(f), NEW k \in Nat, NEW m \in Nat, k <= m, NEW g \in Parser!HeaderOf(f, k)
  PROVE  \E h \in Parser!HeaderOf(f, m) : g <= h /\ (g # h => k <= h)
<1> DEFINE later == {n \in Nat : \E h \in Parser!Headers(f) : h < m /\ n = m - h}
<1>1. g \in Parser!Headers(f) /\ g < k /\ g \in Nat /\ (\A x \in Parser!Headers(f) : x <= g \/ x >= k) /\ \A x \in Parser!Headers(f) : x \in Nat
  BY LineFacts, OneHeader DEF Parser!HeaderOf
<1>2. later # {} /\ later \in SUBSET Nat
  <2>1. m - g \in Nat /\ g < m BY <1>1
  <2>2. QED BY <1>1, <2>1
<1>3. PICK n \in later : \A x \in later : n <= x BY <1>2, LeastExists
<1>4. PICK h \in Parser!Headers(f) : h < m /\ n = m - h BY <1>3
<1>5. ASSUME NEW x \in Parser!Headers(f), x < m PROVE x <= h
  <2>1. m - x \in Nat /\ x \in Nat /\ h \in Nat BY <1>1, <1>5
  <2>2. m - x \in later BY <1>5, <2>1
  <2>3. m - h <= m - x BY <1>3, <1>4, <2>2
  <2> HIDE DEF later
  <2>4. QED BY <2>1, <2>3
<1>6. h \in Parser!HeaderOf(f, m) BY <1>1, <1>4, <1>5 DEF Parser!HeaderOf
<1>7. g <= h BY <1>1, <1>5
<1>8. QED BY <1>1, <1>6, <1>7

(* A line stands under a name if that is the last before it.               *)
LEMMA UnderIs ==
  ASSUME NEW f, HasLines(f), NEW s, s # Null
  PROVE  Parser!Under(f, s) = {k \in 1..Len(f.lines) : IsIndented(f, k) /\ NameAt(f, k) = s}
<1>1. ASSUME NEW k \in 1..Len(f.lines)
      PROVE  (\E h \in Parser!HeaderOf(f, k) : f.lines[h].name = s) <=> NameAt(f, k) = s
  <2>0. k \in Nat /\ Len(f.lines) \in Nat BY LineFacts
  <2>1. CASE Parser!HeaderOf(f, k) = {} BY <2>1 DEF NameAt, NameOf
  <2>2. CASE Parser!HeaderOf(f, k) # {}
    <3>1. PICK h \in Parser!HeaderOf(f, k) : TRUE BY <2>2
    <3>2. Parser!HeaderOf(f, k) = {h} /\ NameAt(f, k) = f.lines[h].name BY <2>0, <3>1, OneHeader
    <3>3. QED BY <3>2
  <2>3. QED BY <2>1, <2>2
<1>2. Parser!Lines(f) = 1..Len(f.lines) BY LineFacts
<1>3. QED BY <1>1, <1>2 DEF Parser!Under, IsIndented

(***************************************************************************)
(* What has been read when _cluster_keys comes to line a: the last indented *)
(* line was e, or there was none and e is 0.                               *)
(***************************************************************************)
Indents(f, e) == {k \in 1..e : IsIndented(f, k)}
UnderTo(f, s, e) == {k \in Parser!Under(f, s) : k <= e}
BlockTo(f, s, e) ==
  {k \in UnderTo(f, s, e) \intersect Parser!Entries(f) :
     \A i \in UnderTo(f, s, e) : \A j \in k..i : Parser!Indented(f.lines[j]) => j \in UnderTo(f, s, e)}
NamesTo(f, e) == {NameAt(f, k) : k \in Indents(f, e)}

Walk(f, a, e, sec, cur) ==
  /\ a \in 1..Len(f.lines) + 1 /\ e \in 0..a - 1
  /\ \A k \in e + 1..a - 1 : ~IsIndented(f, k)
  /\ e # 0 => IsIndented(f, e)
  /\ cur = NameAt(f, a)
  /\ sec = IF e = 0 THEN Null ELSE NameAt(f, e)

(* A regular file: the sections so far.                                    *)
Collected(f, e, sec, secs, wr) ==
  /\ Null \notin DOMAIN secs
  /\ DOMAIN secs \ {sec} = NamesTo(f, e) \ {sec}
  /\ \A s \in DOMAIN secs : s # sec => secs[s] = Parser!TextOf(f, BlockTo(f, s, e))
  /\ wr = IF e = 0 THEN <<>> ELSE Parser!TextOf(f, BlockTo(f, sec, e))

Orphanless(f) == \A k : IsIndented(f, k) => NameAt(f, k) # Null

ClosesAt(sec, cur) == sec # Null /\ cur # sec
StoredAt(sec, cur, secs, wr) == IF ClosesAt(sec, cur) THEN Parser!set_add(secs, sec, wr) ELSE secs
OpenAt(sec, cur, wr) == IF ClosesAt(sec, cur) THEN <<>> ELSE wr
AtEnd(cur, secs, wr) == IF cur # Null THEN Parser!set_add(secs, cur, wr) ELSE secs
RangeAt(f, a, open) == IF f.lines[a].kind \in Parser!Signs THEN Append(open, Parser!Meant(f.lines[a])) ELSE open

LEMMA WalkEntry ==
  ASSUME NEW f, HasLines(f), NEW a, NEW e, NEW sec, NEW cur, Walk(f, a, e, sec, cur), IsIndented(f, a)
  PROVE  /\ a \in Nat /\ e \in Nat /\ e < a /\ a <= Len(f.lines) /\ Len(f.lines) \in Nat
         /\ Walk(f, a + 1, a, cur, cur)
         /\ Indents(f, a) = Indents(f, e) \union {a} /\ a \notin Indents(f, e)
<1>1. a \in 1..Len(f.lines) /\ Len(f.lines) \in Nat BY LineFacts
<1>2. e \in 0..a - 1 /\ a \in Nat /\ e \in Nat BY <1>1 DEF Walk
<1>3. a \notin Parser!Headers(f) BY LineFacts
<1>4. NameAt(f, a + 1) = NameAt(f, a) BY <1>1, <1>3, AfterOther
<1>5. Walk(f, a + 1, a, cur, cur) BY <1>1, <1>2, <1>4 DEF Walk
<1>6. ASSUME NEW k \in 1..a, k # a, IsIndented(f, k) PROVE k \in 1..e
  <2>1. k \notin e + 1..a - 1 BY <1>6 DEF Walk
  <2>2. QED BY <1>1, <1>2, <1>6, <2>1
<1>7. Indents(f, a) = Indents(f, e) \union {a} BY <1>1, <1>2, <1>6 DEF Indents
<1>8. a \notin Indents(f, e) BY <1>1, <1>2 DEF Indents
<1>9. QED BY <1>1, <1>2, <1>5, <1>7, <1>8

(* Under which names the indented lines so far stand.                      *)
LEMMA UnderEntry ==
  ASSUME NEW f, HasLines(f), NEW a, NEW e, NEW sec, NEW cur, Walk(f, a, e, sec, cur), IsIndented(f, a), NEW s, s # Null
  PROVE  UnderTo(f, s, a) = UnderTo(f, s, e) \union (IF s = cur THEN {a} ELSE {})
<1>1. /\ a \in Nat /\ e \in Nat /\ e < a /\ a <= Len(f.lines) /\ Len(f.lines) \in Nat
      /\ Indents(f, a) = Indents(f, e) \union {a}
  BY WalkEntry
<1>2. \A n \in 0..Len(f.lines) : UnderTo(f, s, n) = {k \in Indents(f, n) : NameAt(f, k) = s}
  BY <1>1, UnderIs DEF UnderTo, Indents
<1>3. cur = NameAt(f, a) BY DEF Walk
<1>4. UnderTo(f, s, a) = {k \in Indents(f, e) \union {a} : NameAt(f, k) = s} BY <1>1, <1>2
<1>5. UnderTo(f, s, e) = {k \in Indents(f, e) : NameAt(f, k) = s} BY <1>1, <1>2
<1>6. QED BY <1>3, <1>4, <1>5

(* The block of another name stays, that of the same goes on, and a new    *)
(* one begins.                                                             *)
LEMMA BlockEntry ==
  ASSUME NEW f, HasLines(f), NEW a, NEW e, NEW sec, NEW cur, Walk(f, a, e, sec, cur), IsIndented(f, a), cur # Null
  PROVE  /\ \A s : s # cur /\ s # Null => BlockTo(f, s, a) = BlockTo(f, s, e)
         /\ LET new == IF a \in Parser!Entries(f) THEN {a} ELSE {}
            IN  BlockTo(f, cur, a) = IF sec = cur THEN BlockTo(f, cur, e) \union new ELSE new
<1>1. /\ a \in Nat /\ e \in Nat /\ e < a /\ a <= Len(f.lines) /\ Len(f.lines) \in Nat
  BY WalkEntry
<1>2. ASSUME NEW s, s # cur, s # Null PROVE BlockTo(f, s, a) = BlockTo(f, s, e)
  <2>1. UnderTo(f, s, a) = UnderTo(f, s, e) BY <1>2, UnderEntry
  <2>2. QED BY <2>1 DEF BlockTo
<1> DEFINE U == UnderTo(f, cur, e)
           B == UnderTo(f, cur, a)
<1>3. B = U \union {a} BY UnderEntry
<1>4. \A k \in U : k \in 1..e /\ k < a
  <2>1. U \subseteq Parser!Under(f, cur) /\ \A k \in U : k <= e BY DEF UnderTo
  <2>2. \A k \in U : k \in 1..Len(f.lines) BY <2>1, UnderIs
  <2>3. QED BY <1>1, <2>1, <2>2
<1>5. BlockTo(f, cur, a) = {k \in B \intersect Parser!Entries(f) : \A i \in B : \A j \in k..i : Parser!Indented(f.lines[j]) => j \in B}
  BY DEF BlockTo
<1>6. BlockTo(f, cur, e) = {k \in U \intersect Parser!Entries(f) : \A i \in U : \A j \in k..i : Parser!Indented(f.lines[j]) => j \in U}
  BY DEF BlockTo
<1>7. a \in Parser!Entries(f) => a \in BlockTo(f, cur, a)
  <2>1. \A i \in B : \A j \in a..i : j = a BY <1>1, <1>3, <1>4
  <2>2. QED BY <1>3, <1>5, <2>1
<1>8. CASE sec = cur
  <2>1. e # 0 /\ IsIndented(f, e) /\ NameAt(f, e) = cur BY <1>8 DEF Walk
  <2>2. e \in U
    <3>1. e \in 1..Len(f.lines) /\ e <= e BY <1>1, <2>1
    <3>2. e \in Parser!Under(f, cur) BY <2>1, <3>1, UnderIs
    <3>3. QED BY <3>1, <3>2 DEF UnderTo
  <2>3. ASSUME NEW j \in Nat, j >= 1, j <= a, Parser!Indented(f.lines[j]) PROVE j = a \/ j <= e
    <3>1. IsIndented(f, j) BY <1>1, <2>3, LineFacts DEF IsIndented
    <3>2. j \notin e + 1..a - 1 BY <3>1 DEF Walk
    <3>3. QED BY <1>1, <2>3, <3>2
  <2> HIDE DEF U, B
  <2>4. ASSUME NEW k \in BlockTo(f, cur, e) PROVE k \in BlockTo(f, cur, a)
    <3>1. k \in U /\ k \in Parser!Entries(f) /\ k \in 1..e BY <1>4, <1>6, <2>4
    <3>2. ASSUME NEW i \in B, NEW j \in k..i, Parser!Indented(f.lines[j]) PROVE j \in B
      <4>1. i \in Nat /\ i <= a BY <1>1, <1>3, <1>4
      <4>2. j \in Nat /\ j >= 1 /\ j <= a BY <1>1, <3>1, <3>2, <4>1
      <4>3. CASE j = a BY <1>3, <4>3
      <4>4. CASE j # a
        <5>1. j <= e BY <2>3, <3>2, <4>2, <4>4
        <5>2. j \in k..e BY <1>1, <3>1, <3>2, <4>1, <4>2, <5>1
        <5>3. j \in U BY <1>6, <2>2, <2>4, <3>2, <5>2
        <5>4. QED BY <1>3, <5>3
      <4>5. QED BY <4>3, <4>4
    <3>3. QED BY <1>3, <1>5, <3>1, <3>2
  <2>5. ASSUME NEW k \in BlockTo(f, cur, a), k # a PROVE k \in BlockTo(f, cur, e)
    <3>1. k \in U /\ k \in Parser!Entries(f) BY <1>3, <1>5, <2>5
    <3>2. ASSUME NEW i \in U, NEW j \in k..i, Parser!Indented(f.lines[j]) PROVE j \in U
      <4>1. j \in B BY <1>3, <1>5, <2>5, <3>2
      <4>2. j # a BY <1>1, <1>4, <3>1, <3>2
      <4>3. QED BY <1>3, <4>1, <4>2
    <3>3. QED BY <1>6, <3>1, <3>2
  <2>6. a \in BlockTo(f, cur, a) => a \in Parser!Entries(f) BY <1>5
  <2>7. BlockTo(f, cur, a) = BlockTo(f, cur, e) \union (IF a \in Parser!Entries(f) THEN {a} ELSE {})
    BY <1>7, <2>4, <2>5, <2>6
  <2>8. QED BY <1>2, <1>8, <2>7
<1>9. CASE sec # cur
  <2>1. ASSUME NEW k \in BlockTo(f, cur, a) PROVE k = a
    <3>1. SUFFICES ASSUME k # a PROVE FALSE OBVIOUS
    <3>2. k \in U BY <1>3, <1>5, <2>1, <3>1
    <3>3. k \in 1..e BY <1>4, <3>2
    <3>4. e # 0 /\ IsIndented(f, e) BY <1>1, <3>3 DEF Walk
    <3>5. e \in k..a /\ a \in B BY <1>1, <1>3, <3>3
    <3>6. e \in B BY <1>5, <2>1, <3>4, <3>5 DEF IsIndented
    <3>7. e \in U BY <1>1, <1>3, <3>6
    <3>8. NameAt(f, e) = cur BY <3>7, UnderIs DEF UnderTo
    <3>9. QED BY <1>9, <3>4, <3>8 DEF Walk
  <2>2. BlockTo(f, cur, a) = IF a \in Parser!Entries(f) THEN {a} ELSE {}
    <3>1. a \in BlockTo(f, cur, a) => a \in Parser!Entries(f) BY <1>5
    <3>2. QED BY <1>7, <2>1, <3>1
  <2>3. QED BY <1>2, <1>9, <2>2
<1>10. QED BY <1>8, <1>9

(* An indented line: the section before is stored, if it has another name, *)
(* and the entries go to the last name.                                    *)
LEMMA CollectEntry ==
  ASSUME NEW f, HasLines(f), NEW a, NEW e, NEW sec, NEW cur, Walk(f, a, e, sec, cur), IsIndented(f, a), cur # Null,
         NEW secs, NEW wr, Collected(f, e, sec, secs, wr), Orphanless(f)
  PROVE  Collected(f, a, cur, StoredAt(sec, cur, secs, wr), RangeAt(f, a, OpenAt(sec, cur, wr)))
<1> DEFINE closes == ClosesAt(sec, cur)
           stored == StoredAt(sec, cur, secs, wr)
           range == RangeAt(f, a, OpenAt(sec, cur, wr))
<1>1. /\ a \in Nat /\ e \in Nat /\ e < a /\ a <= Len(f.lines) /\ Len(f.lines) \in Nat
      /\ Indents(f, a) = Indents(f, e) \union {a}
  BY WalkEntry
<1>2. cur = NameAt(f, a) /\ NamesTo(f, a) = NamesTo(f, e) \union {cur} BY <1>1 DEF Walk, NamesTo
<1>3. e = 0 => sec = Null /\ NamesTo(f, e) = {} /\ DOMAIN secs = {}
  <2>1. SUFFICES ASSUME e = 0 PROVE sec = Null /\ NamesTo(f, e) = {} /\ DOMAIN secs = {} OBVIOUS
  <2>2. sec = Null /\ NamesTo(f, e) = {} BY <2>1 DEF Walk, NamesTo, Indents
  <2>3. QED BY <2>2 DEF Collected
<1>4. e # 0 => sec # Null /\ sec \in NamesTo(f, e)
  <2>1. SUFFICES ASSUME e # 0 PROVE sec # Null /\ sec \in NamesTo(f, e) OBVIOUS
  <2>2. sec = NameAt(f, e) /\ IsIndented(f, e) BY <2>1 DEF Walk
  <2>3. sec # Null BY <2>2 DEF Orphanless
  <2>4. e \in Indents(f, e) BY <1>1, <2>1, <2>2 DEF Indents
  <2>5. QED BY <2>2, <2>3, <2>4 DEF NamesTo
<1>5. closes <=> e # 0 /\ cur # sec BY <1>3, <1>4 DEF ClosesAt
<1>6. /\ \A s : s # cur /\ s # Null => BlockTo(f, s, a) = BlockTo(f, s, e)
      /\ BlockTo(f, cur, a) = IF sec = cur THEN BlockTo(f, cur, e) \union (IF a \in Parser!Entries(f) THEN {a} ELSE {})
                                          ELSE IF a \in Parser!Entries(f) THEN {a} ELSE {}
  BY BlockEntry
<1>7. DOMAIN stored = DOMAIN secs \union (IF closes THEN {sec} ELSE {}) BY DEF StoredAt, Parser!set_add
<1>8. Null \notin DOMAIN stored BY <1>7 DEF Collected, ClosesAt
<1>9. DOMAIN stored \ {cur} = NamesTo(f, a) \ {cur}
  <2>1. DOMAIN secs \ {sec} = NamesTo(f, e) \ {sec} /\ Null \notin DOMAIN secs BY DEF Collected
  <2>2. CASE closes
    <3>1. DOMAIN stored = NamesTo(f, e) BY <1>4, <1>5, <1>7, <2>1, <2>2
    <3>2. QED BY <1>2, <3>1
  <2>3. CASE ~closes /\ e = 0 BY <1>2, <1>3, <1>7, <2>3
  <2>4. CASE ~closes /\ e # 0 BY <1>2, <1>5, <1>7, <2>1, <2>4
  <2>5. QED BY <2>2, <2>3, <2>4
<1>10. ASSUME NEW s \in DOMAIN stored, s # cur PROVE stored[s] = Parser!TextOf(f, BlockTo(f, s, a))
  <2>1. BlockTo(f, s, a) = BlockTo(f, s, e) BY <1>6, <1>8, <1>10
  <2>2. CASE closes /\ s = sec
    <3>1. stored[s] = wr BY <2>2 DEF StoredAt, Parser!set_add
    <3>2. wr = Parser!TextOf(f, BlockTo(f, sec, e)) BY <1>5, <2>2 DEF Collected
    <3>3. QED BY <2>1, <2>2, <3>1, <3>2
  <2>3. CASE ~(closes /\ s = sec)
    <3>1. s \in DOMAIN secs /\ stored[s] = secs[s] BY <1>7, <1>10, <2>3 DEF StoredAt, Parser!set_add
    <3>2. s # sec BY <1>3, <1>5, <1>10, <2>3, <3>1
    <3>3. QED BY <2>1, <3>1, <3>2 DEF Collected
  <2>4. QED BY <2>2, <2>3
<1>11. range = Parser!TextOf(f, BlockTo(f, cur, a))
  <2>1. OpenAt(sec, cur, wr) = Parser!TextOf(f, IF sec = cur THEN BlockTo(f, cur, e) ELSE {})
    <3>1. CASE closes
      <4>1. OpenAt(sec, cur, wr) = <<>> /\ sec # cur BY <3>1 DEF OpenAt, ClosesAt
      <4>2. QED BY <4>1, TextOfNone
    <3>2. CASE ~closes /\ e = 0
      <4>1. OpenAt(sec, cur, wr) = <<>> /\ sec # cur BY <1>3, <3>2 DEF OpenAt, Collected
      <4>2. QED BY <4>1, TextOfNone
    <3>3. CASE ~closes /\ e # 0
      <4>1. sec = cur /\ OpenAt(sec, cur, wr) = wr BY <1>5, <3>3 DEF OpenAt
      <4>2. wr = Parser!TextOf(f, BlockTo(f, sec, e)) BY <3>3 DEF Collected
      <4>3. QED BY <4>1, <4>2
    <3>4. QED BY <3>1, <3>2, <3>3
  <2>2. a \in Parser!Entries(f) <=> f.lines[a].kind \in Parser!Signs BY DEF Parser!Entries, IsIndented
  <2> DEFINE old == IF sec = cur THEN BlockTo(f, cur, e) ELSE {}
  <2>3. old \in SUBSET (1..e)
    <3>1. BlockTo(f, cur, e) \in SUBSET (1..e) BY <1>1, UnderIs DEF BlockTo, UnderTo
    <3>2. QED BY <3>1
  <2>4. Parser!TextOf(f, old \union {a}) = Append(Parser!TextOf(f, old), Parser!Meant(f.lines[a]))
    BY <1>1, <2>3, TextOfMore
  <2>5. BlockTo(f, cur, a) = IF a \in Parser!Entries(f) THEN old \union {a} ELSE old BY <1>6
  <2> HIDE DEF old
  <2>6. OpenAt(sec, cur, wr) = Parser!TextOf(f, old) BY <2>1 DEF old
  <2>7. QED BY <2>2, <2>4, <2>5, <2>6 DEF RangeAt
<1> HIDE DEF stored, range
<1>12. QED BY <1>1, <1>8, <1>9, <1>10, <1>11 DEF Collected, stored, range

(* The end of a regular file: the last name is that of the last indented   *)
(* line, and every name has its block.                                     *)
LEMMA CollectEnd ==
  ASSUME NEW f, HasLines(f), Parser!Regular(f), NEW e, NEW sec, NEW cur, Walk(f, Len(f.lines) + 1, e, sec, cur),
         NEW secs, NEW wr, Collected(f, e, sec, secs, wr), Orphanless(f)
  PROVE  /\ DOMAIN AtEnd(cur, secs, wr) = Parser!SectionNames(f)
         /\ \A s \in DOMAIN AtEnd(cur, secs, wr) : AtEnd(cur, secs, wr)[s] = Parser!MeantText(f, s)
<1> DEFINE n == Len(f.lines)
           map == AtEnd(cur, secs, wr)
<1>1. n \in Nat /\ e \in 0..n /\ cur = NameAt(f, n + 1) BY LineFacts DEF Walk
<1>2. \A k : IsIndented(f, k) => k \in 1..e
  <2>1. SUFFICES ASSUME NEW k, IsIndented(f, k) PROVE k \in 1..e OBVIOUS
  <2>2. k \in 1..n BY <2>1, LineFacts
  <2>3. k \notin e + 1..n BY <1>1, <2>1 DEF Walk
  <2>4. QED BY <1>1, <2>2, <2>3
<1>3. ASSUME NEW h \in Parser!Headers(f) PROVE f.lines[h].name \in NamesTo(f, e)
  <2>1. PICK k \in Parser!Lines(f) : h \in Parser!HeaderOf(f, k) /\ Parser!Indented(f.lines[k]) BY DEF Parser!Regular
  <2>2. IsIndented(f, k) /\ k \in Nat BY <2>1, LineFacts DEF IsIndented
  <2>3. NameAt(f, k) = f.lines[h].name BY <2>1, <2>2, OneHeader
  <2>4. k \in Indents(f, e) BY <1>2, <2>2 DEF Indents
  <2>5. QED BY <2>3, <2>4 DEF NamesTo
<1>4. ASSUME NEW s \in NamesTo(f, e) PROVE s \in Parser!SectionNames(f)
  <2>1. PICK k \in Indents(f, e) : s = NameAt(f, k) BY DEF NamesTo
  <2>2. s # Null /\ k \in Nat BY <2>1 DEF Orphanless, Indents
  <2>3. Parser!HeaderOf(f, k) # {} BY <2>1, <2>2 DEF NameAt, NameOf
  <2>4. PICK h \in Parser!HeaderOf(f, k) : TRUE BY <2>3
  <2>5. h \in Parser!Headers(f) /\ s = f.lines[h].name BY <2>1, <2>2, <2>4, OneHeader
  <2>6. QED BY <2>5 DEF Parser!SectionNames
<1>5. NamesTo(f, e) = Parser!SectionNames(f) BY <1>3, <1>4 DEF Parser!SectionNames
<1>6. ASSUME NEW s, s # Null PROVE BlockTo(f, s, e) = Parser!Block(f, s)
  <2>1. \A k \in Parser!Under(f, s) : k <= e BY <1>1, <1>2, <1>6, UnderIs
  <2>2. UnderTo(f, s, e) = Parser!Under(f, s) BY <2>1 DEF UnderTo
  <2>3. QED BY <2>2 DEF BlockTo, Parser!Block
<1>7. CASE e = 0
  <2>1. NamesTo(f, e) = {} BY <1>7 DEF NamesTo, Indents
  <2>2. Parser!Headers(f) = {} BY <1>3, <2>1
  <2>3. Parser!HeaderOf(f, n + 1) = {} BY <2>2 DEF Parser!HeaderOf
  <2>4. cur = Null BY <1>1, <2>3 DEF NameAt, NameOf
  <2>5. DOMAIN secs = {} BY <1>7, <2>1 DEF Collected, Walk
  <2>6. map = secs BY <2>4 DEF AtEnd
  <2>7. QED BY <1>5, <2>1, <2>5, <2>6
<1>8. CASE e # 0
  <2>1. IsIndented(f, e) /\ sec = NameAt(f, e) /\ sec # Null /\ e \in Nat /\ e <= n + 1 BY <1>1, <1>8 DEF Walk, Orphanless
  <2>2. PICK g \in Parser!HeaderOf(f, e) : TRUE BY <2>1 DEF NameAt, NameOf
  <2>3. PICK h \in Parser!HeaderOf(f, n + 1) : g <= h /\ (g # h => e <= h) BY <1>1, <2>1, <2>2, LaterHeader
  <2>4. h \in Parser!Headers(f) /\ h \in Nat /\ cur = f.lines[h].name BY <1>1, <2>3, OneHeader
  <2>5. PICK k \in Parser!Lines(f) : h \in Parser!HeaderOf(f, k) /\ Parser!Indented(f.lines[k]) BY <2>4 DEF Parser!Regular
  <2>6. IsIndented(f, k) /\ k \in 1..e BY <1>2, <2>5 DEF IsIndented
  <2>7. h < k BY <2>5, <2>6, OneHeader
  <2>8. g = h BY <1>1, <2>3, <2>4, <2>6, <2>7
  <2>9. sec = f.lines[g].name BY <2>1, <2>2, OneHeader
  <2>10. cur = sec /\ cur # Null BY <2>1, <2>4, <2>8, <2>9
  <2>11. sec \in NamesTo(f, e)
    <3>1. e \in Indents(f, e) BY <1>2, <2>1 DEF Indents
    <3>2. QED BY <2>1, <3>1 DEF NamesTo
  <2>12. map = Parser!set_add(secs, sec, wr) BY <2>10 DEF AtEnd
  <2>13. DOMAIN map = DOMAIN secs \union {sec} BY <2>12 DEF Parser!set_add
  <2>14. DOMAIN map = NamesTo(f, e) BY <2>11, <2>13 DEF Collected
  <2>15. ASSUME NEW s \in DOMAIN map PROVE map[s] = Parser!MeantText(f, s)
    <3>1. s # Null BY <2>1, <2>13, <2>15 DEF Collected
    <3>2. map[s] = Parser!TextOf(f, BlockTo(f, s, e)) BY <1>8, <2>12, <2>13, <2>15 DEF Collected, Parser!set_add
    <3>3. QED BY <1>6, <3>1, <3>2 DEF Parser!MeantText
  <2>16. QED BY <1>5, <2>14, <2>15
<1>9. QED BY <1>7, <1>8

(***************************************************************************)
(* However irregular a file: where its entries are.                        *)
(***************************************************************************)
InText(t, m) == \E j \in 1..Len(t) : t[j] = m

Holding(f, a, e, secs, wr) ==
  /\ wr \in Seq(AllMeant(f))
  /\ \A s \in DOMAIN secs :
       \E h \in Parser!Headers(f) : f.lines[h].name = s /\ \E g \in Parser!HeaderOf(f, e) : h < g
  /\ \A k \in Parser!Entries(f) :
       k < a => (\E s \in DOMAIN secs : InText(secs[s], Parser!Meant(f.lines[k]))) \/ InText(wr, Parser!Meant(f.lines[k]))

(* The names whose text is stored stand before the one it is stored under. *)
LEMMA StoredNew ==
  ASSUME NEW f, HasLines(f), ~Parser!Repeated(f), NEW a, NEW e, NEW secs, NEW wr, Holding(f, a, e, secs, wr),
         e \in Nat, NEW m \in Nat, e <= m, NEW g \in Parser!HeaderOf(f, m)
  PROVE  f.lines[g].name \notin DOMAIN secs
<1>1. SUFFICES ASSUME f.lines[g].name \in DOMAIN secs PROVE FALSE OBVIOUS
<1>2. PICK h \in Parser!Headers(f) : f.lines[h].name = f.lines[g].name /\ \E x \in Parser!HeaderOf(f, e) : h < x
  BY <1>1 DEF Holding
<1>3. PICK x \in Parser!HeaderOf(f, e) : h < x BY <1>2
<1>4. PICK y \in Parser!HeaderOf(f, m) : x <= y BY <1>3, LaterHeader
<1>5. y = g /\ g \in Parser!Headers(f) BY <1>4, OneHeader
<1>6. x \in Nat /\ y \in Nat /\ h \in Nat BY <1>3, <1>4, OneHeader, LineFacts
<1>7. h # g BY <1>3, <1>4, <1>5, <1>6
<1>8. QED BY <1>2, <1>5, <1>7 DEF Parser!Repeated

(* What is stored under a new name leaves the other texts alone.           *)
LEMMA StillThere ==
  ASSUME NEW secs, NEW s, s \notin DOMAIN secs, NEW t, NEW m,
         (\E u \in DOMAIN secs : InText(secs[u], m)) \/ InText(t, m)
  PROVE  \E u \in DOMAIN Parser!set_add(secs, s, t) : InText(Parser!set_add(secs, s, t)[u], m)
<1> DEFINE new == Parser!set_add(secs, s, t)
<1>1. DOMAIN new = DOMAIN secs \union {s} /\ new[s] = t /\ \A u \in DOMAIN secs : new[u] = secs[u] BY DEF Parser!set_add
<1> HIDE DEF new
<1>2. \E u \in DOMAIN new : InText(new[u], m)
  <2>1. CASE \E u \in DOMAIN secs : InText(secs[u], m) BY <1>1, <2>1
  <2>2. CASE InText(t, m) BY <1>1, <2>2
  <2>3. QED BY <2>1, <2>2
<1>3. QED BY <1>2 DEF new

LEMMA HoldEntry ==
  ASSUME NEW f, HasLines(f), ~Parser!Repeated(f), NEW a, NEW e, NEW sec, NEW cur, Walk(f, a, e, sec, cur), IsIndented(f, a),
         NEW secs, NEW wr, Holding(f, a, e, secs, wr)
  PROVE  Holding(f, a + 1, a, StoredAt(sec, cur, secs, wr), RangeAt(f, a, OpenAt(sec, cur, wr)))
<1> DEFINE closes == ClosesAt(sec, cur)
           stored == StoredAt(sec, cur, secs, wr)
           open == OpenAt(sec, cur, wr)
           range == RangeAt(f, a, open)
           m == Parser!Meant(f.lines[a])
<1>1. a \in Nat /\ e \in Nat /\ e < a /\ a <= Len(f.lines) /\ Len(f.lines) \in Nat BY WalkEntry
<1>2. a \in Parser!Entries(f) <=> f.lines[a].kind \in Parser!Signs BY DEF Parser!Entries, IsIndented
<1>3. open \in Seq(AllMeant(f)) BY DEF OpenAt, Holding
<1>4. /\ range \in Seq(AllMeant(f))
      /\ \A x : InText(open, x) => InText(range, x)
      /\ a \in Parser!Entries(f) => InText(range, m)
  <2>1. CASE a \in Parser!Entries(f)
    <3>1. m \in AllMeant(f) BY <2>1 DEF AllMeant
    <3>2. range = Append(open, m) BY <1>2, <2>1 DEF RangeAt
    <3>3. /\ range \in Seq(AllMeant(f)) /\ Len(range) = Len(open) + 1 /\ Len(open) \in Nat
          /\ \A i \in 1..Len(open) : range[i] = open[i]
          /\ range[Len(open) + 1] = m
      BY <1>3, <3>1, <3>2, AppendProperties
    <3> HIDE DEF range, open
    <3>4. \A i \in 1..Len(open) : i \in 1..Len(range) BY <3>3
    <3>5. Len(open) + 1 \in 1..Len(range) BY <3>3
    <3>6. QED BY <3>3, <3>4, <3>5 DEF InText
  <2>2. CASE a \notin Parser!Entries(f)
    <3>1. range = open BY <1>2, <2>2 DEF RangeAt
    <3>2. QED BY <1>3, <2>2, <3>1
  <2>3. QED BY <2>1, <2>2
<1> HIDE DEF range, open
<1>5. CASE closes
  <2>1. sec # Null /\ cur # sec /\ stored = Parser!set_add(secs, sec, wr) BY <1>5 DEF ClosesAt, StoredAt
  <2>2. e # 0 /\ sec = NameAt(f, e) BY <2>1 DEF Walk
  <2>3. PICK g \in Parser!HeaderOf(f, e) : TRUE BY <2>1, <2>2 DEF NameAt, NameOf
  <2>4. sec = f.lines[g].name /\ g \in Parser!Headers(f) /\ g \in Nat /\ Parser!HeaderOf(f, e) = {g} BY <1>1, <2>2, <2>3, OneHeader
  <2>5. PICK x \in Parser!HeaderOf(f, a) : g <= x BY <1>1, <2>3, LaterHeader
  <2>6. cur = f.lines[x].name /\ x \in Nat BY <1>1, <2>5, OneHeader DEF Walk
  <2>7. g < x BY <2>1, <2>4, <2>5, <2>6
  <2>8. sec \notin DOMAIN secs BY <1>1, <2>3, <2>4, StoredNew
  <2>9. ASSUME NEW s \in DOMAIN stored
        PROVE  \E h \in Parser!Headers(f) : f.lines[h].name = s /\ \E y \in Parser!HeaderOf(f, a) : h < y
    <3>1. CASE s = sec BY <2>4, <2>5, <2>7, <3>1
    <3>2. CASE s # sec
      <4>1. s \in DOMAIN secs BY <2>1, <2>9, <3>2 DEF Parser!set_add
      <4>2. PICK h \in Parser!Headers(f) : f.lines[h].name = s /\ \E y \in Parser!HeaderOf(f, e) : h < y BY <4>1 DEF Holding
      <4>3. h < g /\ h \in Nat BY <2>4, <4>2, LineFacts
      <4>4. h < x BY <2>4, <2>6, <2>7, <4>3
      <4>5. QED BY <2>5, <4>2, <4>4
    <3>3. QED BY <3>1, <3>2
  <2>10. ASSUME NEW k \in Parser!Entries(f), k < a + 1
         PROVE  (\E s \in DOMAIN stored : InText(stored[s], Parser!Meant(f.lines[k]))) \/ InText(range, Parser!Meant(f.lines[k]))
    <3>1. CASE k = a BY <1>4, <2>10, <3>1
    <3>2. CASE k # a
      <4>1. k < a BY <1>1, <2>10, <3>2, LineFacts
      <4>2. (\E s \in DOMAIN secs : InText(secs[s], Parser!Meant(f.lines[k]))) \/ InText(wr, Parser!Meant(f.lines[k]))
        BY <2>10, <4>1 DEF Holding
      <4>3. QED BY <2>1, <2>8, <4>2, StillThere
    <3>3. QED BY <3>1, <3>2
  <2> HIDE DEF stored
  <2>11. QED BY <1>4, <2>9, <2>10 DEF Holding, range, open, stored
<1>6. CASE ~closes
  <2>1. stored = secs /\ open = wr BY <1>6 DEF StoredAt, OpenAt, open
  <2>2. ASSUME NEW s \in DOMAIN secs
        PROVE  \E h \in Parser!Headers(f) : f.lines[h].name = s /\ \E y \in Parser!HeaderOf(f, a) : h < y
    <3>1. PICK h \in Parser!Headers(f) : f.lines[h].name = s /\ \E y \in Parser!HeaderOf(f, e) : h < y BY <2>2 DEF Holding
    <3>2. PICK g \in Parser!HeaderOf(f, e) : h < g BY <3>1
    <3>3. PICK x \in Parser!HeaderOf(f, a) : g <= x BY <1>1, <3>2, LaterHeader
    <3>4. h \in Nat /\ g \in Nat /\ x \in Nat BY <1>1, <3>2, <3>3, OneHeader, LineFacts
    <3>5. h < x BY <3>2, <3>3, <3>4
    <3>6. QED BY <3>1, <3>3, <3>5
  <2>3. ASSUME NEW k \in Parser!Entries(f), k < a + 1
        PROVE  (\E s \in DOMAIN secs : InText(secs[s], Parser!Meant(f.lines[k]))) \/ InText(range, Parser!Meant(f.lines[k]))
    <3>1. CASE k = a BY <1>4, <2>3, <3>1
    <3>2. CASE k # a
      <4>1. k < a BY <1>1, <2>3, <3>2, LineFacts
      <4>2. (\E s \in DOMAIN secs : InText(secs[s], Parser!Meant(f.lines[k]))) \/ InText(wr, Parser!Meant(f.lines[k]))
        BY <2>3, <4>1 DEF Holding
      <4>3. QED BY <1>4, <2>1, <4>2
    <3>3. QED BY <3>1, <3>2
  <2> HIDE DEF stored
  <2>4. QED BY <1>4, <2>1, <2>2, <2>3 DEF Holding, range, open, stored
<1>7. QED BY <1>5, <1>6

(* At the end the last name gets what has not been stored.                 *)
LEMMA HoldEnd ==
  ASSUME NEW f, HasLines(f), ~Parser!Repeated(f), NEW e, NEW sec, NEW cur, Walk(f, Len(f.lines) + 1, e, sec, cur),
         NEW secs, NEW wr, Holding(f, Len(f.lines) + 1, e, secs, wr)
  PROVE  /\ DOMAIN AtEnd(cur, secs, wr) \subseteq Parser!SectionNames(f)
         /\ \A k \in Parser!Entries(f) : Parser!HeaderOf(f, k) # {} =>
              \E s \in DOMAIN AtEnd(cur, secs, wr) : InText(AtEnd(cur, secs, wr)[s], Parser!Meant(f.lines[k]))
<1> DEFINE n == Len(f.lines)
           map == AtEnd(cur, secs, wr)
<1>1. n \in Nat /\ e \in 0..n /\ e \in Nat /\ e <= n + 1 /\ cur = NameAt(f, n + 1) BY LineFacts DEF Walk
<1>2. \A s \in DOMAIN secs : s \in Parser!SectionNames(f) BY DEF Holding, Parser!SectionNames
<1>3. cur # Null => cur \in Parser!SectionNames(f) /\ cur \notin DOMAIN secs
  <2>1. SUFFICES ASSUME cur # Null PROVE cur \in Parser!SectionNames(f) /\ cur \notin DOMAIN secs OBVIOUS
  <2>2. PICK g \in Parser!HeaderOf(f, n + 1) : TRUE BY <1>1, <2>1 DEF NameAt, NameOf
  <2>3. cur = f.lines[g].name /\ g \in Parser!Headers(f) BY <1>1, <2>2, OneHeader
  <2>4. cur \notin DOMAIN secs BY <1>1, <2>2, <2>3, StoredNew
  <2>5. QED BY <2>3, <2>4 DEF Parser!SectionNames
<1>4. DOMAIN map \subseteq Parser!SectionNames(f) BY <1>2, <1>3 DEF Parser!set_add, AtEnd
<1>5. ASSUME NEW k \in Parser!Entries(f), Parser!HeaderOf(f, k) # {}
      PROVE  \E s \in DOMAIN map : InText(map[s], Parser!Meant(f.lines[k]))
  <2>1. k \in Nat /\ k <= n + 1 /\ k < n + 1
    <3>1. k \in 1..n BY <1>5, LineFacts
    <3>2. QED BY <1>1, <3>1
  <2>2. PICK g \in Parser!HeaderOf(f, k) : TRUE BY <1>5
  <2>3. PICK h \in Parser!HeaderOf(f, n + 1) : TRUE BY <1>1, <2>1, <2>2, LaterHeader
  <2>4. cur # Null BY <1>1, <2>3, OneHeader
  <2>5. (\E s \in DOMAIN secs : InText(secs[s], Parser!Meant(f.lines[k]))) \/ InText(wr, Parser!Meant(f.lines[k]))
    BY <1>5, <2>1 DEF Holding
  <2>6. map = Parser!set_add(secs, cur, wr) BY <2>4 DEF AtEnd
  <2> HIDE DEF map
  <2>7. QED BY <1>3, <2>4, <2>5, <2>6, StillThere
<1>6. QED BY <1>4, <1>5

(***************************************************************************)
(* _cluster_keys.                                                          *)
(***************************************************************************)
Closed(map) == Parser!WithDown(Parser!WithUp(Parser!WithKeys(map)))
SpecialKeys == {KEYS, UP, DOWN}

Progress(f, a, sec, cur, secs, wr) ==
  \E e \in 0..Len(f.lines) :
    /\ Walk(f, a, e, sec, cur)
    /\ Parser!Regular(f) => Collected(f, e, sec, secs, wr)
    /\ ~Parser!Repeated(f) => Holding(f, a, e, secs, wr)

ExactEnd(f, secs) ==
  Parser!Regular(f) =>
    \E map : /\ DOMAIN map = Parser!SectionNames(f) /\ \A s \in DOMAIN map : map[s] = Parser!MeantText(f, s)
             /\ secs = Closed(map)
HeldEnd(f, secs) ==
  ~Parser!Repeated(f) =>
    \E map : /\ DOMAIN map \subseteq Parser!SectionNames(f) /\ secs = Closed(map)
             /\ \A k \in Parser!Entries(f) :
                  Parser!HeaderOf(f, k) # {} => \E s \in DOMAIN map : InText(map[s], Parser!Meant(f.lines[k]))

ParserInv ==
  /\ step \in {"idle", "loop", "returned"}
  /\ step = "idle" => /\ at = 1 /\ sections = Parser!EmptyMap
                      /\ section = Null /\ cur_section = Null /\ working_range = <<>>
  /\ step # "idle" => text \in Line
  /\ step = "loop" /\ text.ended => Progress(text, at, section, cur_section, sections, working_range)
  /\ step = "returned" /\ text.ended => ExactEnd(text, sections) /\ HeldEnd(text, sections)

(* The first line.                                                         *)
LEMMA ProgressBegin == ASSUME NEW f \in Line PROVE Progress(f, 1, Null, Null, Parser!EmptyMap, <<>>)
<1>1. HasLines(f) BY FileAssumption DEF FileAssumption, HasLines
<1>2. Len(f.lines) \in Nat BY <1>1, LineFacts
<1>3. Walk(f, 1, 0, Null, Null) BY <1>1, <1>2, NoHeaderYet DEF Walk
<1>4. DOMAIN Parser!EmptyMap = {} BY DEF Parser!EmptyMap
<1>5. NamesTo(f, 0) = {} BY DEF NamesTo, Indents
<1>6. Collected(f, 0, Null, Parser!EmptyMap, <<>>) BY <1>4, <1>5 DEF Collected
<1>7. Holding(f, 1, 0, Parser!EmptyMap, <<>>)
  <2>1. \A k \in Parser!Entries(f) : ~(k < 1) BY <1>1, <1>2, LineFacts
  <2>2. QED BY <1>4, <2>1 DEF Holding
<1>8. QED BY <1>2, <1>3, <1>6, <1>7 DEF Progress

(* A line that is not indented.                                            *)
LEMMA ProgressOther ==
  ASSUME NEW f \in Line, NEW a \in 1..Len(f.lines), NEW sec, NEW cur, NEW secs, NEW wr, Progress(f, a, sec, cur, secs, wr),
         ~IsIndented(f, a), NEW next,
         \/ a \notin Parser!Headers(f) /\ next = cur
         \/ a \in Parser!Headers(f) /\ next = f.lines[a].name
  PROVE  Progress(f, a + 1, sec, next, secs, wr)
<1>1. HasLines(f) BY FileAssumption DEF FileAssumption, HasLines
<1>2. Len(f.lines) \in Nat BY <1>1, LineFacts
<1>3. PICK e \in 0..Len(f.lines) :
        /\ Walk(f, a, e, sec, cur)
        /\ Parser!Regular(f) => Collected(f, e, sec, secs, wr)
        /\ ~Parser!Repeated(f) => Holding(f, a, e, secs, wr)
  BY DEF Progress
<1>4. next = NameAt(f, a + 1)
  <2>1. cur = NameAt(f, a) /\ a \in Nat BY <1>2, <1>3 DEF Walk
  <2>2. QED BY <1>1, <2>1, AfterHeader, AfterOther
<1>5. Walk(f, a + 1, e, sec, next)
  <2>1. a + 1 \in 1..Len(f.lines) + 1 /\ e \in 0..(a + 1) - 1 BY <1>2, <1>3 DEF Walk
  <2>2. \A k \in e + 1..(a + 1) - 1 : k = a \/ k \in e + 1..a - 1 BY <1>2, <1>3
  <2>3. QED BY <1>3, <1>4, <2>1, <2>2 DEF Walk
<1>6. ~Parser!Repeated(f) => Holding(f, a + 1, e, secs, wr)
  <2>1. SUFFICES ASSUME ~Parser!Repeated(f) PROVE Holding(f, a + 1, e, secs, wr) OBVIOUS
  <2>2. \A k \in Parser!Entries(f) : k < a + 1 => k < a
    <3>1. SUFFICES ASSUME NEW k \in Parser!Entries(f), k < a + 1 PROVE k < a OBVIOUS
    <3>2. IsIndented(f, k) /\ k \in Nat BY <1>1, <1>2, LineFacts
    <3>3. k # a BY <3>2
    <3>4. QED BY <1>2, <3>1, <3>2, <3>3
  <2>3. QED BY <1>3, <2>1, <2>2 DEF Holding
<1>7. QED BY <1>3, <1>5, <1>6 DEF Progress

LEMMA RegularOrphanless == ASSUME NEW f, HasLines(f), Parser!Regular(f) PROVE Orphanless(f)
<1>1. SUFFICES ASSUME NEW k, IsIndented(f, k) PROVE NameAt(f, k) # Null BY DEF Orphanless
<1>2. k \in Nat /\ Parser!HeaderOf(f, k) # {} BY <1>1, LineFacts DEF Parser!Regular, IsIndented
<1>3. PICK h \in Parser!HeaderOf(f, k) : TRUE BY <1>2
<1>4. QED BY <1>2, <1>3, OneHeader

(* An indented line.                                                       *)
LEMMA ProgressEntry ==
  ASSUME NEW f \in Line, NEW a, NEW sec, NEW cur, NEW secs, NEW wr, Progress(f, a, sec, cur, secs, wr), IsIndented(f, a)
  PROVE  Progress(f, a + 1, cur, cur, StoredAt(sec, cur, secs, wr), RangeAt(f, a, OpenAt(sec, cur, wr)))
<1>1. HasLines(f) BY FileAssumption DEF FileAssumption, HasLines
<1>2. PICK e \in 0..Len(f.lines) :
        /\ Walk(f, a, e, sec, cur)
        /\ Parser!Regular(f) => Collected(f, e, sec, secs, wr)
        /\ ~Parser!Repeated(f) => Holding(f, a, e, secs, wr)
  BY DEF Progress
<1>3. a \in 0..Len(f.lines) /\ Walk(f, a + 1, a, cur, cur)
  <2>1. a \in Nat /\ a <= Len(f.lines) /\ Len(f.lines) \in Nat /\ Walk(f, a + 1, a, cur, cur) BY <1>1, <1>2, WalkEntry
  <2>2. QED BY <2>1
<1>4. Parser!Regular(f) => Collected(f, a, cur, StoredAt(sec, cur, secs, wr), RangeAt(f, a, OpenAt(sec, cur, wr)))
  <2>1. SUFFICES ASSUME Parser!Regular(f)
                 PROVE  Collected(f, a, cur, StoredAt(sec, cur, secs, wr), RangeAt(f, a, OpenAt(sec, cur, wr)))
    OBVIOUS
  <2>2. Orphanless(f) BY <1>1, <2>1, RegularOrphanless
  <2>3. cur # Null BY <1>2, <2>2 DEF Walk, Orphanless
  <2>4. QED BY <1>1, <1>2, <2>1, <2>2, <2>3, CollectEntry
<1>5. ~Parser!Repeated(f) => Holding(f, a + 1, a, StoredAt(sec, cur, secs, wr), RangeAt(f, a, OpenAt(sec, cur, wr)))
  BY <1>1, <1>2, HoldEntry
<1>6. QED BY <1>3, <1>4, <1>5 DEF Progress

(* The end of the file.                                                    *)
LEMMA ProgressEnd ==
  ASSUME NEW f \in Line, NEW a, NEW sec, NEW cur, NEW secs, NEW wr, Progress(f, a, sec, cur, secs, wr), a > Len(f.lines)
  PROVE  ExactEnd(f, Closed(AtEnd(cur, secs, wr))) /\ HeldEnd(f, Closed(AtEnd(cur, secs, wr)))
<1>1. HasLines(f) BY FileAssumption DEF FileAssumption, HasLines
<1>2. PICK e \in 0..Len(f.lines) :
        /\ Walk(f, a, e, sec, cur)
        /\ Parser!Regular(f) => Collected(f, e, sec, secs, wr)
        /\ ~Parser!Repeated(f) => Holding(f, a, e, secs, wr)
  BY DEF Progress
<1>3. a = Len(f.lines) + 1
  <2>1. Len(f.lines) \in Nat BY <1>1, LineFacts
  <2>2. QED BY <1>2, <2>1 DEF Walk
<1>4. ExactEnd(f, Closed(AtEnd(cur, secs, wr)))
  <2>1. SUFFICES ASSUME Parser!Regular(f)
                 PROVE  \E map : /\ DOMAIN map = Parser!SectionNames(f) /\ \A s \in DOMAIN map : map[s] = Parser!MeantText(f, s)
                                 /\ Closed(AtEnd(cur, secs, wr)) = Closed(map)
    BY DEF ExactEnd
  <2>2. Orphanless(f) BY <1>1, <2>1, RegularOrphanless
  <2>3. /\ DOMAIN AtEnd(cur, secs, wr) = Parser!SectionNames(f)
        /\ \A s \in DOMAIN AtEnd(cur, secs, wr) : AtEnd(cur, secs, wr)[s] = Parser!MeantText(f, s)
    BY <1>1, <1>2, <1>3, <2>1, <2>2, CollectEnd
  <2>4. QED BY <2>3
<1>5. HeldEnd(f, Closed(AtEnd(cur, secs, wr)))
  <2>1. SUFFICES ASSUME ~Parser!Repeated(f)
                 PROVE  \E map : /\ DOMAIN map \subseteq Parser!SectionNames(f) /\ Closed(AtEnd(cur, secs, wr)) = Closed(map)
                                 /\ \A k \in Parser!Entries(f) :
                                      Parser!HeaderOf(f, k) # {} => \E s \in DOMAIN map : InText(map[s], Parser!Meant(f.lines[k]))
    BY DEF HeldEnd
  <2>2. /\ DOMAIN AtEnd(cur, secs, wr) \subseteq Parser!SectionNames(f)
        /\ \A k \in Parser!Entries(f) :
             Parser!HeaderOf(f, k) # {} => \E s \in DOMAIN AtEnd(cur, secs, wr) : InText(AtEnd(cur, secs, wr)[s], Parser!Meant(f.lines[k]))
    BY <1>1, <1>2, <1>3, <2>1, HoldEnd
  <2>3. QED BY <2>2
<1>6. QED BY <1>4, <1>5

(* The special sections are made of the others, and the others stay.       *)
LEMMA ClosedIs ==
  ASSUME NEW map
  PROVE  /\ DOMAIN map \subseteq DOMAIN Closed(map) /\ DOMAIN Closed(map) \subseteq DOMAIN map \union SpecialKeys
         /\ {KEYS, UP} \subseteq DOMAIN Closed(map)
         /\ \A s \in DOMAIN map \ SpecialKeys : Closed(map)[s] = map[s]
         /\ Closed(map)[KEYS] = IF DOMAIN map = {} THEN Null ELSE DOMAIN map
         /\ Closed(map)[UP] = IF CLUSTER \in DOMAIN map THEN map[CLUSTER] ELSE Null
         /\ {ALL, CLUSTER} \subseteq DOMAIN map => Closed(map)[DOWN] = [all |-> map[ALL], without |-> map[CLUSTER]]
<1> DEFINE m1 == Parser!WithKeys(map)
           m2 == Parser!WithUp(m1)
           m3 == Parser!WithDown(m2)
<1>k. /\ KEYS # UP /\ KEYS # DOWN /\ KEYS # CLUSTER /\ KEYS # ALL /\ UP # DOWN /\ UP # CLUSTER /\ UP # ALL
      /\ DOWN # CLUSTER /\ DOWN # ALL
  BY KeysAssumption DEF KeysAssumption
<1>1. /\ DOMAIN m1 = DOMAIN map \union {KEYS} /\ m1[KEYS] = IF DOMAIN map = {} THEN Null ELSE DOMAIN map
      /\ \A s \in DOMAIN map : s # KEYS => m1[s] = map[s]
  BY DEF Parser!WithKeys, Parser!set_add
<1>2. /\ DOMAIN m2 = DOMAIN m1 \union {UP} /\ m2[UP] = IF CLUSTER \in DOMAIN m1 THEN m1[CLUSTER] ELSE Null
      /\ \A s \in DOMAIN m1 : s # UP => m2[s] = m1[s]
  BY DEF Parser!WithUp, Parser!set_add, Parser!set_get_data
<1>3. /\ {ALL, CLUSTER} \subseteq DOMAIN m2 => /\ DOMAIN m3 = DOMAIN m2 \union {DOWN}
                                               /\ m3[DOWN] = [all |-> m2[ALL], without |-> m2[CLUSTER]]
      /\ ~({ALL, CLUSTER} \subseteq DOMAIN m2) => m3 = m2
      /\ \A s \in DOMAIN m2 : s # DOWN => m3[s] = m2[s]
  BY DEF Parser!WithDown, Parser!set_add
<1>4. Closed(map) = m3 BY DEF Closed
<1> HIDE DEF m1, m2, m3
<1>5. CLUSTER \in DOMAIN m1 <=> CLUSTER \in DOMAIN map BY <1>1, <1>k
<1>6. {ALL, CLUSTER} \subseteq DOMAIN m2 <=> {ALL, CLUSTER} \subseteq DOMAIN map BY <1>1, <1>2, <1>k
<1>7. DOMAIN m2 \subseteq DOMAIN m3 /\ DOMAIN m3 \subseteq DOMAIN m2 \union {DOWN} BY <1>3
<1>8. DOMAIN map \subseteq DOMAIN m3 /\ DOMAIN m3 \subseteq DOMAIN map \union SpecialKeys /\ {KEYS, UP} \subseteq DOMAIN m3
  BY <1>1, <1>2, <1>7 DEF SpecialKeys
<1>9. \A s \in DOMAIN map \ SpecialKeys : m3[s] = map[s] BY <1>1, <1>2, <1>3 DEF SpecialKeys
<1>10. m3[KEYS] = IF DOMAIN map = {} THEN Null ELSE DOMAIN map BY <1>1, <1>2, <1>3, <1>k
<1>11. m3[UP] = IF CLUSTER \in DOMAIN map THEN map[CLUSTER] ELSE Null
  <2>1. m3[UP] = m2[UP] BY <1>2, <1>3, <1>k
  <2>2. CLUSTER \in DOMAIN map => m1[CLUSTER] = map[CLUSTER] BY <1>1, <1>k
  <2>3. QED BY <1>2, <1>5, <2>1, <2>2
<1>12. ASSUME {ALL, CLUSTER} \subseteq DOMAIN map PROVE m3[DOWN] = [all |-> map[ALL], without |-> map[CLUSTER]]
  <2>1. ALL \in DOMAIN map /\ CLUSTER \in DOMAIN map BY <1>12
  <2>2. m1[ALL] = map[ALL] /\ m1[CLUSTER] = map[CLUSTER] /\ ALL \in DOMAIN m1 /\ CLUSTER \in DOMAIN m1 BY <1>1, <1>k, <2>1
  <2>3. m2[ALL] = map[ALL] /\ m2[CLUSTER] = map[CLUSTER] BY <1>2, <1>k, <2>2
  <2>4. QED BY <1>3, <1>6, <1>12, <2>3
<1>13. QED BY <1>4, <1>8, <1>9, <1>10, <1>11, <1>12

(* Both properties follow.                                                 *)
LEMMA EndExact == ParserInv => SectionsExact
<1> SUFFICES ASSUME ParserInv, Parser!Done, Parser!Regular(text)
             PROVE  /\ \A s \in Parser!SectionNames(text) \ Parser!Special : Parser!set_get_data(sections, s) = Parser!MeantText(text, s)
                    /\ DOMAIN sections \subseteq Parser!SectionNames(text) \union Parser!Special
                    /\ sections[KEYS] = IF Parser!SectionNames(text) = {} THEN Null ELSE Parser!SectionNames(text)
                    /\ sections[UP] = IF CLUSTER \in Parser!SectionNames(text) THEN Parser!MeantText(text, CLUSTER) ELSE Null
                    /\ {ALL, CLUSTER} \subseteq Parser!SectionNames(text) =>
                         sections[DOWN] = [all |-> Parser!MeantText(text, ALL), without |-> Parser!MeantText(text, CLUSTER)]
  BY DEF SectionsExact, Parser!SectionsExact
<1>1. step = "returned" /\ text.ended BY DEF Parser!Done, Parser!Regular
<1>2. PICK map : /\ DOMAIN map = Parser!SectionNames(text) /\ \A s \in DOMAIN map : map[s] = Parser!MeantText(text, s)
                 /\ sections = Closed(map)
  BY <1>1 DEF ParserInv, ExactEnd
<1>3. Parser!Special = SpecialKeys BY DEF Parser!Special, SpecialKeys
<1>4. /\ DOMAIN map \subseteq DOMAIN sections /\ DOMAIN sections \subseteq DOMAIN map \union SpecialKeys
      /\ \A s \in DOMAIN map \ SpecialKeys : sections[s] = map[s]
      /\ sections[KEYS] = IF DOMAIN map = {} THEN Null ELSE DOMAIN map
      /\ sections[UP] = IF CLUSTER \in DOMAIN map THEN map[CLUSTER] ELSE Null
      /\ {ALL, CLUSTER} \subseteq DOMAIN map => sections[DOWN] = [all |-> map[ALL], without |-> map[CLUSTER]]
  BY <1>2, ClosedIs
<1>5. \A s \in DOMAIN map \ SpecialKeys : Parser!set_get_data(sections, s) = map[s] BY <1>4 DEF Parser!set_get_data
<1>6. QED BY <1>2, <1>3, <1>4, <1>5

(* At the end every entry below a name is in some section's text.          *)
LEMMA EndKept == ParserInv => EntriesKept
<1> SUFFICES ASSUME ParserInv, Parser!Done, text.ended, Parser!SectionNames(text) \intersect Parser!Special = {}, ~Parser!Repeated(text),
                    NEW k \in Parser!Entries(text), Parser!HeaderOf(text, k) # {}
             PROVE  \E t \in Parser!Texts : Parser!Contains(t, Parser!Meant(text.lines[k]))
  BY DEF EntriesKept, Parser!EntriesKept
<1>1. step = "returned" BY DEF Parser!Done
<1>2. PICK map : /\ DOMAIN map \subseteq Parser!SectionNames(text) /\ sections = Closed(map)
                 /\ \A j \in Parser!Entries(text) :
                      Parser!HeaderOf(text, j) # {} => \E s \in DOMAIN map : InText(map[s], Parser!Meant(text.lines[j]))
  BY <1>1 DEF ParserInv, HeldEnd
<1>3. PICK s \in DOMAIN map : InText(map[s], Parser!Meant(text.lines[k])) BY <1>2
<1>4. Parser!Special = SpecialKeys BY DEF Parser!Special, SpecialKeys
<1>5. s \in DOMAIN map \ SpecialKeys BY <1>2, <1>3, <1>4
<1>6. s \in DOMAIN sections \ Parser!Special /\ sections[s] = map[s] BY <1>2, <1>4, <1>5, ClosedIs
<1>7. sections[s] \in Parser!Texts BY <1>6 DEF Parser!Texts
<1>8. Parser!Contains(sections[s], Parser!Meant(text.lines[k])) BY <1>3, <1>6 DEF Parser!Contains, InText
<1>9. QED BY <1>7, <1>8

(* Before the first file.                                                  *)
LEMMA InitParser == BackendInit => ParserInv
BY DEF BackendInit, Parser!Init, ParserInv

(* A file is opened.                                                       *)
LEMMA BeginParser == Inv /\ ParserInv /\ BeginParse => ParserInv'
<1> SUFFICES ASSUME Inv, ParserInv, BeginParse PROVE ParserInv'
  OBVIOUS
<1>1. PICK lines \in {st.lines, file[NODES].lines} \ {Gone} : \E f \in lines : Parser!_cluster_keys(f) BY DEF BeginParse
<1>2. PICK f \in lines : Parser!_cluster_keys(f) BY <1>1
<1>3. lines \in SUBSET Line
  <2>1. NODES \in Tables BY DEF NODES, Tables
  <2>2. st \in Version /\ file[NODES] \in Version BY <2>1 DEF Inv, TypeOK
  <2>3. QED BY <2>2 DEF Version
<1>4. f \in Line /\ f # Unreadable BY <1>3, FileAssumption DEF FileAssumption
<1>5. /\ step = "idle" /\ text' = f /\ step' = "loop"
      /\ UNCHANGED <<at, sections, section, cur_section, working_range>>
  BY <1>2, <1>4 DEF Parser!_cluster_keys
<1>6. Progress(f, 1, Null, Null, Parser!EmptyMap, <<>>) BY <1>4, ProgressBegin
<1>7. at' = 1 /\ sections' = Parser!EmptyMap /\ section' = Null /\ cur_section' = Null /\ working_range' = <<>>
  BY <1>5 DEF ParserInv
<1>8. Progress(text', at', section', cur_section', sections', working_range') BY <1>5, <1>6, <1>7
<1>9. QED BY <1>4, <1>5, <1>8 DEF ParserInv

(* A line of the file.                                                     *)
LEMMA LineOf ==
  ASSUME ParserInv, Parser!Reading, text.ended
  PROVE  /\ text \in Line /\ Parser!ThisLine = text.lines[at] /\ at \in 1..Len(text.lines)
         /\ Progress(text, at, section, cur_section, sections, working_range)
<1>1. step = "loop" /\ text \in Line /\ Progress(text, at, section, cur_section, sections, working_range) /\ at <= Len(text.lines)
  BY DEF ParserInv, Parser!Reading
<1>2. HasLines(text) BY <1>1, FileAssumption DEF FileAssumption, HasLines
<1>3. Len(text.lines) \in Nat BY <1>2, LineFacts
<1>4. at \in 1..Len(text.lines) + 1 BY <1>1 DEF Progress, Walk
<1>5. QED BY <1>1, <1>3, <1>4 DEF Parser!ThisLine

LEMMA BlankParser == ParserInv /\ Parser!Blank => ParserInv'
<1> SUFFICES ASSUME ParserInv, Parser!Blank PROVE ParserInv'
  OBVIOUS
<1>1. /\ step = "loop" /\ step' = "loop" /\ at' = at + 1 /\ Parser!Reading /\ Parser!ThisLine.kind = "blank"
      /\ UNCHANGED <<text, sections, section, cur_section, working_range>>
  BY DEF Parser!Blank, Parser!Reading
<1>2. text.ended => Progress(text, at + 1, section, cur_section, sections, working_range)
  <2>1. SUFFICES ASSUME text.ended PROVE Progress(text, at + 1, section, cur_section, sections, working_range) OBVIOUS
  <2>2. /\ text \in Line /\ text.lines[at].kind = "blank" /\ at \in 1..Len(text.lines)
        /\ Progress(text, at, section, cur_section, sections, working_range)
    BY <1>1, <2>1, LineOf
  <2>3. ~IsIndented(text, at) /\ at \notin Parser!Headers(text) BY <2>2 DEF IsIndented, Parser!Indented, Parser!Signs, Parser!Headers
  <2>4. QED BY <2>2, <2>3, ProgressOther
<1>3. QED BY <1>1, <1>2 DEF ParserInv

LEMMA HeaderParser == ParserInv /\ Parser!Header => ParserInv'
<1> SUFFICES ASSUME ParserInv, Parser!Header PROVE ParserInv'
  OBVIOUS
<1>1. /\ step = "loop" /\ step' = "loop" /\ at' = at + 1 /\ Parser!Reading /\ Parser!ThisLine.kind = "header"
      /\ cur_section' = Parser!ThisLine.name
      /\ UNCHANGED <<text, sections, section, working_range>>
  BY DEF Parser!Header, Parser!Reading
<1>2. text.ended => Progress(text, at + 1, section, cur_section', sections, working_range)
  <2>1. SUFFICES ASSUME text.ended PROVE Progress(text, at + 1, section, cur_section', sections, working_range) OBVIOUS
  <2>2. /\ text \in Line /\ text.lines[at].kind = "header" /\ at \in 1..Len(text.lines) /\ cur_section' = text.lines[at].name
        /\ Progress(text, at, section, cur_section, sections, working_range)
    BY <1>1, <2>1, LineOf
  <2>3. HasLines(text) BY <2>2, FileAssumption DEF FileAssumption, HasLines
  <2>4. at \in Parser!Headers(text) BY <2>2, <2>3, LineFacts DEF Parser!Headers
  <2>5. ~IsIndented(text, at) BY <2>3, <2>4, LineFacts
  <2>6. QED BY <2>2, <2>4, <2>5, ProgressOther
<1>3. QED BY <1>1, <1>2 DEF ParserInv

LEMMA EntryParser == ParserInv /\ Parser!Entry => ParserInv'
<1> SUFFICES ASSUME ParserInv, Parser!Entry PROVE ParserInv'
  OBVIOUS
<1> DEFINE line == Parser!ThisLine
           range == IF line.kind \in Parser!Signs
                    THEN Append(Parser!Open, Parser!entry(line.kind, Parser!_substitute_dollars(line.text))) ELSE Parser!Open
<1>1. /\ step = "loop" /\ step' = "loop" /\ at' = at + 1 /\ Parser!Reading /\ Parser!Indented(line)
      /\ section' = cur_section /\ sections' = Parser!Stored /\ working_range' = range
      /\ UNCHANGED <<text, cur_section>>
  BY DEF Parser!Entry, Parser!Reading
<1>2. text.ended => Progress(text, at + 1, cur_section, cur_section, sections', working_range')
  <2>1. SUFFICES ASSUME text.ended PROVE Progress(text, at + 1, cur_section, cur_section, sections', working_range') OBVIOUS
  <2>2. /\ text \in Line /\ line = text.lines[at] /\ at \in 1..Len(text.lines)
        /\ Progress(text, at, section, cur_section, sections, working_range)
    BY <1>1, <2>1, LineOf
  <2>3. HasLines(text) BY <2>2, FileAssumption DEF FileAssumption, HasLines
  <2>4. IsIndented(text, at) BY <1>1, <2>2, <2>3, LineFacts DEF IsIndented
  <2>5. Parser!Stored = StoredAt(section, cur_section, sections, working_range)
    BY DEF Parser!Stored, Parser!Closes, StoredAt, ClosesAt
  <2>6. Parser!Open = OpenAt(section, cur_section, working_range)
    BY DEF Parser!Open, Parser!Closes, OpenAt, ClosesAt
  <2>7. line.kind \in Parser!Signs => Parser!entry(line.kind, Parser!_substitute_dollars(line.text)) = Parser!Meant(line)
    <3>1. SUFFICES ASSUME line.kind \in Parser!Signs
                   PROVE  Parser!entry(line.kind, Parser!_substitute_dollars(line.text)) = Parser!Meant(line)
      OBVIOUS
    <3>2. at \in DOMAIN text.lines BY <2>4 DEF IsIndented, Parser!Lines
    <3>3. Len(line.text) \in Nat /\ DOMAIN line.text = 1..Len(line.text) BY <2>2, <2>3, <3>1, <3>2 DEF HasLines, Parser!IsFile
    <3>4. Parser!_substitute_dollars(line.text) = Parser!Resolved(line.text) BY <3>3, Substituted
    <3>5. QED BY <3>4 DEF Parser!Meant
  <2>8. range = RangeAt(text, at, OpenAt(section, cur_section, working_range)) BY <2>2, <2>6, <2>7 DEF RangeAt
  <2>9. Progress(text, at + 1, cur_section, cur_section, StoredAt(section, cur_section, sections, working_range),
                 RangeAt(text, at, OpenAt(section, cur_section, working_range)))
    BY <2>2, <2>4, ProgressEntry
  <2>10. QED BY <1>1, <2>5, <2>8, <2>9
<1>3. QED BY <1>1, <1>2 DEF ParserInv

(* The end of the file.                                                    *)
LEMMA CloseParser == ParserInv /\ Parser!Close => ParserInv'
<1> SUFFICES ASSUME ParserInv, Parser!Close PROVE ParserInv'
  OBVIOUS
<1>1. /\ step = "loop" /\ step' = "returned" /\ text' = text /\ at > Len(text.lines)
      /\ sections' = Closed(AtEnd(cur_section, sections, working_range))
  BY DEF Parser!Close, Closed, AtEnd, Parser!AtTheEnd
<1>2. text \in Line BY <1>1 DEF ParserInv
<1>3. text.ended => ExactEnd(text, sections') /\ HeldEnd(text, sections')
  <2>1. SUFFICES ASSUME text.ended PROVE ExactEnd(text, sections') /\ HeldEnd(text, sections') OBVIOUS
  <2>2. Progress(text, at, section, cur_section, sections, working_range) BY <1>1, <2>1 DEF ParserInv
  <2>3. QED BY <1>1, <1>2, <2>2, ProgressEnd
<1>4. QED BY <1>1, <1>2, <1>3 DEF ParserInv

(* The caller has the sections.                                            *)
LEMMA ReturnParser == Parser!Return => ParserInv'
BY DEF Parser!Return, ParserInv, Parser!EmptyMap

LEMMA SameParser == ParserInv /\ UNCHANGED parser => ParserInv'
BY DEF ParserInv, parser

(* No step of the whole breaks what is known of the parser.                *)
LEMMA NextParser == Inv /\ ParserInv /\ [BackendNext]_backendVars => ParserInv'
<1> SUFFICES ASSUME Inv, ParserInv, [BackendNext]_backendVars PROVE ParserInv'
  OBVIOUS
<1>1. CASE BeginParse BY <1>1, BeginParser
<1>2. CASE Parse BY <1>2, BlankParser, HeaderParser, EntryParser, CloseParser DEF Parse
<1>3. CASE Parsed BY <1>3, ReturnParser DEF Parsed
<1>4. CASE Others \/ Lookup \/ NotReadable \/ Answered \/ SurveyKeys \/ SurveySection \/ SurveyReturn
  <2>1. UNCHANGED parser BY <1>4 DEF Others, Lookup, NotReadable, Answered, SurveyKeys, SurveySection, SurveyReturn
  <2>2. QED BY <2>1, SameParser
<1>5. CASE SurveyNext \/ (\E s \in Section : rangefunc_cluster(s))
           \/ (\E op \in {"mem", "get_groups", "get_admin"}, wanted \in (SUBSET Node) \ {{}} : Survey(op, wanted))
  <2>1. UNCHANGED parser BY <1>5 DEF SurveyNext, rangefunc_cluster, Survey, expand_cluster
  <2>2. QED BY <2>1, SameParser
<1>6. CASE UNCHANGED backendVars
  <2>1. UNCHANGED parser BY <1>6 DEF backendVars
  <2>2. QED BY <2>1, SameParser
<1>7. QED BY <1>1, <1>2, <1>3, <1>4, <1>5, <1>6 DEF BackendNext

(* The cache of the two halves together does what that of NodesCache does. *)
LEMMA NextCache == Inv /\ [BackendNext]_backendVars => Inv'
<1> SUFFICES ASSUME Inv, [BackendNext]_backendVars PROVE Inv'
  OBVIOUS
<1>0. NODES \in Tables BY DEF NODES, Tables
<1>1. CASE Others
  <2>1. CASE Tick \/ Chmod(NODES) BY <1>0, <2>1, TickInv, ChmodInv
  <2>2. CASE \E lines \in {Gone} \union {{f} : f \in IF First THEN Line ELSE Changing} : Write(NODES, lines)
    <3>1. PICK lines \in {Gone} \union {{f} : f \in IF First THEN Line ELSE Changing} : Write(NODES, lines) BY <2>2
    <3>2. lines \in {Gone} \union SUBSET Line BY ChangingAssumption DEF ChangingAssumption
    <3>3. QED BY <1>0, <3>1, <3>2, WriteInv
  <2>3. QED BY <1>1, <2>1, <2>2 DEF Others
<1>2. CASE Lookup BY <1>2, NoFileInv, HitInv, MissInv, OpenInv DEF Lookup
<1>3. CASE NotReadable \/ Parsed BY <1>3, OpenFailsInv, ReadInv DEF NotReadable, Parsed
<1>4. CASE Answered \/ SurveyKeys \/ SurveySection BY <1>4, ReturnInv DEF Answered, SurveyKeys, SurveySection
<1>5. CASE SurveyNext \/ (\E s \in Section : rangefunc_cluster(s))
           \/ (\E op \in {"mem", "get_groups", "get_admin"}, wanted \in (SUBSET Node) \ {{}} : Survey(op, wanted))
  <2>1. Ask(NODES) BY <1>5 DEF SurveyNext, rangefunc_cluster, Survey, expand_cluster
  <2>2. QED BY <1>0, <2>1, AskInv
<1>6. CASE BeginParse \/ Parse \/ SurveyReturn \/ UNCHANGED backendVars
  <2>1. UNCHANGED vars BY <1>6 DEF BeginParse, Parse, SurveyReturn, backendVars
  <2>2. QED BY <2>1, StutterInv
<1>7. QED BY <1>1, <1>2, <1>3, <1>4, <1>5, <1>6 DEF BackendNext

(* _expand_cluster and _cluster_keys together: in every state the cache is *)
(* as NodesCache has it, and the parser has collected what the lines it    *)
(* has read say.                                                           *)
THEOREM BackendInvariant == BackendSpec => [](Inv /\ ParserInv)
<1>1. BackendInit => Inv /\ ParserInv BY InitInv, InitParser DEF BackendInit
<1>2. Inv /\ ParserInv /\ [BackendNext]_backendVars => (Inv /\ ParserInv)' BY NextCache, NextParser
<1>3. QED BY <1>1, <1>2, PTL DEF BackendSpec

(* _cluster_keys, for any regular file: the sections are the ones it names *)
(* with the entries of their last blocks, and the special ones are made of *)
(* them.                                                                   *)
THEOREM AlwaysSections == BackendSpec => []SectionsExact
<1>1. QED BY BackendInvariant, EndExact, PTL

(* _cluster_keys, for any file at all whose names are neither repeated nor *)
(* special: no entry that stands below a name is lost.                     *)
THEOREM AlwaysKept == BackendSpec => []EntriesKept
<1>1. QED BY BackendInvariant, EndKept, PTL

(* _expand_cluster with the parser at work and other programs writing: an  *)
(* answer without a warning is current.                                    *)
THEOREM AlwaysCurrentHere == BackendSpec => []AnswerCurrent
<1>1. Inv => AnswerCurrent BY DEF Inv
<1>2. QED BY <1>1, BackendInvariant, PTL

(***************************************************************************)
(* The surveys.                                                            *)
(***************************************************************************)

(* What the cache keeps is what _cluster_keys made of its lines.           *)
MadeOf(lines, secs) ==
  \/ lines = {} /\ secs = Parser!EmptyMap
  \/ \E f \in Line : lines = {f} /\ lines # Gone /\ ExactEnd(f, secs)

KeptInv ==
  /\ table = NODES
  /\ cache[NODES] # NoEntry => MadeOf(cache[NODES].content, kept)
  /\ pc = "returned" /\ ~warned => MadeOf(answer, kept)
  /\ pc # "returned" => ~warned

LEMMA InitKept == BackendInit => KeptInv
<1> SUFFICES ASSUME BackendInit PROVE KeptInv
  OBVIOUS
<1>1. table = NODES /\ cache[NODES] = NoEntry /\ pc = "idle" /\ ~warned BY DEF BackendInit, Init, Tables, NODES
<1>2. QED BY <1>1 DEF KeptInv

(* The steps that neither look into the cache nor fill it.                 *)
LEMMA AloneKept ==
  ASSUME KeptInv, table' = table, cache' = cache, kept' = kept, (pc' # "returned" /\ ~warned') \/ UNCHANGED <<pc, answer, warned>>
  PROVE  KeptInv'
BY DEF KeptInv

LEMMA NextKept == Inv /\ ParserInv /\ KeptInv /\ [BackendNext]_backendVars => KeptInv'
<1> SUFFICES ASSUME Inv, ParserInv, KeptInv, [BackendNext]_backendVars PROVE KeptInv'
  OBVIOUS
<1>0. NODES \in Tables /\ table = NODES /\ NODES = "nodes.cf" /\ cache \in [Tables -> Entry \union {NoEntry}]
  BY DEF NODES, Tables, KeptInv, Inv, TypeOK
<1>1. CASE Others
  <2>1. /\ table' = table /\ cache' = cache /\ kept' = kept /\ UNCHANGED <<pc, answer, warned>>
    BY <1>1 DEF Others, Tick, Chmod, Write, query
  <2>2. QED BY <2>1, AloneKept
<1>2. CASE Lookup
  <2>1. CASE NoFile
    <3>1. table' = table /\ cache' = cache /\ kept' = kept /\ warned' /\ pc' = "returned" BY <1>2, <2>1 DEF Lookup, NoFile
    <3>2. QED BY <3>1 DEF KeptInv
  <2>2. CASE Hit
    <3>1. table' = table /\ cache' = cache /\ kept' = kept /\ cache[table] # NoEntry /\ answer' = cache[table].content /\ pc' = "returned"
      BY <1>2, <2>2 DEF Lookup, Hit, Good
    <3>2. QED BY <1>0, <3>1 DEF KeptInv
  <2>3. CASE Miss
    <3>1. table' = table /\ cache' = cache /\ kept' = kept /\ pc' = "open" /\ pc = "stat" /\ warned' = warned BY <1>0, <1>2, <2>3 DEF Lookup, Miss
    <3>2. QED BY <3>1, AloneKept DEF KeptInv
  <2>4. CASE Open
    <3>1. table' = table /\ cache' = cache /\ kept' = kept /\ pc' = "read" /\ pc = "open" /\ warned' = warned BY <1>2, <2>4 DEF Lookup, Open
    <3>2. QED BY <3>1, AloneKept DEF KeptInv
  <2>5. QED BY <1>2, <2>1, <2>2, <2>3, <2>4 DEF Lookup
<1>3. CASE NotReadable
  <2>1. /\ table' = table /\ kept' = Parser!EmptyMap /\ warned' /\ pc' = "returned"
        /\ cache' = [cache EXCEPT ![table] = [mtime |-> st.mtime, content |-> {}]]
    BY <1>3 DEF NotReadable, OpenFails
  <2>2. cache'[NODES].content = {} BY <1>0, <2>1
  <2>3. QED BY <2>1, <2>2 DEF KeptInv, MadeOf
<1>4. CASE Parsed
  <2>1. Read /\ answer' = {text} /\ kept' = sections /\ step = "returned" BY <1>4 DEF Parsed, Kept
  <2>2. PICK lines \in {st.lines, file[table].lines} \ {Gone} :
          /\ cache' = [cache EXCEPT ![table] = [mtime |-> st.mtime, content |-> Before \union lines]]
          /\ answer' = Before \union lines
    BY <2>1 DEF Read
  <2>3. Before = {} /\ table' = table /\ pc' = "returned" BY <1>0, <2>1 DEF Before, Read
  <2>4. lines = {text} /\ lines # Gone /\ text \in Line BY <2>1, <2>2, <2>3 DEF ParserInv
  <2>5. cache'[NODES].content = {text} BY <1>0, <2>2, <2>3, <2>4
  <2>6. ExactEnd(text, sections)
    <3>1. text.ended => ExactEnd(text, sections) BY <2>1 DEF ParserInv
    <3>2. ~text.ended => ~Parser!Regular(text) BY DEF Parser!Regular
    <3>3. QED BY <3>1, <3>2 DEF ExactEnd
  <2>7. MadeOf({text}, kept') BY <2>1, <2>4, <2>6 DEF MadeOf
  <2>8. QED BY <1>0, <2>1, <2>3, <2>5, <2>7 DEF KeptInv
<1>5. CASE Answered \/ SurveyKeys \/ SurveySection
  <2>1. table' = table /\ cache' = cache /\ kept' = kept /\ pc' = "idle" /\ ~warned'
    BY <1>5 DEF Answered, SurveyKeys, SurveySection, Return
  <2>2. QED BY <2>1, AloneKept
<1>6. CASE SurveyNext \/ (\E s \in Section : rangefunc_cluster(s))
           \/ (\E op \in {"mem", "get_groups", "get_admin"}, wanted \in (SUBSET Node) \ {{}} : Survey(op, wanted))
  <2>1. table' = NODES /\ cache' = cache /\ kept' = kept /\ pc' = "stat" /\ ~warned'
    BY <1>6 DEF SurveyNext, rangefunc_cluster, Survey, expand_cluster, Ask
  <2>2. QED BY <1>0, <2>1, AloneKept
<1>7. CASE BeginParse \/ Parse \/ SurveyReturn \/ UNCHANGED backendVars
  <2>1. table' = table /\ cache' = cache /\ kept' = kept /\ UNCHANGED <<pc, answer, warned>>
    BY <1>7 DEF BeginParse, Parse, SurveyReturn, backendVars, vars, query
  <2>2. QED BY <2>1, AloneKept
<1>8. QED BY <1>1, <1>2, <1>3, <1>4, <1>5, <1>6, <1>7 DEF BackendNext

(* The names the files that change can have.                               *)
Sections == UNION {Parser!SectionNames(f) : f \in Changing}
AllPlain == \A f \in Changing : Plain(f)

SurveyOK ==
  /\ survey = [op |-> survey.op, wanted |-> survey.wanted, left |-> survey.left, index |-> survey.index]
  /\ survey.op \in {"mem", "get_groups", "get_admin"}
  /\ file[NODES].lines \in moments
  /\ moments \subseteq {Gone} \union {{f} : f \in Changing}
  /\ refused[NODES] => Gone \in moments
  /\ pc = "returned" /\ warned => Gone \in moments
  /\ pc # "idle" => during \subseteq moments

(* What a survey has found was so at some moment, and what was so all the  *)
(* time is still to be asked for, or is found.                             *)
WasSo(index) == \A p \in index : \E lines \in moments : p[2] \in Held(lines, p[1])
Always(n, s) == \A lines \in moments : n \in Held(lines, s)
ToAsk(s) == (asked = KEYS /\ pc # "idle") \/ s \in survey.left \/ (asked = s /\ pc # "idle")
Found(n, s) ==
  /\ \E p \in survey.index : p[2] = n
  /\ survey.op # "get_admin" => <<s, n>> \in survey.index
Truthful ==
  /\ survey.left \subseteq Sections /\ (asked = KEYS \/ asked \in Sections)
  /\ WasSo(survey.index)
  /\ \A n \in survey.wanted : \A s : Always(n, s) => ToAsk(s) \/ Found(n, s)

SurveyInv ==
  /\ file[NODES].lines = Gone \/ \E f \in Line : file[NODES].lines = {f}
  /\ Surveying => SurveyOK /\ (~twice[NODES] => Truthful)

(* What the running query answers for the lines of a moment.               *)
Told(lines, s) ==
  IF s = KEYS THEN IF lines = Gone THEN {} ELSE UNION {Parser!SectionNames(f) : f \in lines} ELSE Held(lines, s)

(* Asked of the sections made of a file, a section is what the file says.  *)
LEMMA ToldOf ==
  ASSUME NEW f \in Line, Plain(f), {f} # Gone, NEW secs, ExactEnd(f, secs), NEW s, s = KEYS \/ s \in Sections, AllPlain
  PROVE  Expanded(s, Parser!set_get_data(secs, s)) = Told({f}, s)
<1> DEFINE names == Parser!SectionNames(f)
<1>1. PICK map : DOMAIN map = names /\ (\A t \in DOMAIN map : map[t] = Parser!MeantText(f, t)) /\ secs = Closed(map)
  BY DEF ExactEnd, Plain
<1>2. Parser!Special = SpecialKeys BY DEF Parser!Special, SpecialKeys
<1>3. /\ DOMAIN map \subseteq DOMAIN secs /\ DOMAIN secs \subseteq DOMAIN map \union SpecialKeys
      /\ {KEYS, UP} \subseteq DOMAIN secs
      /\ \A t \in DOMAIN map \ SpecialKeys : secs[t] = map[t]
      /\ secs[KEYS] = IF DOMAIN map = {} THEN Null ELSE DOMAIN map
  <2> DEFINE all == Closed(map)
  <2>1. /\ DOMAIN map \subseteq DOMAIN all /\ DOMAIN all \subseteq DOMAIN map \union SpecialKeys
        /\ {KEYS, UP} \subseteq DOMAIN all
        /\ \A t \in DOMAIN map \ SpecialKeys : all[t] = map[t]
        /\ all[KEYS] = IF DOMAIN map = {} THEN Null ELSE DOMAIN map
    BY ClosedIs
  <2> HIDE DEF all
  <2>2. secs = all BY <1>1 DEF all
  <2>3. QED BY <2>1, <2>2
<1>4. CASE s = KEYS
  <2>1. Parser!set_get_data(secs, s) = IF names = {} THEN Null ELSE names BY <1>1, <1>3, <1>4 DEF Parser!set_get_data
  <2>2. names # Null BY NullAssumption DEF NullAssumption
  <2>3. Expanded(s, Parser!set_get_data(secs, s)) = names BY <1>4, <2>1, <2>2, KeysAssumption DEF Expanded, KeysAssumption
  <2>4. Told({f}, s) = names BY <1>4 DEF Told
  <2>5. QED BY <2>3, <2>4
<1>5. CASE s # KEYS
  <2>1. s \notin SpecialKeys
    <3>1. PICK g \in Changing : s \in Parser!SectionNames(g) BY <1>5 DEF Sections
    <3>2. Plain(g) BY DEF AllPlain
    <3>3. QED BY <1>2, <3>1, <3>2 DEF Plain
  <2>2. s # DOWN BY <2>1 DEF SpecialKeys
  <2>3. CASE s \in names
    <3>1. Parser!set_get_data(secs, s) = Parser!MeantText(f, s) BY <1>1, <1>3, <2>1, <2>3 DEF Parser!set_get_data
    <3>2. Parser!MeantText(f, s) # Null BY <2>3, NullAssumption DEF NullAssumption
    <3>3. Expanded(s, Parser!set_get_data(secs, s)) = do_range_expand(Parser!MeantText(f, s)) BY <1>5, <2>2, <3>1, <3>2 DEF Expanded
    <3>4. Told({f}, s) = do_range_expand(Parser!MeantText(f, s)) BY <1>5, <2>3 DEF Told, Held
    <3>5. QED BY <3>3, <3>4
  <2>4. CASE s \notin names
    <3>1. Parser!set_get_data(secs, s) = Null BY <1>1, <1>3, <2>1, <2>4 DEF Parser!set_get_data
    <3>2. Expanded(s, Parser!set_get_data(secs, s)) = {} BY <3>1 DEF Expanded
    <3>3. Told({f}, s) = {} BY <1>5, <2>4 DEF Told, Held
    <3>4. QED BY <3>2, <3>3
  <2>5. QED BY <2>3, <2>4
<1>6. QED BY <1>4, <1>5

(* The answer of a question is that of a moment of the survey.             *)
LEMMA ResultTold ==
  ASSUME AllPlain, Inv, KeptInv, SurveyInv, Surveying, pc = "returned", ~twice[NODES]
  PROVE  \E lines \in moments : Result = Told(lines, asked)
<1>0. SurveyOK /\ table = NODES BY DEF SurveyInv, KeptInv
<1>g. Told(Gone, asked) = {} BY DEF Told, Held
<1>1. CASE warned
  <2>1. Result = {} BY <1>1 DEF Result
  <2>2. Gone \in moments BY <1>0, <1>1 DEF SurveyOK
  <2>3. QED BY <1>g, <2>1, <2>2
<1>2. CASE ~warned
  <2>1. MadeOf(answer, kept) BY <1>2 DEF KeptInv
  <2>2. answer \in during \/ (refused[NODES] /\ answer = {}) BY <1>0, <1>2 DEF Inv, AnswerCurrent
  <2>3. answer \in moments \/ (answer = {} /\ Gone \in moments) BY <1>0, <2>2 DEF SurveyOK
  <2>4. Result = Expanded(asked, Parser!set_get_data(kept, asked)) BY <1>2 DEF Result
  <2>5. CASE answer = {} /\ kept = Parser!EmptyMap
    <3>1. Gone \in moments
      <4>1. SUFFICES ASSUME answer \in moments PROVE Gone \in moments BY <2>3
      <4>2. answer = Gone \/ \E f \in Changing : answer = {f} BY <1>0, <4>1 DEF SurveyOK
      <4>3. QED BY <2>5, <4>1, <4>2
    <3>2. Parser!set_get_data(kept, asked) = Null BY <2>5 DEF Parser!EmptyMap, Parser!set_get_data
    <3>3. Result = {} BY <2>4, <3>2 DEF Expanded
    <3>4. QED BY <1>g, <3>1, <3>3
  <2>6. CASE \E f \in Line : answer = {f} /\ answer # Gone /\ ExactEnd(f, kept)
    <3>1. PICK f \in Line : answer = {f} /\ answer # Gone /\ ExactEnd(f, kept) BY <2>6
    <3>2. {f} \in moments /\ {f} # Gone BY <2>3, <3>1
    <3>3. f \in Changing
      <4>1. {f} \in {{g} : g \in Changing} BY <1>0, <3>2 DEF SurveyOK
      <4>2. QED BY <4>1
    <3>4. Plain(f) BY <3>3 DEF AllPlain
    <3>5. asked = KEYS \/ asked \in Sections BY DEF SurveyInv, Truthful
    <3>6. Result = Told({f}, asked) BY <2>4, <3>1, <3>2, <3>4, <3>5, ToldOf
    <3>7. QED BY <3>2, <3>6
  <2>7. QED BY <2>1, <2>5, <2>6 DEF MadeOf
<1>3. QED BY <1>1, <1>2

LEMMA InitSurvey == BackendInit => SurveyInv
<1> SUFFICES ASSUME BackendInit PROVE SurveyInv
  OBVIOUS
<1>1. file[NODES].lines = Gone /\ ~Surveying BY DEF BackendInit, Init, Tables, NODES, Surveying
<1>2. QED BY <1>1 DEF SurveyInv

(* More moments: what was so at one of them still was, and less was so all *)
(* the time.                                                               *)
LEMMA MoreMoments ==
  ASSUME Truthful, moments \subseteq moments', survey' = survey, asked' = asked,
         \A s : ToAsk(s) => ToAsk(s)'
  PROVE  Truthful'
<1>1. \A lines, s : Held(lines, s)' = Held(lines, s)
  OBVIOUS
<1>2. WasSo(survey.index)' BY <1>1 DEF Truthful, WasSo
<1>3. \A n, s : Always(n, s)' => Always(n, s) BY <1>1 DEF Always
<1>4. \A n, s : Found(n, s) => Found(n, s)' BY DEF Found
<1>5. QED BY <1>2, <1>3, <1>4 DEF Truthful

(* Other programs.                                                         *)
LEMMA OthersSurvey == ASSUME Inv, SurveyInv, Others PROVE SurveyInv'
<1>0. NODES \in Tables /\ file \in [Tables -> Version] /\ twice \in [Tables -> BOOLEAN] BY DEF NODES, Tables, Inv, TypeOK, GhostOK
<1>1. UNCHANGED <<survey, asked, pc, warned, refused>> BY DEF Others, Tick, Chmod, Write, query, ghosts
<1>2. CASE (Tick \/ Chmod(NODES)) /\ UNCHANGED moments
  <2>1. UNCHANGED <<file, moments, during, twice>> BY <1>2 DEF Tick, Chmod, ghosts
  <2>2. SurveyOK => SurveyOK' BY <1>1, <2>1 DEF SurveyOK
  <2>3. Truthful => Truthful'
    <3>1. \A s : ToAsk(s) => ToAsk(s)' BY <1>1 DEF ToAsk
    <3>2. QED BY <1>1, <2>1, <3>1, MoreMoments
  <2>4. QED BY <1>1, <2>1, <2>2, <2>3 DEF SurveyInv, Surveying
<1>3. CASE \E lines \in {Gone} \union {{f} : f \in IF First THEN Line ELSE Changing} :
             /\ Write(NODES, lines)
             /\ moments' = IF Surveying THEN moments \union {lines} ELSE moments
  <2>1. PICK lines \in {Gone} \union {{f} : f \in IF First THEN Line ELSE Changing} :
          /\ Write(NODES, lines)
          /\ moments' = IF Surveying THEN moments \union {lines} ELSE moments
    BY <1>3
  <2>2. /\ file' = [file EXCEPT ![NODES] = [mtime |-> now, lines |-> lines]]
        /\ during' = IF InQuery(NODES) THEN during \union {lines} ELSE during
        /\ twice' = [twice EXCEPT ![NODES] = twice[NODES] \/ file[NODES].mtime = now]
    BY <2>1 DEF Write
  <2>3. file'[NODES].lines = lines /\ (twice[NODES] => twice'[NODES]) BY <1>0, <2>2
  <2>4. lines = Gone \/ \E f \in Line : lines = {f} BY ChangingAssumption DEF ChangingAssumption
  <2>5. ASSUME Surveying PROVE SurveyOK' /\ (~twice'[NODES] => Truthful')
    <3>1. ~First BY <2>5 DEF First
    <3>2. moments' = moments \union {lines} /\ lines \in {Gone} \union {{f} : f \in Changing} BY <2>1, <2>5, <3>1
    <3>3. SurveyOK BY <2>5 DEF SurveyInv
    <3>4. during' \subseteq during \union {lines} BY <2>2
    <3>5. SurveyOK' BY <1>1, <2>3, <3>2, <3>3, <3>4 DEF SurveyOK
    <3>6. \A s : ToAsk(s) => ToAsk(s)' BY <1>1 DEF ToAsk
    <3>7. ~twice'[NODES] => Truthful BY <2>3, <2>5 DEF SurveyInv
    <3>8. QED BY <1>1, <3>2, <3>5, <3>6, <3>7, MoreMoments
  <2>6. QED BY <1>1, <2>3, <2>4, <2>5 DEF SurveyInv, Surveying
<1>4. QED BY <1>2, <1>3 DEF Others

(* The query goes on.                                                      *)
LEMMA SameSurvey ==
  ASSUME SurveyInv, UNCHANGED <<file, twice, asked, survey>>, moments \subseteq moments',
         moments' \subseteq moments \union {Gone}, pc # "idle" /\ pc' # "idle",
         Surveying => /\ refused'[NODES] => Gone \in moments'
                      /\ pc' = "returned" /\ warned' => Gone \in moments'
                      /\ during' \subseteq moments'
  PROVE  SurveyInv'
<1>1. ASSUME Surveying PROVE SurveyOK' /\ (~twice[NODES] => Truthful')
  <2>1. SurveyOK BY <1>1 DEF SurveyInv
  <2>2. SurveyOK' BY <1>1, <2>1 DEF SurveyOK
  <2>3. \A s : ToAsk(s) => ToAsk(s)' BY DEF ToAsk
  <2>4. QED BY <1>1, <2>2, <2>3, MoreMoments DEF SurveyInv
<1>2. QED BY <1>1 DEF SurveyInv, Surveying

LEMMA LookupSurvey == ASSUME Inv, KeptInv, SurveyInv, Lookup PROVE SurveyInv'
<1>0. /\ NODES \in Tables /\ table = NODES /\ NODES = "nodes.cf" /\ refused \in [Tables -> BOOLEAN]
      /\ UNCHANGED <<asked, survey, moments>>
  BY DEF NODES, Tables, KeptInv, Inv, GhostOK, Lookup
<1>1. Surveying => /\ file[NODES].lines \in moments /\ (refused[NODES] => Gone \in moments)
                   /\ (pc = "returned" /\ warned => Gone \in moments) /\ (pc # "idle" => during \subseteq moments)
  BY DEF SurveyInv, SurveyOK
<1>2. CASE NoFile
  <2>1. /\ pc = "stat" /\ file[NODES].lines = Gone /\ pc' = "returned" /\ UNCHANGED <<file, twice, refused, during>>
    BY <1>0, <1>2 DEF NoFile, environment, ghosts
  <2>2. QED BY <1>0, <1>1, <2>1, SameSurvey
<1>3. CASE Hit
  <2>1. /\ pc = "stat" /\ pc' = "returned" /\ during' = {file[NODES].lines} /\ UNCHANGED <<file, twice, refused, warned>>
    BY <1>0, <1>3 DEF Hit, environment
  <2>2. Surveying => ~warned BY <2>1 DEF KeptInv
  <2>3. QED BY <1>0, <1>1, <2>1, <2>2, SameSurvey
<1>4. CASE Miss
  <2>1. /\ pc = "stat" /\ pc' = "open" /\ during' = {file[NODES].lines} /\ ~refused'[NODES] /\ UNCHANGED <<file, twice>>
    BY <1>0, <1>4 DEF Miss, environment
  <2>2. QED BY <1>0, <1>1, <2>1, SameSurvey
<1>5. CASE Open
  <2>1. /\ pc = "open" /\ pc' = "read" /\ UNCHANGED <<file, twice, refused, during>>
    BY <1>5 DEF Open, environment, ghosts
  <2>2. QED BY <1>0, <1>1, <2>1, SameSurvey
<1>6. QED BY <1>2, <1>3, <1>4, <1>5 DEF Lookup

LEMMA NotReadableSurvey == ASSUME Inv, KeptInv, SurveyInv, NotReadable PROVE SurveyInv'
<1>1. /\ pc = "open" /\ pc' = "returned" /\ UNCHANGED <<file, twice, during, asked, survey>>
      /\ moments' = IF Surveying THEN moments \union {Gone} ELSE moments
  BY DEF NotReadable, OpenFails, environment
<1>2. Surveying => during \subseteq moments BY <1>1 DEF SurveyInv, SurveyOK
<1>3. QED BY <1>1, <1>2, SameSurvey

LEMMA ParseSurvey == ASSUME KeptInv, SurveyInv, BeginParse \/ Parse \/ Parsed PROVE SurveyInv'
<1>1. UNCHANGED <<file, twice, asked, survey, moments, during, refused, warned>>
  BY DEF BeginParse, Parse, Parsed, Read, vars, environment, query, ghosts
<1>2. CASE BeginParse \/ Parse
  <2>1. pc' = pc BY <1>2 DEF BeginParse, Parse, vars, query
  <2>2. SurveyOK => SurveyOK' BY <1>1, <2>1 DEF SurveyOK
  <2>3. \A s : ToAsk(s) => ToAsk(s)' BY <1>1, <2>1 DEF ToAsk
  <2>4. Truthful => Truthful' BY <1>1, <2>3, MoreMoments
  <2>5. QED BY <1>1, <2>2, <2>4 DEF SurveyInv, Surveying
<1>3. CASE Parsed
  <2>1. pc = "read" /\ pc' = "returned" BY <1>3 DEF Parsed, Read
  <2>2. Surveying => during \subseteq moments /\ (refused[NODES] => Gone \in moments) BY <2>1 DEF SurveyInv, SurveyOK
  <2>3. Surveying => ~warned BY <2>1 DEF KeptInv
  <2>4. QED BY <1>1, <2>1, <2>2, <2>3, SameSurvey
<1>4. QED BY <1>2, <1>3

(* A single question, and the end of a survey.                             *)
LEMMA SingleSurvey ==
  ASSUME SurveyInv, Answered \/ (\E s \in Section : rangefunc_cluster(s)) \/ SurveyReturn PROVE SurveyInv'
<1>1. file' = file
  BY DEF Answered, rangefunc_cluster, SurveyReturn, Return, expand_cluster, Ask, vars, environment
<1>2. ~Surveying' BY DEF Answered, rangefunc_cluster, SurveyReturn, Surveying
<1>3. QED BY <1>1, <1>2 DEF SurveyInv

(* A survey begins: all its sections are still to be asked for.            *)
LEMMA BeginSurvey ==
  ASSUME SurveyInv, NEW op \in {"mem", "get_groups", "get_admin"}, NEW wanted \in (SUBSET Node) \ {{}}, Survey(op, wanted)
  PROVE  SurveyInv'
<1>1. /\ pc' = "stat" /\ ~warned' /\ during' = {} /\ asked' = KEYS
      /\ UNCHANGED <<file, refused, twice>>
      /\ survey' = [op |-> op, wanted |-> wanted, left |-> {}, index |-> {}]
      /\ moments' = {file[NODES].lines} \union IF refused[NODES] THEN {Gone} ELSE {}
  BY DEF Survey, expand_cluster, Ask, environment
<1>2. file[NODES].lines \in {Gone} \union {{f} : f \in Changing}
  <2>1. file[NODES].lines = Gone \/ file[NODES].lines \subseteq Changing BY DEF Survey, Steady
  <2>2. file[NODES].lines = Gone \/ \E f \in Line : file[NODES].lines = {f} BY DEF SurveyInv
  <2>3. QED BY <2>1, <2>2
<1>3. survey'.op = op /\ survey'.wanted = wanted /\ survey'.left = {} /\ survey'.index = {} BY <1>1
<1>4. SurveyOK' BY <1>1, <1>2, <1>3 DEF SurveyOK
<1>5. Truthful' BY <1>1, <1>3 DEF Truthful, WasSo, ToAsk
<1>6. QED BY <1>1, <1>4, <1>5 DEF SurveyInv

(* The names of the sections are those of a moment; a section that is      *)
(* there all the time is among them.                                       *)
LEMMA KeysSurvey ==
  ASSUME AllPlain, Inv, KeptInv, SurveyInv, SurveyKeys
  PROVE  SurveyInv'
<1>1. /\ Surveying /\ asked = KEYS /\ pc = "returned" /\ pc' = "idle" /\ ~warned'
      /\ survey' = [survey EXCEPT !.left = Result]
      /\ UNCHANGED <<file, refused, twice, asked, moments>>
  BY DEF SurveyKeys, Return, environment, ghosts
<1>2. SurveyOK BY <1>1 DEF SurveyInv
<1>3. /\ survey'.op = survey.op /\ survey'.wanted = survey.wanted /\ survey'.left = Result /\ survey'.index = survey.index
      /\ survey' = [op |-> survey.op, wanted |-> survey.wanted, left |-> Result, index |-> survey.index]
  BY <1>1, <1>2 DEF SurveyOK
<1>4. SurveyOK'
  <2>1. survey' = [op |-> survey'.op, wanted |-> survey'.wanted, left |-> survey'.left, index |-> survey'.index] BY <1>3
  <2>2. QED BY <1>1, <1>2, <1>3, <2>1 DEF SurveyOK
<1>5. ASSUME ~twice[NODES] PROVE Truthful'
  <2>1. Truthful BY <1>1, <1>5 DEF SurveyInv
  <2>2. PICK lines \in moments : Result = Told(lines, KEYS) BY <1>1, <1>5, ResultTold
  <2>3. lines = Gone \/ \E f \in Changing : lines = {f} BY <1>2 DEF SurveyOK
  <2>4. Result \subseteq Sections BY <2>2, <2>3 DEF Told, Sections
  <2>5. ASSUME NEW n \in survey.wanted, NEW s, Always(n, s) PROVE s \in Result
    <3>1. n \in Held(lines, s) BY <2>5 DEF Always
    <3>2. lines # Gone BY <3>1 DEF Held
    <3>3. PICK f \in lines : s \in Parser!SectionNames(f) BY <3>1, <3>2 DEF Held
    <3>4. QED BY <2>2, <3>2, <3>3 DEF Told
  <2>6. WasSo(survey.index)' BY <1>1, <1>3, <2>1 DEF Truthful, WasSo
  <2>7. ASSUME NEW n \in survey'.wanted, NEW s, Always(n, s)' PROVE ToAsk(s)'
    <3>1. Always(n, s) BY <1>1, <2>7 DEF Always
    <3>2. s \in survey'.left BY <1>3, <2>5, <2>7, <3>1
    <3>3. QED BY <3>2 DEF ToAsk
  <2>8. QED BY <1>1, <1>3, <2>1, <2>4, <2>6, <2>7 DEF Truthful
<1>6. QED BY <1>1, <1>2, <1>4, <1>5 DEF SurveyInv, Surveying, NoSurvey, SurveyOK

(* The next section is asked for.                                          *)
LEMMA NextSurvey == ASSUME SurveyInv, SurveyNext PROVE SurveyInv'
<1>1. PICK s \in survey.left : expand_cluster(s) /\ survey' = [survey EXCEPT !.left = survey.left \ {s}] BY DEF SurveyNext
<1>2. /\ Surveying /\ pc = "idle" /\ pc' = "stat" /\ ~warned' /\ during' = {} /\ asked' = s
      /\ UNCHANGED <<file, refused, twice, moments>>
  BY <1>1 DEF SurveyNext, expand_cluster, Ask, environment
<1>3. SurveyOK BY <1>2 DEF SurveyInv
<1>4. /\ survey'.op = survey.op /\ survey'.wanted = survey.wanted /\ survey'.left = survey.left \ {s} /\ survey'.index = survey.index
      /\ survey' = [op |-> survey'.op, wanted |-> survey'.wanted, left |-> survey'.left, index |-> survey'.index]
  BY <1>1, <1>3 DEF SurveyOK
<1>5. SurveyOK' BY <1>2, <1>3, <1>4 DEF SurveyOK
<1>6. ASSUME ~twice[NODES] PROVE Truthful'
  <2>1. Truthful BY <1>2, <1>6 DEF SurveyInv
  <2>2. WasSo(survey.index)' BY <1>2, <1>4, <2>1 DEF Truthful, WasSo
  <2>3. ASSUME NEW n \in survey'.wanted, NEW t, Always(n, t)' PROVE ToAsk(t)' \/ Found(n, t)'
    <3>1. Always(n, t) BY <1>2, <2>3 DEF Always
    <3>2. ToAsk(t) \/ Found(n, t) BY <1>4, <2>1, <2>3, <3>1 DEF Truthful
    <3>3. CASE ToAsk(t) BY <1>2, <1>4, <3>3 DEF ToAsk
    <3>4. CASE Found(n, t) BY <1>4, <3>4 DEF Found
    <3>5. QED BY <3>2, <3>3, <3>4
  <2>4. QED BY <1>1, <1>2, <1>4, <2>1, <2>2, <2>3 DEF Truthful
<1>7. QED BY <1>2, <1>5, <1>6 DEF SurveyInv

(* What the section holds is noted.                                        *)
LEMMA NotedIn ==
  ASSUME NEW old, NEW nodes, NEW s, survey.op \in {"mem", "get_groups", "get_admin"}
  PROVE  /\ Indexed(old, s, nodes) \subseteq old \union ({s} \X nodes)
         /\ \A n \in nodes \intersect survey.wanted : <<s, n>> \in Indexed(old, s, nodes)
         /\ survey.op # "get_admin" => old \subseteq Indexed(old, s, nodes)
         /\ \A p \in old : p[2] \in nodes \/ p \in Indexed(old, s, nodes)
BY DEF Indexed

(* The answer for a section is put into the index of the survey.           *)
LEMMA SectionSurvey ==
  ASSUME AllPlain, Inv, KeptInv, SurveyInv, SurveySection
  PROVE  SurveyInv'
<1> DEFINE new == Indexed(survey.index, asked, Result)
<1>1. /\ Surveying /\ asked # KEYS /\ pc = "returned" /\ pc' = "idle" /\ ~warned'
      /\ survey' = [survey EXCEPT !.index = new]
      /\ UNCHANGED <<file, refused, twice, asked, moments>>
  BY DEF SurveySection, Return, environment, ghosts
<1>2. SurveyOK BY <1>1 DEF SurveyInv
<1> HIDE DEF new
<1>3. /\ survey'.op = survey.op /\ survey'.wanted = survey.wanted /\ survey'.left = survey.left /\ survey'.index = new
      /\ survey' = [op |-> survey'.op, wanted |-> survey'.wanted, left |-> survey'.left, index |-> survey'.index]
  BY <1>1, <1>2 DEF SurveyOK
<1>4. SurveyOK' BY <1>1, <1>2, <1>3 DEF SurveyOK
<1>5. ASSUME ~twice[NODES] PROVE Truthful'
  <2>1. Truthful BY <1>1, <1>5 DEF SurveyInv
  <2>2. PICK lines \in moments : Result = Told(lines, asked) BY <1>1, <1>5, ResultTold
  <2>3. Result = Held(lines, asked) BY <1>1, <2>2 DEF Told
  <2>n. /\ new \subseteq survey.index \union ({asked} \X Result)
        /\ \A n \in Result \intersect survey.wanted : <<asked, n>> \in new
        /\ survey.op # "get_admin" => survey.index \subseteq new
        /\ \A p \in survey.index : p[2] \in Result \/ p \in new
    BY <1>2, NotedIn DEF SurveyOK, new
  <2>4. WasSo(new)
    <3>1. SUFFICES ASSUME NEW p \in new PROVE \E l \in moments : p[2] \in Held(l, p[1]) BY DEF WasSo
    <3>2. CASE p \in survey.index BY <2>1, <3>2 DEF Truthful, WasSo
    <3>3. CASE p \in {asked} \X Result
      <4>1. p[1] = asked /\ p[2] \in Result BY <3>3
      <4>2. QED BY <2>3, <4>1
    <3>4. QED BY <2>n, <3>2, <3>3
  <2>5. WasSo(survey.index)' BY <1>1, <1>3, <2>4 DEF WasSo
  <2>6. ASSUME NEW n \in survey'.wanted, NEW t, Always(n, t)' PROVE ToAsk(t)' \/ Found(n, t)'
    <3>1. Always(n, t) BY <1>1, <2>6 DEF Always
    <3>2. ToAsk(t) \/ Found(n, t) BY <1>3, <2>1, <2>6, <3>1 DEF Truthful
    <3>3. CASE t \in survey.left BY <1>3, <3>3 DEF ToAsk
    <3>4. CASE asked = t
      <4>1. n \in Result \intersect survey.wanted BY <1>3, <2>3, <2>6, <3>1, <3>4 DEF Always
      <4>2. <<t, n>> \in new BY <2>n, <3>4, <4>1
      <4>3. <<t, n>>[2] = n OBVIOUS
      <4>4. \E p \in new : p[2] = n BY <4>2, <4>3
      <4>5. QED BY <1>3, <4>2, <4>4 DEF Found
    <3>5. CASE Found(n, t)
      <4>1. survey.op # "get_admin" => <<t, n>> \in new BY <2>n, <3>5 DEF Found
      <4>2. \E p \in new : p[2] = n
        <5>1. PICK p \in survey.index : p[2] = n BY <3>5 DEF Found
        <5>2. CASE n \in Result
          <6>1. <<asked, n>> \in new BY <1>3, <2>n, <2>6, <5>2
          <6>2. <<asked, n>>[2] = n OBVIOUS
          <6>3. QED BY <6>1, <6>2
        <5>3. CASE n \notin Result BY <2>n, <5>1, <5>3
        <5>4. QED BY <5>2, <5>3
      <4>3. QED BY <1>3, <4>1, <4>2 DEF Found
    <3>6. QED BY <1>1, <3>2, <3>3, <3>4, <3>5 DEF ToAsk
  <2>7. QED BY <1>1, <1>3, <2>1, <2>5, <2>6 DEF Truthful
<1>6. QED BY <1>1, <1>4, <1>5 DEF SurveyInv

LEMMA NextSurveys == AllPlain /\ Inv /\ KeptInv /\ SurveyInv /\ [BackendNext]_backendVars => SurveyInv'
<1> SUFFICES ASSUME AllPlain, Inv, KeptInv, SurveyInv, [BackendNext]_backendVars PROVE SurveyInv'
  OBVIOUS
<1>1. CASE Others BY <1>1, OthersSurvey
<1>2. CASE Lookup BY <1>2, LookupSurvey
<1>3. CASE NotReadable BY <1>3, NotReadableSurvey
<1>4. CASE BeginParse \/ Parse \/ Parsed BY <1>4, ParseSurvey
<1>5. CASE Answered \/ (\E s \in Section : rangefunc_cluster(s)) \/ SurveyReturn BY <1>5, SingleSurvey
<1>6. CASE \E op \in {"mem", "get_groups", "get_admin"}, wanted \in (SUBSET Node) \ {{}} : Survey(op, wanted)
  BY <1>6, BeginSurvey
<1>7. CASE SurveyKeys BY <1>7, KeysSurvey
<1>8. CASE SurveyNext BY <1>8, NextSurvey
<1>9. CASE SurveySection BY <1>9, SectionSurvey
<1>10. CASE UNCHANGED backendVars
  <2>1. UNCHANGED <<file, twice, during, refused, pc, warned, asked, survey, moments>>
    BY <1>10 DEF backendVars, vars, environment, query, ghosts
  <2>2. SurveyOK => SurveyOK' BY <2>1 DEF SurveyOK
  <2>3. \A s : ToAsk(s) => ToAsk(s)' BY <2>1 DEF ToAsk
  <2>4. Truthful => Truthful' BY <2>1, <2>3, MoreMoments
  <2>5. QED BY <2>1, <2>2, <2>4 DEF SurveyInv, Surveying
<1>11. QED BY <1>1, <1>2, <1>3, <1>4, <1>5, <1>6, <1>7, <1>8, <1>9, <1>10 DEF BackendNext

(* When nothing is left to ask, the survey is true.                        *)
LEMMA SurveyEnds == SurveyInv => SurveyTrue
<1> SUFFICES ASSUME SurveyInv, Surveyed, ~twice[NODES]
             PROVE  /\ \A s \in ret : \E lines \in moments : Held(lines, s) \intersect survey.wanted # {}
                    /\ \A n \in survey.wanted : \A s :
                         Always(n, s) => n \notin Unknown /\ (survey.op # "get_admin" => s \in ret)
  BY DEF SurveyTrue, Always
<1>1. Truthful /\ pc = "idle" /\ survey.left = {} BY DEF SurveyInv, Surveyed
<1>2. ASSUME NEW s \in ret PROVE \E lines \in moments : Held(lines, s) \intersect survey.wanted # {}
  <2>1. PICK p \in survey.index : s = p[1] /\ p[2] \in survey.wanted BY DEF ret
  <2>2. PICK lines \in moments : p[2] \in Held(lines, p[1]) BY <1>1 DEF Truthful, WasSo
  <2>3. QED BY <2>1, <2>2
<1>3. ASSUME NEW n \in survey.wanted, NEW s, Always(n, s) PROVE n \notin Unknown /\ (survey.op # "get_admin" => s \in ret)
  <2>1. Found(n, s) BY <1>1, <1>3 DEF Truthful, ToAsk
  <2>2. n \notin Unknown BY <2>1 DEF Found, Unknown
  <2>3. ASSUME survey.op # "get_admin" PROVE s \in ret
    <3>1. <<s, n>> \in survey.index BY <2>1, <2>3 DEF Found
    <3>2. <<s, n>>[1] = s /\ <<s, n>>[2] = n OBVIOUS
    <3>3. QED BY <3>1, <3>2 DEF ret
  <2>4. QED BY <2>2, <2>3
<1>4. QED BY <1>2, <1>3

(* mem, get_groups and get_admin, whatever other programs do to the file   *)
(* between their questions: what they report was so at some moment, and    *)
(* what was so all the time they report.                                   *)
THEOREM AlwaysTrue == ASSUME AllPlain PROVE BackendSpec => []SurveyTrue
<1>1. BackendInit => Inv /\ ParserInv /\ KeptInv /\ SurveyInv BY InitInv, InitParser, InitKept, InitSurvey DEF BackendInit
<1>2. (Inv /\ ParserInv /\ KeptInv /\ SurveyInv) /\ [BackendNext]_backendVars => (Inv /\ ParserInv /\ KeptInv /\ SurveyInv)'
  BY NextCache, NextParser, NextKept, NextSurveys
<1>3. (Inv /\ ParserInv /\ KeptInv /\ SurveyInv) => SurveyTrue BY SurveyEnds
<1>4. QED BY <1>1, <1>2, <1>3, PTL DEF BackendSpec
=============================================================================
