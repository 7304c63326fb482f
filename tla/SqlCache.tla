------------------------------ MODULE SqlCache ------------------------------
(***************************************************************************)
(* functions/sqlite.c: clusters in an SQLite database.  %cluster reads all *)
(* rows of a cluster into an entry that is good for some seconds; has, mem,*)
(* clusters, ... ask the database each time.  The connection is kept among *)
(* the caches, too.  The database changes in place or, as yaml2sqlite.rb   *)
(* does it, is replaced by another file of the same name, which a          *)
(* connection that is kept does not see.                                   *)
(***************************************************************************)
EXTENDS Integers, FiniteSets, Sequences, SequencesExt

CONSTANTS
  Cluster,      \* cluster names
  Section,      \* keys
  Name,         \* what texts name: nodes and keys
  Like,         \* Like[c]: the clusters that LIKE finds for the name c
  LikeName,     \* LikeName[n]: the nodes, keys and values it finds for n
  Self,         \* the cluster of a target written with a $
  Databases,    \* what the database can hold
  Queries,      \* the calls programs make
  Expiry,       \* seconds an entry is good for: 30 in the code
  None,         \* no entry, no connection, no query
  MaxTime,      \* bound: seconds
  MaxChanges,   \* bound: times the database, its file or want_caching changes
  MaxFailing,   \* bound: seconds in which a query fails
  MaxDepth      \* frames the C stack has room for

(* rows[c] maps the keys of c in table clusters to texts: names, and the   *)
(* targets of calls of cluster().  reverse: the rows <<node, key, cluster>>*)
(* of expanded_reverse_clusters; literal: <<key, value, cluster>> of       *)
(* clusters_norange.                                                       *)
Target(c, s) == [c |-> c, s |-> s]
Targets == [c : Cluster, s : Section]

Texts == [names : SUBSET Name, todo : SUBSET [c : Cluster \union {Self}, s : Section]]

ASSUME DatabaseAssumption ==
  /\ Section \subseteq Name
  /\ \A d \in Databases : \A c \in Cluster :
       DOMAIN d.rows[c] \subseteq Section /\ \A s \in DOMAIN d.rows[c] : d.rows[c][s] \in Texts
ASSUME LikeAssumption ==
  (\A c \in Cluster : Like[c] \subseteq Cluster) /\ (\A n \in Name : LikeName[n] \subseteq Name)
ASSUME QueriesAssumption == \A q \in Queries : q.fn \in {"cluster", "group"} => q.ts \subseteq Targets
ASSUME BoundAssumption == /\ Expiry \in Nat /\ MaxTime \in Nat
                          /\ MaxChanges \in Nat /\ MaxFailing \in Nat /\ MaxDepth \in Nat \ {0}

VARIABLES
  files,        \* what the files hold that had the database's name; the last one has it
  now, changes,
  connection,   \* the file "sqlite:nodes" is connected to, or None
  cache,        \* cache[c]: the cache_entry of c, or None
  registered,   \* the set of entries is among lr->caches
  want_caching,
  stack,        \* the request and the expansions for it, innermost last
  query, warned,
  running,      \* the C stack has not overflowed
  seen,         \* ghost: seen[t]: the databases a query could have read in second t
  failed,       \* ghost: the seconds in which a query failed
  asked         \* ghost: the second the request began

environment == <<files, now, changes>>
caching == <<connection, cache, registered, want_caching>>
request == <<stack, query, warned, running, asked>>
vars == <<environment, caching, request, seen, failed>>

Init ==
  /\ \E d \in Databases : files = <<d>> /\ seen = [t \in 0..MaxTime |-> IF t = 0 THEN {d} ELSE {}]
  /\ now = 0 /\ changes = 0
  /\ connection = None /\ cache = [c \in Cluster |-> None] /\ registered = FALSE /\ want_caching \in BOOLEAN
  /\ stack = <<>> /\ query = None /\ warned = FALSE /\ running = TRUE
  /\ failed = {} /\ asked = 0

(***************************************************************************)
(* _open_db, and what an SQL statement finds.                              *)
(***************************************************************************)
Connected == IF connection = None THEN Len(files) ELSE connection
Visible == files[Connected]

Opened == connection' = IF want_caching THEN Connected ELSE connection

(* sqlite3_open or sqlite3_prepare fails, which warns; or a step does,     *)
(* which ends the rows as if there were no more.                           *)
Outcome == {"rows", "cut", "unprepared"} \union IF connection = None THEN {"unopened"} ELSE {}
Open(outcome) == IF outcome = "unopened" THEN UNCHANGED connection ELSE Opened
Warns(outcome) == outcome \in {"unprepared", "unopened"}
Failing(outcome) ==
  /\ failed' = IF outcome = "rows" THEN failed ELSE failed \union {now}
  /\ Cardinality(failed') <= MaxFailing

(***************************************************************************)
(* _cluster_keys: a value for each key, of any cluster the name is LIKE,   *)
(* with $key resolved under the name that was asked for; and KEYS.         *)
(***************************************************************************)
_substitute_dollars_fault(c, text) ==
  [text EXCEPT !.todo = {IF x.c = Self THEN Target(c, "CLUSTER") ELSE x : x \in @}]
_substitute_dollars(c, text) ==
  [text EXCEPT !.todo = {IF x.c = Self THEN Target(c, x.s) ELSE x : x \in @}]

Keys(d, c) == UNION {DOMAIN d.rows[b] : b \in Like[c]}
Values(d, c, s) == {_substitute_dollars(c, d.rows[b][s]) : b \in {x \in Like[c] : s \in DOMAIN d.rows[x]}}

_join_elements(keys) == [names |-> keys, todo |-> {}]

WithKeys(sections) ==
  [s \in DOMAIN sections \union (IF DOMAIN sections = {} THEN {} ELSE {"KEYS"}) |->
     IF s = "KEYS" THEN _join_elements(DOMAIN sections) ELSE sections[s]]

Rows(d, c, keys) == {f \in [keys -> UNION {Values(d, c, s) : s \in keys}] : \A s \in keys : f[s] \in Values(d, c, s)}

_cluster_keys(c, outcome) ==
  CASE Warns(outcome) -> {<<>>}
    [] outcome = "rows" -> {WithKeys(f) : f \in Rows(Visible, c, Keys(Visible, c))}
    [] outcome = "cut" -> {WithKeys(f) : f \in UNION {Rows(Visible, c, keys) : keys \in SUBSET Keys(Visible, c)}}

(***************************************************************************)
(* _expand_cluster.                                                        *)
(***************************************************************************)
Request(ts) == [t |-> None, pc |-> "eval", at |-> now, until |-> now, text |-> None, todo |-> ts, acc |-> {}]
Expansion(t) == [t |-> t, pc |-> "lookup", at |-> now, until |-> now, text |-> None, todo |-> {}, acc |-> {}]

Top == stack[Len(stack)]
AtTop(f) == [stack EXCEPT ![Len(stack)] = f]
Expanding(pc) == running /\ stack # <<>> /\ Top.pc = pc

Return_fault(v) ==  \* the smaller range is not united with the larger one
  stack' = [Front(stack) EXCEPT ![Len(stack) - 1].acc = IF Cardinality(v) > Cardinality(@) THEN v ELSE @]
Return(v) == stack' = [Front(stack) EXCEPT ![Len(stack) - 1].acc = @ \union v]

(* A section that is missing warns, and one that is there is evaluated.    *)
Use(sections, at) ==
  LET s == Top.t.s IN
  IF s \notin DOMAIN sections THEN Return({}) /\ warned' = TRUE
  ELSE /\ stack' = AtTop([Top EXCEPT !.pc = "eval", !.at = at, !.until = now, !.text = sections[s],
                                     !.todo = sections[s].todo, !.acc = sections[s].names])
       /\ UNCHANGED warned

Good_fault(e) == e # None
Good(e) == e # None /\ ~(e.mtime + Expiry < now)

FindCache == registered' = (registered \/ want_caching)

Hit ==
  /\ Expanding("lookup") /\ Good(cache[Top.t.c])
  /\ FindCache /\ Use(cache[Top.t.c].sections, now)
  /\ UNCHANGED <<environment, connection, cache, want_caching, query, running, asked, failed>>

Miss ==
  /\ Expanding("lookup") /\ ~Good(cache[Top.t.c])
  /\ FindCache /\ stack' = AtTop([Top EXCEPT !.pc = "load", !.at = now, !.until = now])
  /\ UNCHANGED <<environment, connection, cache, want_caching, query, warned, running, asked, failed>>

(* An entry gets the time it was asked for, not the time it was read.      *)
Stamp == Top.at

Load ==
  /\ Expanding("load")
  /\ \E outcome \in Outcome : \E sections \in _cluster_keys(Top.t.c, outcome) :
       /\ Open(outcome) /\ Failing(outcome)
       /\ cache' = IF registered THEN [cache EXCEPT ![Top.t.c] = [mtime |-> Stamp, sections |-> sections]] ELSE cache
       /\ Use(sections, Top.at)
  /\ UNCHANGED <<environment, registered, want_caching, query, running, asked>>

Idle == query' = None /\ warned' = FALSE /\ asked' = 0

(* do_range_expand of the text: the union of its names and its calls.      *)
EvalCall ==
  /\ Expanding("eval")
  /\ \E t \in Top.todo :
       IF Len(stack) < MaxDepth
       THEN stack' = Append(AtTop([Top EXCEPT !.todo = @ \ {t}]), Expansion(t)) /\ running' = TRUE
       ELSE running' = FALSE /\ UNCHANGED stack
  /\ UNCHANGED <<environment, caching, query, warned, asked, failed>>

(* The answer of a request goes to the program.                            *)
EvalDone ==
  /\ Expanding("eval") /\ Top.todo = {}
  /\ IF Len(stack) = 1 THEN stack' = <<>> /\ Idle ELSE Return(Top.acc) /\ UNCHANGED <<query, warned, asked>>
  /\ UNCHANGED <<environment, caching, running, failed>>

(***************************************************************************)
(* The range functions.  cluster and group expand sections, group when it  *)
(* has a connection; the others are one statement, and what they answer    *)
(* is not kept: Selected(files[connection], q), if nothing fails.          *)
(***************************************************************************)
Asks(q) == running /\ stack = <<>> /\ stack' = <<Request(q.ts)>> /\ query' = q /\ asked' = now

rangefunc_cluster(q) ==
  /\ q.fn = "cluster" /\ Asks(q) /\ warned' = FALSE
  /\ UNCHANGED <<environment, caching, running, failed>>

rangefunc_group(q) ==
  /\ q.fn = "group" /\ Asks(q)
  /\ \E outcome \in Outcome \ {"cut", "unprepared"} : Open(outcome) /\ warned' \in {FALSE, Warns(outcome)}
  /\ UNCHANGED <<environment, cache, registered, want_caching, running, failed>>

_all_clusters(d) == {c \in Cluster : DOMAIN d.rows[c] # {}}
rangefunc_has(d, s, value) ==
  {c \in Cluster : \E k \in LikeName[s] : \E v \in LikeName[value] : <<k, v, c>> \in d.literal}
rangefunc_mem(d, c, node) ==
  {s \in Section : \E b \in Like[c] : \E n \in LikeName[node] : <<n, s, b>> \in d.reverse}

(* CLUSTERS_SQL and GROUPS_SQL: LIKE for the key or the cluster, too.      *)
ClustersOf(d, node) ==
  {c \in Cluster : \E n \in LikeName[node] : \E k \in LikeName["CLUSTER"] : <<n, k, c>> \in d.reverse}
GroupsOf(d, node) ==
  {s \in Section : \E n \in LikeName[node] : \E b \in Like["GROUPS"] : <<n, s, b>> \in d.reverse}

(* Of several nodes the last two take the first one only.                  *)
rangefunc_clusters(d, nodes) == UNION {ClustersOf(d, nodes[k]) : k \in DOMAIN nodes}
rangefunc_get_cluster(d, nodes) == ClustersOf(d, nodes[1])
rangefunc_get_groups(d, nodes) == GroupsOf(d, nodes[1])

Selected(d, q) ==
  CASE q.fn = "allclusters" -> _all_clusters(d)
    [] q.fn = "has" -> rangefunc_has(d, q.s, q.value)
    [] q.fn = "mem" -> rangefunc_mem(d, q.c, q.node)
    [] q.fn = "clusters" -> rangefunc_clusters(d, q.nodes)
    [] q.fn = "get_cluster" -> rangefunc_get_cluster(d, q.nodes)
    [] q.fn = "get_groups" -> rangefunc_get_groups(d, q.nodes)

Select(q) ==
  /\ q.fn \notin {"cluster", "group"} /\ running /\ stack = <<>>
  /\ \E outcome \in Outcome : Open(outcome) /\ Failing(outcome)
  /\ UNCHANGED <<environment, cache, registered, want_caching, request>>

(***************************************************************************)
(* The program between requests, and other programs.                       *)
(***************************************************************************)
libcrange_clear_caches ==
  /\ running /\ stack = <<>>
  /\ connection' = None /\ cache' = [c \in Cluster |-> None] /\ registered' = FALSE
  /\ UNCHANGED <<environment, want_caching, request, failed>>

(* What changes seldom, and a bound for it.                                *)
Changes == changes < MaxChanges /\ changes' = changes + 1 /\ UNCHANGED <<now, request, failed>>

libcrange_want_caching ==
  /\ running /\ stack = <<>>
  /\ Changes /\ want_caching' = ~want_caching
  /\ UNCHANGED <<files, connection, cache, registered>>

Tick ==
  /\ now < MaxTime /\ now' = now + 1
  /\ UNCHANGED <<files, changes, caching, request, failed>>

Update(d) == Changes /\ UNCHANGED caching /\ d # files[Len(files)] /\ files' = [files EXCEPT ![Len(files)] = d]

Publish(d) == Changes /\ UNCHANGED caching /\ files' = Append(files, d)

Step == Hit \/ Miss \/ Load \/ EvalCall \/ EvalDone

Actions ==
  \/ Step
  \/ \E q \in Queries : rangefunc_cluster(q) \/ rangefunc_group(q) \/ Select(q)
  \/ libcrange_clear_caches \/ libcrange_want_caching
  \/ Tick \/ \E d \in Databases : Update(d) \/ Publish(d)

Next == Actions /\ seen' = [seen EXCEPT ![now'] = @ \union {Visible'}]

Spec == Init /\ [][Next]_vars

(***************************************************************************)
(* yaml2sqlite.rb: what it writes of the yaml files.                       *)
(***************************************************************************)

(* The loader expands every section, KEYS excepted, and writes a row for   *)
(* each node: the names of the text, and what the sections hold it calls.  *)
(* Texts that call KEYS are left out here, which has no such rows.         *)
HasRow(d, n, t) == <<n, t.s, t.c>> \in d.reverse

TextOf(d, t) ==
  IF t.s \in DOMAIN d.rows[t.c] THEN _substitute_dollars(t.c, d.rows[t.c][t.s]) ELSE _join_elements({})

ExpandedRows(d) ==
  /\ d.reverse \subseteq Name \X Section \X Cluster
  /\ \A t \in {u \in Targets : u.s # "KEYS" /\ \A x \in TextOf(d, u).todo : x.s # "KEYS"} : \A n \in Name :
       HasRow(d, n, t) <=> n \in TextOf(d, t).names \/ \E x \in TextOf(d, t).todo : HasRow(d, n, x)

(***************************************************************************)
(* Properties.                                                             *)
(***************************************************************************)
Window(from, to) == {t \in 0..MaxTime : from <= t + Expiry /\ t <= to}

(* Types: below the request there are expansions, all but the last of them *)
(* evaluating; an entry is never from the future.                          *)
TypeOK ==
  /\ Len(files) \in 1..changes + 1 /\ changes \in 0..MaxChanges
  /\ \A k \in DOMAIN files : files[k] \in Databases
  /\ now \in 0..MaxTime /\ asked \in 0..now /\ failed \subseteq 0..now
  /\ connection \in (1..Len(files)) \union {None}
  /\ \A c \in Cluster : cache[c] # None => registered /\ cache[c].mtime \in 0..now
  /\ {registered, want_caching, warned, running} \subseteq BOOLEAN
  /\ Len(stack) <= MaxDepth
  /\ \A k \in DOMAIN stack :
       /\ stack[k].t \in (IF k = 1 THEN {None} ELSE Targets)
       /\ stack[k].pc \in (IF k < Len(stack) \/ k = 1 THEN {"eval"} ELSE {"lookup", "load", "eval"})
       /\ stack[k].at \in 0..now /\ stack[k].until \in stack[k].at..now

(* A text that is evaluated was in the database the program is connected   *)
(* to not more than Expiry seconds before the section was asked for, as a  *)
(* value of its key and of a cluster whose name LIKE takes for it; KEYS    *)
(* are the keys it had, unless a query failed.                             *)
Genuine(f, d) ==
  IF f.t.s = "KEYS" THEN f.text = _join_elements(Keys(d, f.t.c)) ELSE f.text \in Values(d, f.t.c, f.t.s)

LookupFresh ==
  \A k \in DOMAIN stack : k > 1 /\ stack[k].pc = "eval" =>
    LET f == stack[k] IN
    \/ \E t \in Window(f.at, f.until) : \E d \in seen[t] : Genuine(f, d)
    \/ f.t.s = "KEYS" /\ failed \intersect Window(f.at, f.until) # {}

(* When nothing has changed or failed from Expiry seconds before a request *)
(* until its end, %cluster and the table agree that mem, clusters and      *)
(* get_groups are answered from: asked about a name, these find a target   *)
(* of the request just when its answer has a node which LIKE takes for     *)
(* that name.  (The targets are literal: LIKE takes nothing else for their *)
(* clusters, or for the key CLUSTER, and the table, which is made without  *)
(* LIKE, has no rows for KEYS.)                                            *)
Settled ==
  \A t \in Window(asked, now) : seen[t] \subseteq {Visible} /\ t \notin failed

LiteralNames(ts) ==
  /\ \A t \in ts : Like[t.c] = {t.c} /\ t.s # "KEYS" /\ (t.s = "CLUSTER" => LikeName[t.s] = {t.s})
  /\ \A c \in Cluster : \A s \in DOMAIN Visible.rows[c] : \A x \in Visible.rows[c][s].todo :
       x.s # "KEYS" /\ (x.c = Self \/ Like[x.c] = {x.c})

Answered == Expanding("eval") /\ Len(stack) = 1 /\ Top.todo = {}

InTable(n, ts) ==
  \E t \in ts : CASE t.c = "GROUPS" -> t.s \in Selected(Visible, [fn |-> "get_groups", nodes |-> <<n>>])
                 [] t.s = "CLUSTER" -> t.c \in Selected(Visible, [fn |-> "clusters", nodes |-> <<n>>])
                 [] OTHER -> t.s \in Selected(Visible, [fn |-> "mem", c |-> t.c, node |-> n])

AgreesWithTables ==
  Answered /\ Settled /\ LiteralNames(query.ts) =>
    \A n \in Name : InTable(n, query.ts) <=> LikeName[n] \intersect Top.acc # {}

(* The C stack overflows only in a circle of texts that name one another,  *)
(* though they need not have been in the database at the same time.        *)
Held == UNION {seen[u] : u \in Window(asked, now)}

Named(t, x) ==
  \E d \in Held : \E b \in {a \in Like[t.c] : t.s \in DOMAIN d.rows[a]} :
    \E y \in d.rows[b][t.s].todo : x = IF y.c = Self THEN Target(t.c, y.s) ELSE y

DeepOnlyInCircles ==
  running \/ \E S \in (SUBSET Targets) \ {{}} : \A t \in S : \E x \in S : Named(t, x)
=============================================================================
