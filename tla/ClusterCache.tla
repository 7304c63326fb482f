---------------------------- MODULE ClusterCache ----------------------------
(***************************************************************************)
(* functions/yamlfile.c: cluster lookups evaluated over YAML files through *)
(* a cache of parsed files.  A call (cluster, has, mem, ...) is a frame on *)
(* a stack; _expand_cluster is a frame that stats the file, loads it when  *)
(* the cached mtime is another one, looks its section up and evaluates the *)
(* text found there, whose calls are frames above it.  Other programs      *)
(* write, delete and chmod the files between any two of these steps.       *)
(***************************************************************************)
EXTENDS Integers, Sequences, SequencesExt

CONSTANTS
  Cluster,      \* cluster names; "GROUPS" may be one of them
  BodiesOf,     \* BodiesOf[c]: the contents the file of c may be given
  Section,      \* section names
  Time,         \* modification times a file may get
  FirstFiles,   \* what the files may be to begin with
  Changing,     \* the clusters whose files others change
  Queries,      \* the calls users make
  Gone, Malformed,  \* contents of a file that is not there, or does not parse
  BadText,      \* a section whose text is no range expression
  Depth,        \* how deep calls nest when the files are followed
  MaxChanges    \* bound: changes made to the files

(* A content maps sections to texts; a text is a set of plain names and a  *)
(* set of calls, whose union is its value.                                 *)
Version(c) == [mtime : Time, body : BodiesOf[c]] \union {[mtime |-> -1, body |-> Gone]}

(* What _expand_cluster may be asked for: a section of a cluster.          *)
AllTargets == [c : Cluster, s : Section]
Target(c, s) == [c |-> c, s |-> s]

(* Calls and what they name: "GROUPS" and every cluster they look up is in *)
(* Cluster, though it need not have a file, and so are sections.           *)
Functions == {"cluster", "has", "clusters", "get_cluster", "group", "mem", "get_groups",
              "allclusters"}

CallOK(q) == /\ q.fn \in Functions
             /\ q.fn = "cluster" => q.ts \subseteq AllTargets
             /\ q.fn = "has" => q.tag \in Section
             /\ q.fn = "mem" => q.c \in Cluster
             /\ q.fn = "group" => q.es \subseteq Section
             /\ q.fn \in {"group", "get_groups"} => "GROUPS" \in Cluster

BodyOK(body) == body # Malformed =>
                  /\ DOMAIN body \subseteq Section
                  /\ \A s \in DOMAIN body : body[s] # BadText => \A q \in body[s].calls : CallOK(q)

ASSUME SectionAssumption == {"KEYS", "CLUSTER"} \subseteq Section

ASSUME CallsAssumption == /\ \A q \in Queries : CallOK(q)
                          /\ \A c \in Cluster : \A body \in BodiesOf[c] : BodyOK(body)
ASSUME TimeAssumption  == Time \subseteq Nat
ASSUME ContentsAssumption == \A c \in Cluster : Gone \notin BodiesOf[c]
ASSUME FilesAssumption ==
  /\ Changing \subseteq Cluster
  /\ \A f \in FirstFiles, c \in Cluster : f[c] \in Version(c)
ASSUME BoundAssumption == MaxChanges \in Nat /\ Depth \in Nat

VARIABLES
  versions,     \* versions[c]: what the file of c has been, last one now
  readable,     \* readable[c]: its permission bits let fopen succeed
  dark,         \* dark[c]: versions that were unreadable at some time
  changes,      \* how many changes to the files there were
  cache,        \* cache[c]: the cache_entry of the file, or NoEntry
  registered,   \* the set of entries is among lr->caches
  want_caching, \* lr->want_caching
  stack,        \* the active calls, innermost last
  warn_enabled, \* range_request's warning switch
  warned,       \* kinds of warnings recorded for this request
  query,        \* the call the request evaluates
  result,       \* its value once the stack is empty
  steady        \* no file changed, nor was the cache dropped, since the request began

files    == <<versions, readable, dark, changes>>
caching  == <<cache, registered, want_caching>>
warnings == <<warn_enabled, warned>>
request  == <<query, result, steady>>
vars     == <<files, caching, stack, warnings, request>>

NoEntry == [mtime |-> -1]
NoQuery == [fn |-> "none"]
Top     == stack[Len(stack)]
Current(c) == versions[c][Len(versions[c])]
Exists(c)  == Current(c).body # Gone

(***************************************************************************)
(* Frames.                                                                 *)
(***************************************************************************)
Expansion(c, s) == [fn |-> "expand", c |-> c, s |-> s, pc |-> "stat", st_mtime |-> -1,
                    todo |-> {}, acc |-> {}]

(* _all_clusters: the directory's .yaml files access() finds readable. *)
all_clusters == {c \in Cluster : Exists(c) /\ readable[c]}

Targets(call) ==
  CASE call.fn = "cluster" -> call.ts
    [] call.fn = "has" -> {Target(c, call.tag) : c \in all_clusters}
    [] call.fn \in {"clusters", "get_cluster"} -> {Target(c, "CLUSTER") : c \in all_clusters}
    [] call.fn = "group" -> {Target("GROUPS", g) : g \in call.es}
    [] call.fn = "mem" -> {Target(call.c, "KEYS")}
    [] call.fn = "get_groups" -> {Target("GROUPS", "KEYS")}
    [] call.fn = "allclusters" -> {}

(* A call that expands one section after another; cur is the one running. *)
(* mem and get_groups begin by expanding KEYS, for the sections to loop    *)
(* over.  rangefunc_has silences warnings while its loop runs.             *)
Lists(call) == call.fn \in {"mem", "get_groups"}

Enter(call, below, enabled) ==
  /\ stack' = Append(below,
        [fn |-> call.fn, call |-> call, todo |-> Targets(call), cur |-> Target("none", "none"),
         listing |-> Lists(call), acc |-> IF call.fn = "allclusters" THEN all_clusters ELSE {}, was_enabled |-> enabled])
  /\ warn_enabled' = (enabled /\ call.fn # "has")

(* What a call makes of the names v of the target t.                       *)
Gain(call, t, v) ==
  CASE call.fn \in {"cluster", "group"} -> v
    [] call.fn = "has" -> {c \in {t.c} : call.value \in v}
    [] call.fn = "mem" -> {s \in {t.s} : v \intersect call.es # {}}
    [] call.fn \in {"clusters", "get_cluster"} -> v \X {t.c}
    [] call.fn = "get_groups" -> v \X {t.s}

(* What a frame does with the names v of what has just returned to it;     *)
(* get_cluster looks at the first cluster of a node only.                  *)
Collect(f, v) ==
  IF f.fn = "expand" THEN [f EXCEPT !.acc = @ \union v]
  ELSE IF f.listing THEN [f EXCEPT !.listing = FALSE, !.todo = {Target(f.cur.c, k) : k \in v}]
  ELSE LET known == {p[1] : p \in f.acc}
           new == {p \in Gain(f.call, f.cur, v) : f.fn = "get_cluster" => p[1] \notin known}
       IN [f EXCEPT !.acc = @ \union new]

Return(v) ==
  LET below == Front(stack) IN
  IF below = <<>> THEN stack' = <<>> /\ result' = v
  ELSE stack' = [below EXCEPT ![Len(below)] = Collect(@, v)] /\ UNCHANGED result

(* range_request_warn and range_request_warn_type. *)
Warn(kinds) == warned' = IF warn_enabled THEN warned \union kinds ELSE warned

(***************************************************************************)
(* _cluster_keys: the sections of a file that loads, and KEYS which lists  *)
(* them; a file that does not load has none.                               *)
(***************************************************************************)
cluster_keys(body) ==
  IF body \in {Gone, Malformed} THEN <<>>
  ELSE IF DOMAIN body = {} THEN body
  ELSE [s \in DOMAIN body \union {"KEYS"} |->
          IF s = "KEYS" THEN [names |-> DOMAIN body, calls |-> {}] ELSE body[s]]

Sections(c) == IF readable[c] THEN cluster_keys(Current(c).body) ELSE <<>>

LoadWarnings(c) ==
  IF readable[c] /\ Current(c).body \notin {Gone, Malformed} THEN {} ELSE {"UNLOADABLE"}

(***************************************************************************)
(* _expand_cluster.                                                        *)
(***************************************************************************)
Expanding(pc) == stack # <<>> /\ Top.fn = "expand" /\ Top.pc = pc
AtTop(f) == [stack EXCEPT ![Len(stack)] = f]

(* The cache set is looked up first, and registered if caching is wanted; *)
(* libcrange_get_cache does not ask whether it still is.                   *)
FindCache == registered' = (registered \/ want_caching) /\ UNCHANGED <<cache, want_caching>>

StatFails ==
  /\ Expanding("stat") /\ ~Exists(Top.c)
  /\ FindCache /\ Warn({"NOCLUSTERDEF"}) /\ Return({})
  /\ UNCHANGED <<files, warn_enabled, query, steady>>

(* The rest of the function once the entry's sections are at hand: a       *)
(* missing CLUSTER section is empty text, another one a warning.           *)
Lookup(sections, kinds) ==
  LET s == Top.s
      text == IF s \in DOMAIN sections THEN sections[s] ELSE [names |-> {}, calls |-> {}]
  IN \/ /\ s \notin DOMAIN sections /\ s # "CLUSTER"
        /\ Warn(kinds \union {"NOCLUSTER"}) /\ Return({})
     \/ /\ text = BadText
        /\ Warn(kinds \union {"PARSE"}) /\ Return({})
     \/ /\ s \in DOMAIN sections \/ s = "CLUSTER"
        /\ text # BadText
        /\ Warn(kinds)
        /\ stack' = AtTop([Top EXCEPT !.pc = "eval", !.todo = text.calls, !.acc = text.names])
        /\ UNCHANGED result

Hit(c) == cache[c] # NoEntry /\ cache[c].mtime = Current(c).mtime

StatHit_fault ==
  /\ Expanding("stat") /\ Exists(Top.c) /\ cache[Top.c] # NoEntry
  /\ FindCache /\ Lookup(cache[Top.c].sections, {})
  /\ UNCHANGED <<files, warn_enabled, query, steady>>

StatHit ==
  /\ Expanding("stat") /\ Exists(Top.c) /\ Hit(Top.c)
  /\ FindCache /\ Lookup(cache[Top.c].sections, {})
  /\ UNCHANGED <<files, warn_enabled, query, steady>>

StatMiss ==
  /\ Expanding("stat") /\ Exists(Top.c) /\ ~Hit(Top.c)
  /\ FindCache
  /\ stack' = AtTop([Top EXCEPT !.pc = "load", !.st_mtime = Current(Top.c).mtime])
  /\ UNCHANGED <<files, warnings, request>>

Load_fault ==
  /\ Expanding("load")
  /\ LET c == Top.c
         old == IF cache[c] = NoEntry THEN Sections(c) ELSE cache[c].sections
         entry == [mtime |-> Top.st_mtime, sections |-> old, of |-> Len(versions[c])]
     IN /\ cache' = IF registered THEN [cache EXCEPT ![c] = entry] ELSE cache
        /\ Lookup(old, LoadWarnings(c))
  /\ UNCHANGED <<files, registered, want_caching, warn_enabled, query, steady>>

(* The file is opened after it was stat'ed: the entry gets the time of the *)
(* stat and the contents of the open.  "of" is history: the version read.  *)
Load ==
  /\ Expanding("load")
  /\ LET c == Top.c
         entry == [mtime |-> Top.st_mtime, sections |-> Sections(c), of |-> Len(versions[c])]
     IN /\ cache' = IF registered THEN [cache EXCEPT ![c] = entry] ELSE cache
        /\ Lookup(entry.sections, LoadWarnings(c))
  /\ UNCHANGED <<files, registered, want_caching, warn_enabled, query, steady>>

(* Evaluation of the text: its calls in turn, then the union is returned. *)
EvalCall ==
  /\ Expanding("eval")
  /\ \E q \in Top.todo : Enter(q, AtTop([Top EXCEPT !.todo = @ \ {q}]), warn_enabled)
  /\ UNCHANGED <<files, caching, warned, request>>

EvalDone ==
  /\ Expanding("eval") /\ Top.todo = {}
  /\ Return(Top.acc)
  /\ UNCHANGED <<files, caching, warnings, query, steady>>

(***************************************************************************)
(* The range functions.                                                    *)
(***************************************************************************)
InLoop == stack # <<>> /\ Top.fn # "expand"

Push(t, f) == stack' = Append(AtTop([f EXCEPT !.cur = t]), Expansion(t.c, t.s))

NextTarget ==
  /\ InLoop
  /\ \E t \in Top.todo : Push(t, [Top EXCEPT !.todo = @ \ {t}])
  /\ UNCHANGED <<files, caching, warnings, request>>

(* clusters, get_cluster and get_groups answer for the nodes asked about,  *)
(* with a warning for each that has no answer; has restores the switch.    *)
ByNode(fn) == fn \in {"clusters", "get_cluster", "get_groups"}
NoAnswer == {e \in Top.call.es : \A p \in Top.acc : p[1] # e}

Answer ==
  IF ByNode(Top.fn)
  THEN /\ Return({p[2] : p \in {q \in Top.acc : q[1] \in Top.call.es}})
       /\ Warn(IF NoAnswer = {} THEN {} ELSE {"NO_ANSWER"})
  ELSE Return(Top.acc) /\ UNCHANGED warned

LoopDone_fault ==
  /\ InLoop /\ Top.todo = {} /\ Answer
  /\ warn_enabled' = (warn_enabled \/ Top.fn = "has")
  /\ UNCHANGED <<files, caching, query, steady>>

LoopDone ==
  /\ InLoop /\ Top.todo = {} /\ Answer
  /\ warn_enabled' = (warn_enabled \/ (Top.fn = "has" /\ Top.was_enabled))
  /\ UNCHANGED <<files, caching, query, steady>>

(***************************************************************************)
(* Requests, and the world outside.                                        *)
(***************************************************************************)

(* A new request: warnings on, none recorded. *)
Ask(q) ==
  /\ stack = <<>>
  /\ Enter(q, <<>>, TRUE) /\ warned' = {}
  /\ query' = q /\ result' = {} /\ steady' = TRUE
  /\ UNCHANGED <<files, caching>>

(* Between requests the program may drop all caches, or switch caching.   *)
libcrange_clear_caches ==
  /\ stack = <<>>
  /\ cache' = [c \in Cluster |-> NoEntry] /\ registered' = FALSE
  /\ steady' = FALSE
  /\ UNCHANGED <<files, want_caching, stack, warnings, query, result>>

libcrange_want_caching(want) ==
  /\ stack = <<>>
  /\ want_caching' = want
  /\ UNCHANGED <<files, cache, registered, stack, warnings, request>>

Change == changes < MaxChanges /\ changes' = changes + 1 /\ steady' = FALSE

NewVersion(c, body, mtime) ==
  /\ Change
  /\ versions' = [versions EXCEPT ![c] = Append(@, [mtime |-> mtime, body |-> body])]
  /\ UNCHANGED <<caching, stack, warnings, query, result>>

(* A writer gives the file any new time, also an old one (rsync, tar). *)
WriteFile(c, body, mtime) ==
  /\ NewVersion(c, body, mtime)
  /\ dark' = IF readable[c] THEN dark ELSE [dark EXCEPT ![c] = @ \union {Len(versions[c]) + 1}]
  /\ UNCHANGED readable

DeleteFile(c) ==
  /\ Exists(c) /\ NewVersion(c, Gone, -1)
  /\ readable' = [readable EXCEPT ![c] = TRUE]
  /\ UNCHANGED dark

(* chmod leaves the modification time alone. *)
Chmod(c) ==
  /\ Exists(c) /\ Change
  /\ readable' = [readable EXCEPT ![c] = ~@]
  /\ dark' = [dark EXCEPT ![c] = @ \union {Len(versions[c])}]
  /\ UNCHANGED <<versions, caching, stack, warnings, query, result>>

Init ==
  /\ \E f \in FirstFiles : versions = [c \in Cluster |-> <<f[c]>>]
  /\ readable = [c \in Cluster |-> TRUE] /\ dark = [c \in Cluster |-> {}] /\ changes = 0
  /\ cache = [c \in Cluster |-> NoEntry] /\ registered = FALSE /\ want_caching = TRUE
  /\ stack = <<>> /\ warn_enabled = TRUE /\ warned = {}
  /\ query = NoQuery /\ result = {} /\ steady = FALSE

Step == \/ StatFails \/ StatHit \/ StatMiss \/ Load \/ EvalCall \/ EvalDone
        \/ NextTarget \/ LoopDone

World == \E c \in Changing :
           \/ \E body \in BodiesOf[c], t \in Time : WriteFile(c, body, t)
           \/ DeleteFile(c) \/ Chmod(c)

Program == \/ \E q \in Queries : Ask(q)
           \/ libcrange_clear_caches
           \/ \E want \in BOOLEAN : libcrange_want_caching(want)

Next == Step \/ World \/ Program

Spec == Init /\ [][Next]_vars

(***************************************************************************)
(* Properties.                                                             *)
(***************************************************************************)
Entry(c) == [mtime : Time, sections : {<<>>} \union {cluster_keys(v.body) : v \in Version(c)},
             of : 1..Len(versions[c])]

(* Types: an entry holds the sections of some content of its file; range   *)
(* functions and expansions alternate on the stack, and an expansion below *)
(* its top is evaluating.                                                  *)
TypeOK ==
  /\ \A c \in Cluster : /\ versions[c] \in Seq(Version(c)) /\ versions[c] # <<>>
                        /\ dark[c] \subseteq 1..Len(versions[c])
                        /\ cache[c] \in Entry(c) \union {NoEntry}
  /\ readable \in [Cluster -> BOOLEAN] /\ changes \in 0..MaxChanges
  /\ {registered, want_caching, warn_enabled, steady} \subseteq BOOLEAN
  /\ \A k \in DOMAIN stack :
       /\ stack[k].fn = "expand" <=> k > 1 /\ stack[k - 1].fn # "expand"
       /\ k < Len(stack) /\ stack[k].fn = "expand" => stack[k].pc = "eval"

(* A version whose time tells it apart: no earlier version had that time,  *)
(* and the file could be opened all along.                                 *)
Distinguished(c) ==
  LET n == Len(versions[c])
  IN n \notin dark[c] /\ \A v \in 1..n - 1 : versions[c][v].mtime # versions[c][n].mtime

(* Whenever a lookup would be answered from the cache, and the file's time *)
(* has not been used before, the answer is what the file now says: reading *)
(* the contents after the time can miss no change made in between.         *)
CacheCoherent ==
  \A c \in Cluster :
    Exists(c) /\ Hit(c) /\ Distinguished(c) => cache[c].sections = Sections(c)

(* What a call is worth, if value[t] is what each target is.               *)
CallValue(q, value) ==
  CASE q.fn \in {"cluster", "group"} -> UNION {value[t] : t \in Targets(q)}
    [] q.fn = "allclusters" -> all_clusters
    [] q.fn = "has" -> {c \in all_clusters : q.value \in value[Target(c, q.tag)]}
    [] q.fn = "mem" -> {s \in value[Target(q.c, "KEYS")] : value[Target(q.c, s)] \intersect q.es # {}}
    [] q.fn \in {"clusters", "get_cluster"} ->
         {c \in all_clusters : value[Target(c, "CLUSTER")] \intersect q.es # {}}
    [] q.fn = "get_groups" ->
         {g \in value[Target("GROUPS", "KEYS")] : value[Target("GROUPS", g)] \intersect q.es # {}}

(* What a target is, by the text in its file and value for what that calls. *)
Follow(t, value) ==
  IF t.s \notin DOMAIN Sections(t.c) \/ Sections(t.c)[t.s] = BadText THEN {}
  ELSE LET text == Sections(t.c)[t.s]
       IN text.names \union UNION {CallValue(q, value) : q \in text.calls}

(* What each target is, computed from the files alone: a function of the   *)
(* depth to which calls are followed.                                      *)
SectionValue[depth \in Nat] ==
  [t \in AllTargets |-> IF depth = 0 THEN {} ELSE Follow(t, SectionValue[depth - 1])]

(* A request during which no file changes returns what the files say: for  *)
(* get_cluster, one cluster of each node that has any.  With entries from  *)
(* earlier requests in the cache that takes files told apart by their      *)
(* times; without a cache it takes nothing.                                *)
QueryExact ==
  LET exact == CallValue(query, SectionValue[Depth])
  IN stack = <<>> /\ steady /\ (registered => \A c \in Cluster : Distinguished(c))
     => /\ result \subseteq exact
        /\ query.fn # "get_cluster" => result = exact
        /\ query.fn = "get_cluster" => (result = {} <=> exact = {})

(* What a call may look up, whatever files there are.                      *)
Reach(q) ==
  CASE q.fn = "cluster" -> q.ts
    [] q.fn = "has" -> [c : Cluster, s : {q.tag}]
    [] q.fn \in {"clusters", "get_cluster"} -> [c : Cluster, s : {"CLUSTER"}]
    [] q.fn = "group" -> [c : {"GROUPS"}, s : q.es]
    [] q.fn = "mem" -> [c : {q.c}, s : Section]
    [] q.fn = "get_groups" -> [c : {"GROUPS"}, s : Section]
    [] q.fn = "allclusters" -> {}

(* Texts whose calls nest no deeper than Depth, shown by a rank of targets *)
(* that falls with every call; and none leaves it to the order of a        *)
(* directory what it is worth, as get_cluster does.                        *)
WellFounded(rank) ==
  /\ rank \in [AllTargets -> 0..Depth - 1]
  /\ \A c \in Cluster : \A body \in BodiesOf[c] : \A s \in DOMAIN cluster_keys(body) :
       cluster_keys(body)[s] # BadText =>
         \A q \in cluster_keys(body)[s].calls :
           q.fn # "get_cluster" /\ \A t \in Reach(q) : rank[t] < rank[Target(c, s)]

(* Warnings are off exactly while some has is running, however deep below  *)
(* it the call is that would warn, and also when has calls has.            *)
WarnSwitch == warn_enabled <=> \A k \in DOMAIN stack : stack[k].fn # "has"
=============================================================================
