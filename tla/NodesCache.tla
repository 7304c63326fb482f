----------------------------- MODULE NodesCache -----------------------------
(***************************************************************************)
(* The two caches of nodescf.c, for one cluster: _expand_cluster keeps the *)
(* sections of nodes.cf and _parse_cluster_vips the addresses of vips.cf,  *)
(* until the time of the file is another.  Other programs write, remove    *)
(* and protect the files at any time, between the program's calls, too.    *)
(***************************************************************************)
EXTENDS Naturals

CONSTANTS
  Line,       \* what a file can hold
  Gone,       \* instead of lines: there is no file
  NoEntry,
  MaxTime     \* bound: seconds

ASSUME TimeAssumption == MaxTime \in Nat \ {0}

Tables == {"nodes.cf", "vips.cf"}

VARIABLES
  file,      \* the time and the lines of each file
  readable,  \* fopen succeeds
  now,
  cache,     \* the entry of each file
  pc,        \* "idle", "stat", "open", "read" or "returned"
  table,     \* the file the query needs
  st,        \* its time when stat was called, and the lines fopen found
  answer, warned,
  during,    \* ghost: the lines the file has had since stat
  twice,     \* ghost: the file was changed twice in a second
  refused    \* ghost: the file of the entry could not be opened

environment == <<file, readable, now>>
query == <<pc, table, st, answer, warned>>
ghosts == <<during, twice, refused>>
vars == <<environment, cache, query, ghosts>>

Init ==
  /\ file = [t \in Tables |-> [mtime |-> 0, lines |-> Gone]]
  /\ readable = [t \in Tables |-> TRUE] /\ now = 1
  /\ cache = [t \in Tables |-> NoEntry]
  /\ pc = "idle" /\ table = "nodes.cf" /\ st = [mtime |-> 0, lines |-> Gone]
  /\ answer = {} /\ warned = FALSE
  /\ during = {} /\ twice = [t \in Tables |-> FALSE] /\ refused = [t \in Tables |-> FALSE]

(***************************************************************************)
(* The files.                                                              *)
(***************************************************************************)
Tick ==
  /\ now < MaxTime /\ now' = now + 1
  /\ UNCHANGED <<file, readable, cache, query, ghosts>>

InQuery(t) == pc \in {"open", "read"} /\ table = t

Write(t, lines) ==
  /\ lines # file[t].lines
  /\ file' = [file EXCEPT ![t] = [mtime |-> now, lines |-> lines]]
  /\ during' = IF InQuery(t) THEN during \union {lines} ELSE during
  /\ twice' = [twice EXCEPT ![t] = @ \/ file[t].mtime = now]
  /\ UNCHANGED <<readable, now, cache, query, refused>>

Chmod(t) ==
  /\ readable' = [readable EXCEPT ![t] = ~@]
  /\ UNCHANGED <<file, now, cache, query, ghosts>>

(***************************************************************************)
(* A query for a section, or for the vips.                                 *)
(***************************************************************************)
Ask(t) ==
  /\ pc = "idle"
  /\ pc' = "stat" /\ table' = t /\ answer' = {} /\ warned' = FALSE /\ during' = {}
  /\ UNCHANGED <<environment, cache, st, twice, refused>>

NoFile ==
  /\ pc = "stat" /\ file[table].lines = Gone
  /\ pc' = "returned" /\ warned' = TRUE
  /\ UNCHANGED <<environment, cache, table, st, answer, ghosts>>

Good_fault(entry, m) == entry # NoEntry
Good(entry, m) == entry # NoEntry /\ entry.mtime = m

Hit ==
  /\ pc = "stat" /\ file[table].lines # Gone /\ Good(cache[table], file[table].mtime)
  /\ answer' = cache[table].content /\ pc' = "returned"
  /\ during' = {file[table].lines}
  /\ UNCHANGED <<environment, cache, table, st, warned, twice, refused>>

(* The entry of vips.cf is emptied and gets its time before the file is    *)
(* opened, that of nodes.cf when it is read.                               *)
Emptied(t) == [mtime |-> file[t].mtime, content |-> {}]

Miss ==
  /\ pc = "stat" /\ file[table].lines # Gone /\ ~Good(cache[table], file[table].mtime)
  /\ st' = file[table] /\ pc' = "open"
  /\ cache' = IF table = "vips.cf" THEN [cache EXCEPT ![table] = Emptied(table)] ELSE cache
  /\ refused' = [refused EXCEPT ![table] = FALSE]
  /\ during' = {file[table].lines}
  /\ UNCHANGED <<environment, table, answer, warned, twice>>

Opens == readable[table] /\ file[table].lines # Gone

Open ==
  /\ pc = "open" /\ Opens
  /\ st' = [st EXCEPT !.lines = file[table].lines] /\ pc' = "read"
  /\ UNCHANGED <<environment, cache, table, answer, warned, ghosts>>

(* Both warn, and neither file is read again before its time is another.   *)
OpenFails ==
  /\ pc = "open" /\ ~Opens
  /\ cache' = [cache EXCEPT ![table] = [mtime |-> st.mtime, content |-> {}]]
  /\ refused' = [refused EXCEPT ![table] = TRUE]
  /\ pc' = "returned" /\ warned' = TRUE
  /\ UNCHANGED <<environment, table, st, answer, during, twice>>

Before == IF table = "vips.cf" THEN cache[table].content ELSE {}

(* A file that is replaced after fopen is read as it was, one that is      *)
(* rewritten as it is.                                                     *)
Read ==
  /\ pc = "read"
  /\ \E lines \in {st.lines, file[table].lines} \ {Gone} :
       /\ cache' = [cache EXCEPT ![table] = [mtime |-> st.mtime, content |-> Before \union lines]]
       /\ answer' = Before \union lines
  /\ pc' = "returned"
  /\ UNCHANGED <<environment, table, st, warned, ghosts>>

Return ==
  /\ pc = "returned" /\ pc' = "idle" /\ answer' = {} /\ warned' = FALSE
  /\ UNCHANGED <<environment, cache, table, st, ghosts>>

Next ==
  \/ Tick \/ NoFile \/ Hit \/ Miss \/ Open \/ OpenFails \/ Read \/ Return
  \/ \E t \in Tables : Chmod(t) \/ Ask(t) \/ \E lines \in {Gone} \union SUBSET Line : Write(t, lines)

Spec == Init /\ [][Next]_vars

(***************************************************************************)
(* Properties.                                                             *)
(***************************************************************************)
Entry == [mtime : 0..MaxTime, content : SUBSET Line]
Version == [mtime : 0..MaxTime, lines : {Gone} \union SUBSET Line]

(* Types: while a file is opened and read it has been there, and only its  *)
(* entry can be one that is not yet filled.                                *)
TypeOK ==
  /\ file \in [Tables -> Version] /\ readable \in [Tables -> BOOLEAN] /\ now \in 1..MaxTime
  /\ cache \in [Tables -> Entry \union {NoEntry}]
  /\ pc \in {"idle", "stat", "open", "read", "returned"} /\ table \in Tables /\ st \in Version
  /\ pc \in {"open", "read"} => /\ st.lines # Gone
                                /\ table = "vips.cf" => cache[table] = [mtime |-> st.mtime, content |-> {}]
  /\ answer \in SUBSET Line /\ warned \in BOOLEAN

(* Without a warning, the answer is what the file held at some moment of   *)
(* the query, or else it was changed twice in a second, or an earlier      *)
(* query has warned that it cannot be opened and nobody has changed it.    *)
AnswerCurrent ==
  pc = "returned" /\ ~warned /\ ~twice[table] => answer \in during \/ (refused[table] /\ answer = {})
=============================================================================
