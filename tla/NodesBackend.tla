---------------------------- MODULE NodesBackend ----------------------------
(***************************************************************************)
(* nodescf.c for one cluster, its two halves together: _expand_cluster     *)
(* with its cache (NodesCache), and _cluster_keys (NodesFile), which makes *)
(* the sections the cache keeps.  On top, the functions that ask for KEYS  *)
(* first and then for every section: mem, get_groups and get_admin.  The   *)
(* file can change between any two of those questions.                     *)
(***************************************************************************)
EXTENDS NodesCache, Sequences, SequencesExt

CONSTANTS
  Cluster, Unreadable, CLUSTER, ALL, KEYS, UP, DOWN, Chopped, Null,   \* of NodesFile, whose Files are Line
  Changing,   \* bound: the files other programs write; any file can be the first one
  Section,    \* the sections a single query asks for
  Node        \* the nodes a survey can be about

ASSUME ChangingAssumption == Changing \subseteq Line

VARIABLES
  text, at, sections, section, cur_section, working_range, step,   \* of _cluster_keys
  kept,      \* e->sections
  asked,     \* the section the running query needs
  survey,    \* the call that asks for all sections, or NoSurvey
  moments    \* ghost: what the file has held since the survey began

Parser == INSTANCE NodesFile WITH Files <- Line, file <- text, pc <- step

ASSUME FileAssumption == \A f \in Line : f # Unreadable /\ Parser!IsFile(f)
ASSUME KeysAssumption == KEYS \notin {UP, DOWN, CLUSTER, ALL} /\ UP \notin {DOWN, CLUSTER, ALL} /\ DOWN \notin {CLUSTER, ALL}
ASSUME NullAssumption ==
  \A f \in Line : Parser!SectionNames(f) # Null /\ \A s \in Parser!SectionNames(f) : Parser!MeantText(f, s) # Null

parser == <<text, at, sections, section, cur_section, working_range, step>>
backendVars == <<vars, parser, kept, asked, survey, moments>>

NODES == "nodes.cf"
NoSurvey == [op |-> "none"]
Surveying == survey # NoSurvey

(***************************************************************************)
(* What a section's text stands for: do_range_expand.                      *)
(***************************************************************************)
Names(t) == {t[k].name : k \in {j \in DOMAIN t : t[j].kind = "name"}}
do_range_expand(entries) ==
  FoldLeft(LAMBDA found, e : IF e.kind = "INCLUDE" THEN found \union Names(e.text) ELSE found \ Names(e.text), {}, entries)

Expanded(s, t) ==
  IF t = Null THEN {}
  ELSE CASE s = KEYS -> t
         [] s = DOWN -> do_range_expand(t.all) \ do_range_expand(t.without)
         [] OTHER -> do_range_expand(t)

(* What _expand_cluster returns; without the section it warns.             *)
Result == IF warned THEN {} ELSE Expanded(asked, Parser!set_get_data(kept, asked))

(***************************************************************************)
(* Other programs.  A file that none of them changes stays as it is.       *)
(***************************************************************************)
Steady == file[NODES].lines # Gone /\ ~(file[NODES].lines \subseteq Changing)
First == file[NODES].mtime = 0 /\ now = 1 /\ pc = "idle" /\ ~Surveying

Others ==
  /\ step = "idle" /\ ~Steady
  /\ \/ (Tick \/ Chmod(NODES)) /\ UNCHANGED moments
     \/ \E lines \in {Gone} \union {{f} : f \in IF First THEN Line ELSE Changing} :
          /\ Write(NODES, lines)
          /\ moments' = IF Surveying THEN moments \union {lines} ELSE moments
  /\ UNCHANGED <<parser, kept, asked, survey>>

(***************************************************************************)
(* _expand_cluster.  A file is shorter than stdio's buffer: from the first *)
(* line to the last it is the same version.                                *)
(***************************************************************************)
Lookup ==
  /\ NoFile \/ Hit \/ Miss \/ Open
  /\ UNCHANGED <<parser, kept, asked, survey, moments>>

NotReadable ==
  /\ OpenFails
  /\ kept' = Parser!EmptyMap
  /\ moments' = IF Surveying THEN moments \union {Gone} ELSE moments
  /\ UNCHANGED <<parser, asked, survey>>

BeginParse ==
  /\ pc = "read"
  /\ \E lines \in {st.lines, file[NODES].lines} \ {Gone} : \E f \in lines : Parser!_cluster_keys(f)
  /\ UNCHANGED <<vars, kept, asked, survey, moments>>

Parse ==
  /\ Parser!Blank \/ Parser!Header \/ Parser!Entry \/ Parser!Close
  /\ UNCHANGED <<vars, kept, asked, survey, moments>>

Kept_fault == IF kept = Parser!EmptyMap THEN sections ELSE kept
Kept == sections

Parsed ==
  /\ step = "returned"
  /\ Read /\ answer' = {text}
  /\ kept' = Kept
  /\ Parser!Return
  /\ UNCHANGED <<asked, survey, moments>>

expand_cluster(s) ==
  /\ Ask(NODES)
  /\ asked' = s
  /\ UNCHANGED <<parser, kept>>

(***************************************************************************)
(* A single question, and the surveys.                                     *)
(***************************************************************************)
rangefunc_cluster(s) == ~Surveying /\ expand_cluster(s) /\ UNCHANGED <<survey, moments>>

Answered ==
  /\ ~Surveying
  /\ Return
  /\ UNCHANGED <<parser, kept, asked, survey, moments>>

(* mem, get_groups and get_admin begin with the names of the sections.     *)
Survey(op, wanted) ==
  /\ ~Surveying /\ ~Steady
  /\ expand_cluster(KEYS)
  /\ survey' = [op |-> op, wanted |-> wanted, left |-> {}, index |-> {}]
  /\ moments' = {file[NODES].lines} \union IF refused[NODES] THEN {Gone} ELSE {}

SurveyKeys ==
  /\ Surveying /\ asked = KEYS
  /\ Return
  /\ survey' = [survey EXCEPT !.left = Result]
  /\ UNCHANGED <<parser, kept, asked, moments>>

SurveyNext ==
  /\ Surveying
  /\ \E s \in survey.left : expand_cluster(s) /\ survey' = [survey EXCEPT !.left = @ \ {s}]
  /\ UNCHANGED moments

(* node_group has all the groups of a node, node_admin the last admin that *)
(* lists it; mem keeps the section when a wanted node is in it.            *)
Indexed_fault(index, s, nodes) ==
  CASE survey.op = "get_admin" -> {p \in index : p[2] \notin nodes} \union ({s} \X nodes)
    [] survey.op = "get_groups" -> {p \in index : p[2] \notin nodes} \union ({s} \X nodes)
    [] survey.op = "mem" -> index \union ({s} \X (nodes \intersect survey.wanted))

Indexed(index, s, nodes) ==
  CASE survey.op = "get_admin" -> {p \in index : p[2] \notin nodes} \union ({s} \X nodes)
    [] survey.op = "get_groups" -> index \union ({s} \X nodes)
    [] survey.op = "mem" -> index \union ({s} \X (nodes \intersect survey.wanted))

SurveySection ==
  /\ Surveying /\ asked # KEYS
  /\ Return
  /\ survey' = [survey EXCEPT !.index = Indexed(@, asked, Result)]
  /\ UNCHANGED <<parser, kept, asked, moments>>

Surveyed == Surveying /\ pc = "idle" /\ survey.left = {}

SurveyReturn ==
  /\ Surveyed
  /\ survey' = NoSurvey /\ moments' = {}
  /\ UNCHANGED <<vars, parser, kept, asked>>

(* The wanted sections, and the nodes a NO_GROUPS or NO_ADMIN warns about. *)
ret == {p[1] : p \in {q \in survey.index : q[2] \in survey.wanted}}
Unknown == {n \in survey.wanted : \A p \in survey.index : p[2] # n}

(***************************************************************************)
(* Specification.                                                          *)
(***************************************************************************)
BackendInit ==
  /\ Init /\ Parser!Init
  /\ kept = Parser!EmptyMap /\ asked = Null /\ survey = NoSurvey /\ moments = {}

BackendNext ==
  \/ Others \/ Lookup \/ NotReadable \/ BeginParse \/ Parse \/ Parsed \/ Answered
  \/ SurveyKeys \/ SurveyNext \/ SurveySection \/ SurveyReturn
  \/ \E s \in Section : rangefunc_cluster(s)
  \/ \E op \in {"mem", "get_groups", "get_admin"}, wanted \in (SUBSET Node) \ {{}} : Survey(op, wanted)

BackendSpec == BackendInit /\ [][BackendNext]_backendVars

(***************************************************************************)
(* Properties.                                                             *)
(***************************************************************************)

(* The sections and the entries of a file: see NodesFile.                  *)
SectionsExact == Parser!SectionsExact
EntriesKept == Parser!EntriesKept

Held(lines, s) ==
  IF lines = Gone THEN {}
  ELSE UNION {do_range_expand(Parser!MeantText(f, s)) : f \in {g \in lines : s \in Parser!SectionNames(g)}}

(* The files other programs write have an entry under every name, and give *)
(* the special names to no section of their own.                           *)
Plain(f) == Parser!Regular(f) /\ Parser!SectionNames(f) \intersect Parser!Special = {}

(* A survey looks at the file once for every section.  What it reports was *)
(* so at some moment of it, and what was so all the time it reports; it    *)
(* warns of a node only if no section held it throughout.  (A node that    *)
(* moves from one section to another can be missed in both, or be found in *)
(* both.)                                                                  *)
SurveyTrue ==
  Surveyed /\ ~twice[NODES] =>
    /\ \A s \in ret : \E lines \in moments : Held(lines, s) \intersect survey.wanted # {}
    /\ \A n \in survey.wanted : \A f \in UNION (moments \ {Gone}) :
         \A s \in Parser!SectionNames(f) :
           (\A lines \in moments : n \in Held(lines, s)) =>
             n \notin Unknown /\ (survey.op # "get_admin" => s \in ret)
=============================================================================
