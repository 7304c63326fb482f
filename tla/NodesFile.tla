----------------------------- MODULE NodesFile -----------------------------
(***************************************************************************)
(* _cluster_keys of nodescf.c: a nodes.cf file, line by line, becomes the  *)
(* texts of its sections.  A section's name starts at the margin, and its  *)
(* INCLUDE and EXCLUDE lines are indented.                                 *)
(***************************************************************************)
EXTENDS Naturals, Sequences, SequencesExt, FiniteSetsExt

CONSTANTS
  Cluster,              \* the cluster whose file it is
  Files,                \* lines of a file, and whether the last one ends in a newline
  Unreadable,           \* instead of a file: fopen fails
  CLUSTER, ALL, KEYS, UP, DOWN,
  Chopped,              \* a name without its last character
  Null

(* Lines; a blank line may have been a comment. *)
header(s) == [kind |-> "header", name |-> s]
entry(sign, text) == [kind |-> sign, text |-> text]
Signs == {"INCLUDE", "EXCLUDE"}
Indented(line) == line.kind \in Signs \union {"other"}

IsFile(f) ==
  /\ f.ended \in BOOLEAN /\ Len(f.lines) \in Nat /\ DOMAIN f.lines = 1..Len(f.lines)
  /\ \A k \in DOMAIN f.lines :
       LET line == f.lines[k]
       IN /\ line.kind \in Signs \union {"header", "other", "blank"}
          /\ line.kind = "header" => line = header(line.name) /\ line.name # Null
          /\ line.kind \in Signs => Len(line.text) \in Nat /\ DOMAIN line.text = 1..Len(line.text)

VARIABLES
  file,           \* the file that is read
  at,             \* its line
  sections,
  section,        \* whose entries working_range holds
  cur_section,    \* the last name at the margin
  working_range,
  pc              \* "idle", "loop" or "returned"

vars == <<file, at, sections, section, cur_section, working_range, pc>>

EmptyMap == [s \in {} |-> Null]
set_add(map, s, text) == [t \in DOMAIN map \union {s} |-> IF t = s THEN text ELSE map[t]]
set_get_data(map, s) == IF s \in DOMAIN map THEN map[s] ELSE Null

(***************************************************************************)
(* $name means that section of the same cluster, but between slashes it is *)
(* left alone.                                                             *)
(***************************************************************************)
Slash == [kind |-> "slash"]
InRegex(text, k) == Cardinality({j \in 1..k - 1 : text[j] = Slash}) % 2 = 1

_substitute_dollars(text) ==
  [k \in DOMAIN text |->
     IF text[k].kind = "dollar" /\ ~InRegex(text, k)
     THEN [kind |-> "cluster", cluster |-> Cluster, section |-> text[k].name] ELSE text[k]]

Init ==
  /\ file = Unreadable /\ at = 1 /\ sections = EmptyMap
  /\ section = Null /\ cur_section = Null /\ working_range = <<>> /\ pc = "idle"

_cluster_keys(f) ==
  /\ pc = "idle"
  /\ file' = f
  /\ pc' = IF f = Unreadable THEN "returned" ELSE "loop"
  /\ UNCHANGED <<at, sections, section, cur_section, working_range>>

(* fgets, and then line[--len] = '\0', be it a newline or not. *)
Reading == pc = "loop" /\ at <= Len(file.lines)
Cut(line) ==
  CASE line.kind = "header" -> header(Chopped)
    [] line.kind \in Signs -> entry(line.kind, Append(Front(line.text), [kind |-> "name", name |-> Chopped]))
    [] OTHER -> line
ThisLine == IF at = Len(file.lines) /\ ~file.ended THEN Cut(file.lines[at]) ELSE file.lines[at]

Blank ==
  /\ Reading /\ ThisLine.kind = "blank"
  /\ at' = at + 1
  /\ UNCHANGED <<file, sections, section, cur_section, working_range, pc>>

Header ==
  /\ Reading /\ ThisLine.kind = "header"
  /\ cur_section' = ThisLine.name /\ at' = at + 1
  /\ UNCHANGED <<file, sections, section, working_range, pc>>

(* An indented line closes the section before, if it has another name. *)
Closes == section # Null /\ cur_section # section
Open_fault == working_range
Open == IF Closes THEN <<>> ELSE working_range

(* Where nothing has been named yet, the entries go to the first section.  *)
Stored == IF Closes THEN set_add(sections, section, working_range) ELSE sections

Entry ==
  /\ Reading /\ Indented(ThisLine)
  /\ sections' = Stored
  /\ working_range' =
       IF ThisLine.kind \in Signs THEN Append(Open, entry(ThisLine.kind, _substitute_dollars(ThisLine.text))) ELSE Open
  /\ section' = cur_section /\ at' = at + 1
  /\ UNCHANGED <<file, cur_section, pc>>

WithKeys(map) == set_add(map, KEYS, IF DOMAIN map = {} THEN Null ELSE DOMAIN map)
WithUp(map) == set_add(map, UP, set_get_data(map, CLUSTER))
WithDown(map) ==
  IF {ALL, CLUSTER} \subseteq DOMAIN map
  THEN set_add(map, DOWN, [all |-> map[ALL], without |-> map[CLUSTER]]) ELSE map

AtTheEnd_fault == IF cur_section # Null /\ cur_section = section THEN set_add(sections, cur_section, working_range) ELSE sections
AtTheEnd == IF cur_section # Null THEN set_add(sections, cur_section, working_range) ELSE sections

Close ==
  /\ pc = "loop" /\ at > Len(file.lines)
  /\ sections' = WithDown(WithUp(WithKeys(AtTheEnd)))
  /\ pc' = "returned"
  /\ UNCHANGED <<file, at, section, cur_section, working_range>>

(* The caller has the set. *)
Return ==
  /\ pc = "returned"
  /\ file' = Unreadable /\ at' = 1 /\ sections' = EmptyMap
  /\ section' = Null /\ cur_section' = Null /\ working_range' = <<>> /\ pc' = "idle"

Next == Blank \/ Header \/ Entry \/ Close \/ Return \/ \E f \in Files : _cluster_keys(f)
Spec == Init /\ [][Next]_vars

(***************************************************************************)
(* What a file says.                                                       *)
(***************************************************************************)
Lines(f) == DOMAIN f.lines
Headers(f) == {k \in Lines(f) : f.lines[k].kind = "header"}
HeaderOf(f, k) == {h \in Headers(f) : h < k /\ \A g \in Headers(f) : g <= h \/ g >= k}
SectionNames(f) == {f.lines[h].name : h \in Headers(f)}
Entries(f) == {k \in Lines(f) : f.lines[k].kind \in Signs}

(* The indented lines under a name.                                        *)
Under(f, s) == {k \in Lines(f) : Indented(f.lines[k]) /\ \E h \in HeaderOf(f, k) : f.lines[h].name = s}

(* Under every name stands something, and nothing stands above the first.  *)
Regular(f) ==
  /\ f.ended
  /\ \A h \in Headers(f) : \E k \in Lines(f) : h \in HeaderOf(f, k) /\ Indented(f.lines[k])
  /\ \A k \in Lines(f) : Indented(f.lines[k]) => HeaderOf(f, k) # {}

(* The lines of the last block that is named s: a name can be repeated.    *)
Block(f, s) ==
  {k \in Under(f, s) \intersect Entries(f) :
     \A i \in Under(f, s) : \A j \in k..i : Indented(f.lines[j]) => j \in Under(f, s)}

(* Whether a slash is still open after k of a line's parts.                *)
SlashOpen(text) ==
  LET open[k \in 0..Len(text)] == IF k = 0 THEN FALSE ELSE IF text[k] = Slash THEN ~open[k - 1] ELSE open[k - 1]
  IN open
Resolved(text) ==
  [k \in DOMAIN text |->
     IF text[k].kind # "dollar" \/ SlashOpen(text)[k - 1] THEN text[k]
     ELSE [kind |-> "cluster", cluster |-> Cluster, section |-> text[k].name]]
Meant(line) == entry(line.kind, Resolved(line.text))

(* The entries of some lines, in their order.                              *)
Nth(ks, j) == CHOOSE k \in ks : Cardinality({i \in ks : i <= k}) = j
TextOf(f, ks) == [j \in 1..Cardinality(ks) |-> Meant(f.lines[Nth(ks, j)])]
MeantText(f, s) == TextOf(f, Block(f, s))

(***************************************************************************)
(* Properties.                                                             *)
(***************************************************************************)
Done == pc = "returned" /\ file # Unreadable
Special == {KEYS, UP, DOWN}

(* The sections of a regular file are the ones it names, each with the     *)
(* entries of its last block in their order; KEYS names them all, UP is    *)
(* CLUSTER, and DOWN is what ALL has and CLUSTER has not.                  *)
SectionsExact ==
  Done /\ Regular(file) =>
    /\ \A s \in SectionNames(file) \ Special : set_get_data(sections, s) = MeantText(file, s)
    /\ DOMAIN sections \subseteq SectionNames(file) \union Special
    /\ sections[KEYS] = IF SectionNames(file) = {} THEN Null ELSE SectionNames(file)
    /\ sections[UP] = IF CLUSTER \in SectionNames(file) THEN MeantText(file, CLUSTER) ELSE Null
    /\ {ALL, CLUSTER} \subseteq SectionNames(file) =>
         sections[DOWN] = [all |-> MeantText(file, ALL), without |-> MeantText(file, CLUSTER)]

(* However irregular the file, no entry that stands below a name is lost,  *)
(* unless a name is repeated or is one of the special ones.                *)
Repeated(f) == \E h, g \in Headers(f) : h # g /\ f.lines[h].name = f.lines[g].name
Texts == {sections[s] : s \in DOMAIN sections \ Special}
EntriesKept ==
  Done /\ file.ended /\ SectionNames(file) \intersect Special = {} /\ ~Repeated(file) =>
    \A k \in Entries(file) : HeaderOf(file, k) # {} =>
      \E t \in Texts : Contains(t, Meant(file.lines[k]))

(* README.md: %cluster101:ALL or %cluster101:FOO are the "nodes defined in *)
(* a specific key" of the file: a key has no nodes of another key.         *)
KeyNodesDocumented ==
  Done /\ file.ended /\ (\A k \in Lines(file) : Indented(file.lines[k]) => HeaderOf(file, k) # {}) =>
    \A s \in DOMAIN sections \ Special : \A j \in DOMAIN sections[s] :
      \E k \in Under(file, s) \intersect Entries(file) : Meant(file.lines[k]) = sections[s][j]
============================================================================
