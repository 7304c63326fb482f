------------------------------ MODULE Library ------------------------------
(***************************************************************************)
(* The library object of libcrange.c: its configuration file, read line by *)
(* line, the functions a request finds in it, the static library that      *)
(* stands in for a missing one, and the easy interface with its two pools. *)
(* A prefix and a function's name together are one name; module m under    *)
(* another prefix is another module.                                       *)
(***************************************************************************)
EXTENDS Naturals, Sequences, FiniteSetsExt

CONSTANTS
  Conf,            \* the lines of each configuration file
  Defaults,        \* the files that can be the default one
  NoFile,          \* instead of lines: the file cannot be read
  Handles,         \* the easy_lr of the program
  Static,          \* the static library
  Names,           \* the functions asked for
  Provides,        \* the functions each module names
  Lacks,           \* those it names and does not have
  PathModules,     \* yamlfile, under each of its prefixes
  yaml_path,       \* the name of that variable
  YamlPaths,       \* what LIBCRANGE_YAML_PATH can be, Null where it is not set
  DefaultPath,
  Freed,           \* the path after its pool is gone
  Null

Libraries == Handles \union {Static}
Calls == [h : Handles, call : {"eval", "compress", "packed"}, n : Names \union {Null}]

ASSUME ConfAssumption ==
  /\ \A c \in DOMAIN Conf : Conf[c] # NoFile => Len(Conf[c]) \in Nat /\ DOMAIN Conf[c] = 1..Len(Conf[c])
  /\ Defaults \subseteq DOMAIN Conf
ASSUME ModuleAssumption ==
  /\ PathModules \subseteq DOMAIN Provides
  /\ DOMAIN Provides \intersect {"perl", "python", "none", "undefined", Null} = {}
ASSUME NullAssumption == Null \notin Libraries /\ Null \notin Calls /\ Static \notin Handles

VARIABLES
  LIBCRANGE_CONF,  \* the default file
  LIBCRANGE_YAML_PATH,  \* of the environment, which nothing here changes
  lr,       \* the libraries
  parsing,  \* the one whose file is read, the line, and the other languages' functions
  path,     \* yamlfile's path, one for the process: its text and whose pool it is in
  plugins,  \* %_FUNCTIONS and libcrange_funcs, one of each for the process
  waiting,  \* the call that needs the static library
  at_exit,  \* how often destroy_static_pool is registered
  answer,   \* what the last call found
  running,  \* no assertion has failed, and no null has been iterated over
  reader,   \* ghost: the library whose path module was loaded last
  user      \* ghost: and those whose Perl and Python modules were

environment == <<LIBCRANGE_CONF, LIBCRANGE_YAML_PATH>>
vars == <<environment, lr, parsing, path, plugins, waiting, at_exit, answer, running, reader, user>>
outside == <<waiting, at_exit, answer, running>>

EmptyMap == [n \in {} |-> Null]
set_add(map, n, value) == [m \in DOMAIN map \union {n} |-> IF m = n THEN value ELSE map[m]]
set_get_data(map, n) == IF n \in DOMAIN map THEN map[n] ELSE Null

NoLibrary == [state |-> "none", conf |-> Null, functions |-> EmptyMap, settings |-> EmptyMap,
              perl |-> EmptyMap, python |-> EmptyMap, unset |-> FALSE]
NoParse == [lib |-> Null, line |-> 1, perl |-> EmptyMap, python |-> EmptyMap]

Init ==
  /\ LIBCRANGE_CONF \in Defaults /\ LIBCRANGE_YAML_PATH \in YamlPaths
  /\ lr = [l \in Libraries |-> NoLibrary]
  /\ parsing = NoParse
  /\ path = [value |-> DefaultPath, owner |-> Null]
  /\ plugins = [language \in {"perl", "python"} |-> EmptyMap]
  /\ waiting = Null /\ at_exit = 0 /\ answer = Null /\ running = TRUE
  /\ reader = Null /\ user = [language \in {"perl", "python"} |-> Null]

Idle == running /\ parsing.lib = Null /\ waiting = Null

(***************************************************************************)
(* libcrange_new and parse_config_file.  Where there is no file nothing    *)
(* sets python_functions, and it is what the memory held (unset).          *)
(***************************************************************************)
libcrange_new(l, c) ==
  \/ /\ Conf[c] = NoFile
     /\ lr' = [lr EXCEPT ![l] = [NoLibrary EXCEPT !.state = "live", !.conf = c, !.unset = TRUE]]
     /\ parsing' = NoParse
  \/ /\ Conf[c] # NoFile
     /\ lr' = [lr EXCEPT ![l] = [NoLibrary EXCEPT !.state = "new", !.conf = c, !.unset = TRUE]]
     /\ parsing' = [NoParse EXCEPT !.lib = l]

Parsing == running /\ parsing.lib # Null
This == lr[parsing.lib]
AtEnd == parsing.line > Len(Conf[This.conf])
Line == Conf[This.conf][parsing.line]
Reading(kind) == Parsing /\ ~AtEnd /\ Line.kind = kind
NextLine == [parsing EXCEPT !.line = @ + 1]

Null_lr == [lr EXCEPT ![parsing.lib] = [NoLibrary EXCEPT !.state = "null", !.conf = This.conf]]

Fail == parsing' = NoParse /\ lr' = Null_lr

Blank == Reading("blank") /\ parsing' = NextLine /\ UNCHANGED <<lr, path, outside>>

add_function(map, m, names) == [n \in DOMAIN map \union names |-> IF n \in names THEN m ELSE map[n]]

(* functions_provided of yamlfile.c: the environment comes before the      *)
(* configuration file.  That of nodescf.c differs in the names only.       *)
Altpath_fault ==
  IF yaml_path \in DOMAIN This.settings THEN {[value |-> This.settings[yaml_path], owner |-> parsing.lib]}
  ELSE {[value |-> p, owner |-> Null] : p \in {LIBCRANGE_YAML_PATH} \ {Null}}
Altpath ==
  IF LIBCRANGE_YAML_PATH # Null THEN {[value |-> LIBCRANGE_YAML_PATH, owner |-> Null]}
  ELSE {[value |-> This.settings[v], owner |-> parsing.lib] : v \in {yaml_path} \intersect DOMAIN This.settings}

functions_provided(m) ==
  \/ m \in PathModules /\ path' \in Altpath
  \/ (m \notin PathModules \/ Altpath = {}) /\ path' = path

Complete_fault(m) == m \in DOMAIN Provides
Complete(m) == m \in DOMAIN Provides /\ Lacks[m] = {}

add_functions_from_module ==
  /\ Reading("loadmodule")
  /\ IF Line.module \in DOMAIN Provides THEN functions_provided(Line.module) ELSE path' = path
  /\ \/ /\ Complete(Line.module)
        /\ lr' = [lr EXCEPT ![parsing.lib].functions =
                    add_function(@, Line.module, Provides[Line.module] \ Lacks[Line.module])]
        /\ parsing' = NextLine
     \/ ~Complete(Line.module) /\ Fail
  /\ UNCHANGED outside

Var ==
  /\ Reading("var")
  /\ lr' = [lr EXCEPT ![parsing.lib].settings = set_add(@, Line.var, Line.value)]
  /\ parsing' = NextLine
  /\ UNCHANGED <<path, outside>>

(* A module that cannot be loaded is passed over.  libcrange_load_file     *)
(* enters the functions in the table the calls look them up in.            *)
ProvidedBy(m) == IF m \in DOMAIN Provides THEN Provides[m] ELSE {}

Shared_fault(table, m) == add_function(table, m, ProvidedBy(m) \ DOMAIN table)
Shared(table, m) == add_function(table, m, ProvidedBy(m))

add_functions_from_perlmodule ==
  /\ Reading("perlmodule")
  /\ parsing' = [NextLine EXCEPT !.perl = add_function(@, Line.module, ProvidedBy(Line.module))]
  /\ plugins' = [plugins EXCEPT !["perl"] = Shared(@, Line.module)]
  /\ UNCHANGED <<lr, path, outside>>

(* python_interp is never set: every line runs PYTHON_BOOT again, which    *)
(* empties the table.  The list of names has no end, and what lies behind  *)
(* it is read on: when that is zero, it ends well.                         *)
add_functions_from_pythonmodule ==
  /\ Reading("pythonmodule")
  /\ plugins' = [plugins EXCEPT !["python"] = Shared(EmptyMap, Line.module)]
  /\ parsing' = [NextLine EXCEPT !.python = add_function(@, Line.module, ProvidedBy(Line.module))]
  /\ \/ UNCHANGED running
     \/ Line.module \in DOMAIN Provides /\ running' = FALSE
  /\ UNCHANGED <<lr, path, waiting, at_exit, answer>>

(* No line of these forms, or one that is too long or not ended. *)
SyntaxError == Reading("bad") /\ Fail /\ UNCHANGED <<path, outside>>

Finish ==
  /\ Parsing /\ AtEnd
  /\ lr' = [lr EXCEPT ![parsing.lib].perl = parsing.perl, ![parsing.lib].python = parsing.python,
                      ![parsing.lib].unset = FALSE, ![parsing.lib].state = "live"]
  /\ parsing' = NoParse
  /\ UNCHANGED <<path, outside>>

(***************************************************************************)
(* The easy interface.  A call goes to the handle's own library, or to the *)
(* static one where range_easy_create was given none.                      *)
(***************************************************************************)
range_easy_create(h, c) ==
  /\ Idle /\ lr[h].state = "none"
  /\ libcrange_new(h, c)
  /\ answer' = Null
  /\ UNCHANGED <<path, waiting, at_exit, running>>

Given(h) == lr[h].state \in {"live", "null"}
Library(h) == IF lr[h].state = "live" THEN h ELSE Static

Known(l) == l # Static \/ lr[l].state = "live"

get_static_lr ==
  /\ libcrange_new(Static, LIBCRANGE_CONF)
  /\ at_exit' = at_exit + 1

(* range_from_function. *)
Found(l, n) ==
  CASE set_get_data(lr[l].perl, n) # Null -> {"perl"}
    [] set_get_data(lr[l].perl, n) = Null /\ lr[l].unset -> {"undefined", "none"}
    [] set_get_data(lr[l].perl, n) = Null /\ ~lr[l].unset /\ set_get_data(lr[l].python, n) # Null -> {"python"}
    [] OTHER -> {IF set_get_data(lr[l].functions, n) = Null THEN "none" ELSE set_get_data(lr[l].functions, n)}

(* A request for function n.  What is returned, and whether it is a copy   *)
(* or in the pool of the query, is left out.  The module's function reads  *)
(* the path the process has.                                               *)
(* libcrange_call_func looks the name up in the table of the process;      *)
(* _python_function then iterates over what it returned, be it null.       *)
Run(f, n) == IF f \in DOMAIN plugins THEN set_get_data(plugins[f], n) ELSE f

Answer(c) ==
  \/ c.call = "compress" /\ answer' = Null /\ running' = TRUE
  \/ /\ c.call # "compress"
     /\ \E f \in Found(Library(c.h), c.n) :
          /\ running' = (Run(f, c.n) # Null)
          /\ answer' = [h |-> c.h, n |-> c.n, found |-> f, runs |-> Run(f, c.n), path |-> path.value]

Serve(c) ==
  \/ /\ Known(Library(c.h))
     /\ Answer(c) /\ waiting' = Null
     /\ UNCHANGED <<lr, parsing, path, at_exit>>
  \/ /\ ~Known(Library(c.h))
     /\ get_static_lr
     /\ waiting' = c /\ answer' = Null
     /\ UNCHANGED <<path, running>>

Call(h, call, n) == Idle /\ Given(h) /\ Serve([h |-> h, call |-> call, n |-> n])

range_easy_eval(h, n) == Call(h, "eval", n)
range_easy_compress(h) == Call(h, "compress", Null)
range_easy_expand_as_packed_set(h, n) == Call(h, "packed", n)

(* get_static_lr returns to its caller, which asserts that it has one. *)
StaticReady_fault ==
  /\ running /\ waiting # Null /\ parsing.lib = Null
  /\ IF lr[Static].state = "live" THEN Answer(waiting) ELSE UNCHANGED <<answer, running>>
  /\ waiting' = Null
  /\ UNCHANGED <<lr, parsing, path, at_exit>>

StaticReady ==
  /\ running /\ waiting # Null /\ parsing.lib = Null
  /\ \/ lr[Static].state = "live" /\ Answer(waiting)
     \/ lr[Static].state = "null" /\ running' = FALSE /\ UNCHANGED answer
  /\ waiting' = Null
  /\ UNCHANGED <<lr, parsing, path, at_exit>>

range_easy_destroy(h) ==
  /\ Idle /\ Given(h)
  /\ lr' = [lr EXCEPT ![h] = NoLibrary]
  /\ path' = (IF path.owner = h THEN [value |-> Freed, owner |-> Null] ELSE path)
  /\ answer' = Null
  /\ UNCHANGED <<parsing, waiting, at_exit, running>>

Steps ==
  \/ Blank \/ add_functions_from_module \/ Var \/ SyntaxError \/ Finish \/ StaticReady
  \/ \E h \in Handles :
       \/ \E c \in DOMAIN Conf : range_easy_create(h, c)
       \/ \E n \in Names : range_easy_eval(h, n) \/ range_easy_expand_as_packed_set(h, n)
       \/ range_easy_compress(h)
       \/ range_easy_destroy(h)

LoadsPath == Reading("loadmodule") /\ Line.module \in PathModules

Kind(language) == IF language = "perl" THEN "perlmodule" ELSE "pythonmodule"
LoadsPlugin(language) == Reading(Kind(language)) /\ Line.module \in DOMAIN Provides

Plugins == add_functions_from_perlmodule \/ add_functions_from_pythonmodule

Next ==
  /\ Plugins \/ (Steps /\ UNCHANGED plugins)
  /\ reader' = IF LoadsPath THEN parsing.lib ELSE reader
  /\ user' = [language \in DOMAIN user |-> IF LoadsPlugin(language) THEN parsing.lib ELSE user[language]]
  /\ UNCHANGED environment

Spec == Init /\ [][Next]_vars

(***************************************************************************)
(* What a configuration file says.                                         *)
(***************************************************************************)
Loads(c, kind, k) == Conf[c][k].kind = kind /\ Conf[c][k].module \in DOMAIN Provides

Sound(c, k) ==
  /\ Conf[c][k].kind # "bad"
  /\ Conf[c][k].kind = "loadmodule" => Loads(c, "loadmodule", k) /\ Lacks[Conf[c][k].module] = {}
Valid(c) == \A k \in DOMAIN Conf[c] : Sound(c, k)

Chosen(h) == IF Conf[lr[h].conf] = NoFile \/ Valid(lr[h].conf) THEN lr[h].conf ELSE LIBCRANGE_CONF

Lines(c, kind, n) == {k \in DOMAIN Conf[c] : Loads(c, kind, k) /\ n \in Provides[Conf[c][k].module]}
LastModule(c, n) == Conf[c][Max(Lines(c, "loadmodule", n))].module

Meant(c, n) ==
  CASE Lines(c, "perlmodule", n) # {} -> "perl"
    [] Lines(c, "perlmodule", n) = {} /\ Lines(c, "pythonmodule", n) # {} -> "python"
    [] OTHER -> IF Lines(c, "loadmodule", n) = {} THEN "none" ELSE LastModule(c, n)

(* The path is read when a module is loaded: only what stands above the    *)
(* module's line counts, and that line counts if all above it are sound.   *)
PathLines(c) ==
  {k \in DOMAIN Conf[c] :
     /\ Conf[c][k].kind = "var" /\ Conf[c][k].var = yaml_path
     /\ \E j \in k..Len(Conf[c]) :
          /\ Loads(c, "loadmodule", j) /\ Conf[c][j].module \in PathModules
          /\ \A i \in 1..j - 1 : Sound(c, i)}

SaysPath(c) == LIBCRANGE_YAML_PATH # Null \/ (c # Null /\ Conf[c] # NoFile /\ PathLines(c) # {})
PathMeant(c) == IF LIBCRANGE_YAML_PATH # Null THEN LIBCRANGE_YAML_PATH ELSE Conf[c][Max(PathLines(c))].value

(***************************************************************************)
(* Properties.                                                             *)
(***************************************************************************)

(* Types: at most one library is being made, and a call only waits for the *)
(* static one.                                                             *)
LibraryState == {"none", "new", "live", "null"}
TypeOK ==
  /\ \A l \in Libraries :
       /\ lr[l].state \in LibraryState /\ lr[l].conf \in DOMAIN Conf \union {Null}
       /\ lr[l].state = "new" <=> parsing.lib = l
  /\ parsing.lib \in Libraries \union {Null} /\ parsing.line \in Nat
  /\ waiting # Null => lr[Static].state # "none" /\ parsing.lib \in {Static, Null}
  /\ at_exit \in Nat /\ running \in BOOLEAN

(* A name means what the handle's own file says, the last line of it, Perl *)
(* before Python before C; or the default file, where the own one is not   *)
(* well-formed.  A half-loaded library never answers.                      *)
FunctionsAsConfigured ==
  answer # Null /\ Conf[Chosen(answer.h)] # NoFile => answer.found = Meant(Chosen(answer.h), answer.n)

(* Whoever asks, clusters are looked for where the environment says, or    *)
(* else where the file of the last library to load a module that reads a   *)
(* path says, whatever libraries came before: also when that one failed    *)
(* half-way and another answers, as long as it is not destroyed.           *)
PathAsConfigured ==
  answer # Null /\ answer.found \in PathModules /\ reader # Null /\ SaysPath(lr[reader].conf) =>
    answer.path = PathMeant(lr[reader].conf)

(* What a Perl or Python function runs is in a table all libraries share.  *)
(* The last library to load such modules has its own, those its file names *)
(* last; a Python function of an earlier line runs nothing.                *)
PluginMeant(c, language, n) == Conf[c][Max(Lines(c, Kind(language), n))].module
PluginsAsConfigured ==
  answer # Null /\ running /\ answer.found \in DOMAIN plugins
    /\ user[answer.found] = Library(answer.h) /\ Conf[Chosen(answer.h)] # NoFile =>
    answer.runs = PluginMeant(Chosen(answer.h), answer.found, answer.n)

(* However often the static library is asked for, and also when it cannot  *)
(* be made, exit destroys its pool once.                                   *)
StaticPoolOnce == at_exit <= 1
============================================================================
