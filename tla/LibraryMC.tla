----------------------------- MODULE LibraryMC -----------------------------
(* Small instances of Library: files that load a module which reads a path,*)
(* one that shares a name with it, one that lacks a function, and modules  *)
(* of both other languages.                                                *)
EXTENDS Library, TLC

CONSTANTS cluster, has, site, here, there, elsewhere

Load(m) == [kind |-> "loadmodule", module |-> m]
Perl(m) == [kind |-> "perlmodule", module |-> m]
Python(m) == [kind |-> "pythonmodule", module |-> m]
Set(value) == [kind |-> "var", var |-> yaml_path, value |-> value]
Comment == [kind |-> "blank"]
Bad == [kind |-> "bad"]

ProvidesDef == [m \in {"yaml", "sql", "half", "utils", "extra"} |->
  CASE m = "yaml" -> {cluster, has} [] m = "sql" -> {has} [] m = "half" -> {cluster, site}
    [] m = "utils" -> {has, site} [] OTHER -> {site}]
LacksDef == [m \in DOMAIN ProvidesDef |-> IF m = "half" THEN {site} ELSE {}]

(* The default file first, then the ones a program may name.               *)
Default == <<Set(here), Load("yaml")>>
Good == {
  <<Comment, Set(there), Load("yaml"), Load("sql")>>,
  <<Load("sql"), Set(there), Load("yaml"), Perl("extra"), Python("extra")>>,
  <<Set(here), Load("yaml"), Perl("extra"), Perl("utils"), Python("gone"), Python("utils"), Set(there)>>}
Broken == {
  <<Set(there), Load("yaml"), Load("half"), Load("sql")>>,
  <<Load("sql"), Load("gone")>>,
  <<Set(there), Load("yaml"), Bad>>}

AllFiles == [c \in Good \union Broken \union {<<>>, Default, NoFile} |-> c]
HandleSymmetry == Permutations(Handles)

(* One name more, so that TLC evaluates each of these only once. *)
ConfDef == AllFiles
YamlPathsDef == {Null, elsewhere}
DefaultsDef == {Default, <<Load("sql"), Load("gone")>>}
============================================================================
