--------------------------- MODULE LibraryProofs ---------------------------
(***************************************************************************)
(* Proofs about Library, for any configuration files, modules and handles: *)
(* that names, paths and plug-in functions mean what the right file says,  *)
(* and that exit has one pool to destroy.  The invariant says of every     *)
(* library what its tables have from the lines read so far (MapIs,         *)
(* VarsIs); of the path and the plug-ins, which all libraries share, what  *)
(* the last library to set them put there, also one that failed; and that  *)
(* a call that is under way has no answer.                                 *)
(***************************************************************************)
EXTENDS Library, WellFoundedInduction, TLAPS

(***************************************************************************)
(* Last lines.                                                             *)
(***************************************************************************)

(* A non-empty set of naturals has a least element. *)
LEMMA LeastExists ==
  ASSUME NEW S \in SUBSET Nat, S # {}
  PROVE  \E m \in S : \A n \in S : m <= n
<1> DEFINE R == OpToRel(<, Nat)
<1>1. R = {ss \in Nat \X Nat : ss[1] < ss[2]} BY Zenon DEF OpToRel
<1>2. IsWellFoundedOn(R, Nat) BY NatLessThanWellFounded
<1> HIDE DEF R
<1>3. PICK m \in S : \A n \in S : ~ (<<n, m>> \in R) BY <1>2, WFMin, Zenon
<1>4. ASSUME NEW n \in S PROVE m <= n
  <2>1. n \in Nat /\ m \in Nat OBVIOUS
  <2>2. n < m => <<n, m>> \in R BY <1>1, <2>1
  <2>3. QED BY <1>3, <2>1, <2>2
<1>5. QED BY <1>4

(* So Max is the greatest member of a non-empty set that is bounded. *)
LEMMA MaxIs ==
  ASSUME NEW n \in Nat, NEW S \in SUBSET (0..n), S # {}
  PROVE  Max(S) \in S /\ \A y \in S : y <= Max(S)
<1> DEFINE D == {n - x : x \in S}
<1>0. \A x \in S : n - x \in Nat OBVIOUS
<1>1. D \in SUBSET Nat /\ D # {} BY <1>0
<1>2. PICK d \in D : \A e \in D : d <= e BY <1>1, LeastExists
<1>3. PICK x \in S : d = n - x OBVIOUS
<1>4. ASSUME NEW y \in S PROVE x >= y
  <2>1. n - y \in D OBVIOUS
  <2>2. n - x <= n - y BY <1>2, <1>3, <2>1
  <2>3. QED BY <2>2
<1>5. \E z \in S : \A y \in S : z >= y BY <1>4
<1>6. Max(S) \in S /\ \A y \in S : Max(S) >= y BY <1>5 DEF Max
<1>7. QED BY <1>6

(***************************************************************************)
(* What the lines before k say.                                            *)
(***************************************************************************)
Below(c, kind, n, k) == {j \in 1..k - 1 : Loads(c, kind, j) /\ n \in Provides[Conf[c][j].module]}
MapIs(map, c, kind, k) ==
  \A n : IF Below(c, kind, n, k) = {} THEN n \notin DOMAIN map
         ELSE n \in DOMAIN map /\ map[n] = Conf[c][Max(Below(c, kind, n, k))].module

VarsBelow(c, k) == {j \in 1..k - 1 : Conf[c][j].kind = "var" /\ Conf[c][j].var = yaml_path}
VarsIs(settings, c, k) ==
  IF VarsBelow(c, k) = {} THEN yaml_path \notin DOMAIN settings
  ELSE yaml_path \in DOMAIN settings /\ settings[yaml_path] = Conf[c][Max(VarsBelow(c, k))].value

LoadsPathAt(c, j) == Loads(c, "loadmodule", j) /\ Conf[c][j].module \in PathModules
PathBelow(c, k) == {i \in VarsBelow(c, k) : \E j \in i..k - 1 : LoadsPathAt(c, j)}

ValidBelow(c, k) == \A j \in 1..k - 1 : Sound(c, j)

(***************************************************************************)
(* The invariant.                                                          *)
(***************************************************************************)
IsLib(r) ==
  /\ r = [state |-> r.state, conf |-> r.conf, functions |-> r.functions, settings |-> r.settings,
          perl |-> r.perl, python |-> r.python, unset |-> r.unset]
  /\ r.state \in LibraryState /\ r.conf \in DOMAIN Conf \union {Null}
  /\ IF r.state = "none" THEN r.conf = Null ELSE r.conf \in DOMAIN Conf

StateOK ==
  /\ LIBCRANGE_CONF \in Defaults
  /\ DOMAIN lr = Libraries /\ \A l \in Libraries : IsLib(lr[l]) /\ (lr[l].state = "new" <=> parsing.lib = l)
  /\ parsing = [lib |-> parsing.lib, line |-> parsing.line, perl |-> parsing.perl, python |-> parsing.python]
  /\ parsing.lib \in Libraries \union {Null} /\ parsing.line \in Nat \ {0}
  /\ path = [value |-> path.value, owner |-> path.owner]
  /\ waiting \in Calls \union {Null} /\ running \in BOOLEAN
  /\ reader \in Libraries \union {Null}
  /\ user \in [{"perl", "python"} -> Libraries \union {Null}] /\ DOMAIN plugins = {"perl", "python"}

(* The library being made has the lines read so far.                       *)
ParseOK ==
  parsing.lib # Null =>
    LET c == This.conf
        k == parsing.line
    IN /\ Conf[c] # NoFile /\ k <= Len(Conf[c]) + 1 /\ ValidBelow(c, k)
       /\ MapIs(This.functions, c, "loadmodule", k) /\ VarsIs(This.settings, c, k)
       /\ MapIs(parsing.perl, c, "perlmodule", k) /\ MapIs(parsing.python, c, "pythonmodule", k)

(* A library that is made has them all, and one that is not has a reason.  *)
End(c) == Len(Conf[c]) + 1
Ready(r) ==
  /\ r.state = "live" =>
       IF Conf[r.conf] = NoFile THEN r.unset /\ DOMAIN r.functions = {} /\ DOMAIN r.perl = {}
       ELSE /\ ~r.unset /\ Valid(r.conf) /\ MapIs(r.functions, r.conf, "loadmodule", End(r.conf))
            /\ MapIs(r.perl, r.conf, "perlmodule", End(r.conf)) /\ MapIs(r.python, r.conf, "pythonmodule", End(r.conf))
  /\ r.state = "null" => Conf[r.conf] # NoFile /\ ~Valid(r.conf)
ReadyOK == \A l \in Libraries : Ready(lr[l])

(* The static library is made once, and if it cannot be made nothing runs. *)
StaticOK ==
  /\ lr[Static].state # "none" => lr[Static].conf = LIBCRANGE_CONF
  /\ at_exit = IF lr[Static].state = "none" THEN 0 ELSE 1
  /\ lr[Static].state \in {"new", "null"} => waiting # Null \/ ~running
  /\ waiting # Null => /\ lr[Static].state # "none" /\ parsing.lib \in {Static, Null}
                       /\ lr[waiting.h].state = "null"

(* What all libraries share, as far as the last one to set it has read.    *)
Has(l) == l \in Libraries /\ lr[l].state \in {"new", "live"} /\ Conf[lr[l].conf] # NoFile
Read(l) == IF parsing.lib = l THEN parsing.line ELSE End(lr[l].conf)

(* Of the path, a library that failed has set what one that is made has.   *)
HasPath(l) == l \in Libraries /\ lr[l].state \in {"new", "live", "null"} /\ Conf[lr[l].conf] # NoFile
PathNow(l) == IF parsing.lib = l THEN PathBelow(lr[l].conf, parsing.line) ELSE PathLines(lr[l].conf)

PathOK ==
  /\ LIBCRANGE_YAML_PATH # Null /\ reader # Null => path.value = LIBCRANGE_YAML_PATH /\ path.owner = Null
  /\ LIBCRANGE_YAML_PATH = Null /\ HasPath(reader) /\ PathNow(reader) # {} =>
       /\ path.owner = reader
       /\ path.value = Conf[lr[reader].conf][Max(PathNow(reader))].value

PluginOK(language) ==
  LET l == user[language]
      last(n) == Below(lr[l].conf, Kind(language), n, Read(l))
  IN Has(l) => \A n \in DOMAIN plugins[language] :
                 last(n) # {} => plugins[language][n] = Conf[lr[l].conf][Max(last(n))].module

(* No other library is read between two lines of a file. *)
UserOK(language) ==
  parsing.lib # Null /\ (\E j \in 1..parsing.line - 1 : Loads(This.conf, Kind(language), j)) =>
    user[language] = parsing.lib

AnswerOK ==
  /\ parsing.lib # Null \/ waiting # Null => answer = Null
  /\ FunctionsAsConfigured /\ PathAsConfigured /\ PluginsAsConfigured

IInv ==
  /\ StateOK /\ ParseOK /\ ReadyOK /\ StaticOK /\ PathOK /\ PluginOK("perl") /\ PluginOK("python")
  /\ UserOK("perl") /\ UserOK("python") /\ AnswerOK

(***************************************************************************)
(* One line more.                                                          *)
(***************************************************************************)

(* The last of some lines and a later one is that one. *)
LEMMA LastIs ==
  ASSUME NEW k \in Nat, NEW S, \A j \in S : j \in 1..k - 1
  PROVE  Max(S \union {k}) = k
<1> DEFINE T == S \union {k}
<1>1. \A j \in T : j \in 0..k BY SMT
<1>2. T \in SUBSET (0..k) /\ T # {} BY <1>1
<1> HIDE DEF T
<1>3. Max(T) \in T /\ \A y \in T : y <= Max(T) BY <1>2, MaxIs
<1>4. k \in T /\ Max(T) \in 0..k BY <1>1, <1>3 DEF T
<1>5. k <= Max(T) /\ Max(T) <= k BY <1>3, <1>4
<1>6. Max(T) = k BY <1>4, <1>5
<1>7. QED BY <1>6 DEF T

LEMMA MapNext ==
  ASSUME NEW c, NEW kind, NEW k \in Nat \ {0}, NEW map, MapIs(map, c, kind, k)
  PROVE  /\ ~Loads(c, kind, k) => MapIs(map, c, kind, k + 1)
         /\ Loads(c, kind, k) =>
              MapIs(add_function(map, Conf[c][k].module, Provides[Conf[c][k].module]), c, kind, k + 1)
<1> DEFINE now(n) == Below(c, kind, n, k)
           next(n) == Below(c, kind, n, k + 1)
           m == Conf[c][k].module
<1>1. \A n : \A j \in now(n) : j \in 1..k - 1 BY DEF Below
<1>2. \A n : next(n) = now(n) \union (IF Loads(c, kind, k) /\ n \in Provides[m] THEN {k} ELSE {})
  <2>1. 1..(k + 1) - 1 = (1..k - 1) \union {k} OBVIOUS
  <2>2. QED BY <2>1 DEF Below
<1>3. ASSUME ~Loads(c, kind, k) PROVE MapIs(map, c, kind, k + 1)
  <2>1. \A n : next(n) = now(n) BY <1>2, <1>3
  <2>2. QED BY <2>1 DEF MapIs
<1>4. ASSUME Loads(c, kind, k) PROVE MapIs(add_function(map, m, Provides[m]), c, kind, k + 1)
  <2> DEFINE new == add_function(map, m, Provides[m])
  <2> SUFFICES ASSUME NEW n
               PROVE  IF next(n) = {} THEN n \notin DOMAIN new
                      ELSE n \in DOMAIN new /\ new[n] = Conf[c][Max(next(n))].module
    BY DEF MapIs
  <2>1. CASE n \in Provides[m]
    <3>1. next(n) = now(n) \union {k} BY <1>2, <1>4, <2>1
    <3>2. Max(next(n)) = k BY <1>1, <3>1, LastIs
    <3>3. n \in DOMAIN new /\ new[n] = m BY <2>1 DEF add_function
    <3>4. QED BY <3>1, <3>2, <3>3
  <2>2. CASE n \notin Provides[m]
    <3>1. next(n) = now(n) BY <1>2, <2>2
    <3>2. (n \in DOMAIN new <=> n \in DOMAIN map) /\ (n \in DOMAIN map => new[n] = map[n]) BY <2>2 DEF add_function
    <3>3. QED BY <3>1, <3>2 DEF MapIs
  <2>3. QED BY <2>1, <2>2
<1>5. QED BY <1>3, <1>4

LEMMA MapFirst == ASSUME NEW c, NEW kind PROVE MapIs(EmptyMap, c, kind, 1)
BY DEF MapIs, Below, EmptyMap

LEMMA VarsNext ==
  ASSUME NEW c, NEW k \in Nat \ {0}, NEW settings, VarsIs(settings, c, k)
  PROVE  /\ Conf[c][k].kind # "var" => VarsIs(settings, c, k + 1)
         /\ Conf[c][k].kind = "var" => VarsIs(set_add(settings, Conf[c][k].var, Conf[c][k].value), c, k + 1)
<1> DEFINE here == Conf[c][k].kind = "var" /\ Conf[c][k].var = yaml_path
           new == set_add(settings, Conf[c][k].var, Conf[c][k].value)
<1>1. \A j \in VarsBelow(c, k) : j \in 1..k - 1 BY DEF VarsBelow
<1>2. VarsBelow(c, k + 1) = VarsBelow(c, k) \union (IF here THEN {k} ELSE {})
  <2>1. 1..(k + 1) - 1 = (1..k - 1) \union {k} OBVIOUS
  <2>2. QED BY <2>1 DEF VarsBelow
<1>3. Conf[c][k].kind # "var" => VarsIs(settings, c, k + 1) BY <1>2 DEF VarsIs
<1>4. ASSUME Conf[c][k].kind = "var" PROVE VarsIs(new, c, k + 1)
  <2>1. CASE Conf[c][k].var = yaml_path
    <3>1. VarsBelow(c, k + 1) = VarsBelow(c, k) \union {k} BY <1>2, <1>4, <2>1
    <3>2. Max(VarsBelow(c, k + 1)) = k BY <1>1, <3>1, LastIs
    <3>3. yaml_path \in DOMAIN new /\ new[yaml_path] = Conf[c][k].value BY <2>1 DEF set_add
    <3>4. QED BY <3>1, <3>2, <3>3 DEF VarsIs
  <2>2. CASE Conf[c][k].var # yaml_path
    <3>1. VarsBelow(c, k + 1) = VarsBelow(c, k) BY <1>2, <2>2
    <3>2. /\ yaml_path \in DOMAIN new <=> yaml_path \in DOMAIN settings
          /\ yaml_path \in DOMAIN settings => new[yaml_path] = settings[yaml_path]
      BY <2>2 DEF set_add
    <3>3. QED BY <3>1, <3>2 DEF VarsIs
  <2>3. QED BY <2>1, <2>2
<1>5. QED BY <1>3, <1>4

LEMMA VarsFirst == ASSUME NEW c PROVE VarsIs(EmptyMap, c, 1)
BY DEF VarsIs, VarsBelow, EmptyMap

LEMMA PathNext ==
  ASSUME NEW c, NEW k \in Nat \ {0}
  PROVE  /\ LoadsPathAt(c, k) => PathBelow(c, k + 1) = VarsBelow(c, k)
         /\ ~LoadsPathAt(c, k) => PathBelow(c, k + 1) = PathBelow(c, k)
<1>1. VarsBelow(c, k + 1) = VarsBelow(c, k) \union {j \in {k} : Conf[c][j].kind = "var" /\ Conf[c][j].var = yaml_path}
  <2>1. 1..(k + 1) - 1 = (1..k - 1) \union {k} OBVIOUS
  <2>2. QED BY <2>1 DEF VarsBelow
<1>2. \A i \in VarsBelow(c, k) : i \in 1..k - 1 /\ i..(k + 1) - 1 = (i..k - 1) \union {k}
  <2>1. \A i \in 1..k - 1 : i..(k + 1) - 1 = (i..k - 1) \union {k} OBVIOUS
  <2>2. QED BY <2>1 DEF VarsBelow
<1>3. k..(k + 1) - 1 = {k} OBVIOUS
<1>4. LoadsPathAt(c, k) => Conf[c][k].kind # "var" BY DEF LoadsPathAt, Loads
<1>5. \A i \in VarsBelow(c, k + 1) : i \in VarsBelow(c, k) \/ (i = k /\ ~LoadsPathAt(c, k)) BY <1>1, <1>4
<1>6. ASSUME LoadsPathAt(c, k) PROVE PathBelow(c, k + 1) = VarsBelow(c, k)
  BY <1>1, <1>2, <1>5, <1>6 DEF PathBelow
<1>7. ASSUME ~LoadsPathAt(c, k) PROVE PathBelow(c, k + 1) = PathBelow(c, k)
  BY <1>1, <1>2, <1>3, <1>5, <1>7 DEF PathBelow
<1>8. QED BY <1>6, <1>7

LEMMA ValidNext ==
  ASSUME NEW c, NEW k \in Nat \ {0}, ValidBelow(c, k), Conf[c][k].kind # "bad",
         Conf[c][k].kind = "loadmodule" => Loads(c, "loadmodule", k) /\ Lacks[Conf[c][k].module] = {}
  PROVE  ValidBelow(c, k + 1)
<1>1. 1..(k + 1) - 1 = (1..k - 1) \union {k} OBVIOUS
<1>2. QED BY <1>1 DEF ValidBelow, Sound

(* The lines that set the path, where the first line that is not sound is  *)
(* line k, or the end.                                                     *)
LEMMA PathReached ==
  ASSUME NEW c \in DOMAIN Conf, Conf[c] # NoFile, NEW k \in 1..Len(Conf[c]) + 1, ValidBelow(c, k),
         NEW e, e = IF k = End(c) THEN k ELSE k + 1,
         k # End(c) => ~Sound(c, k)
  PROVE  PathLines(c) = PathBelow(c, e)
<1>1. Len(Conf[c]) \in Nat /\ DOMAIN Conf[c] = 1..Len(Conf[c]) BY ConfAssumption DEF ConfAssumption
<1>2. k \in Nat \ {0} /\ e \in Nat /\ e - 1 <= Len(Conf[c]) /\ k <= e /\ e <= k + 1 BY <1>1 DEF End
<1>3. ASSUME NEW i \in PathLines(c) PROVE i \in PathBelow(c, e)
  <2>1. PICK j \in i..Len(Conf[c]) : LoadsPathAt(c, j) /\ \A m \in 1..j - 1 : Sound(c, m)
    BY DEF PathLines, LoadsPathAt
  <2>2. i \in 1..Len(Conf[c]) /\ Conf[c][i].kind = "var" /\ Conf[c][i].var = yaml_path BY <1>1 DEF PathLines
  <2>3. j \in Nat /\ 1 <= j /\ j <= Len(Conf[c]) /\ i <= j BY <1>1, <2>1, <2>2
  <2>4. j <= e - 1
    <3>1. CASE k = End(c) BY <1>1, <2>3, <3>1 DEF End
    <3>2. CASE k # End(c)
      <4>1. ~(k \in 1..j - 1) BY <2>1, <3>2
      <4>2. e = k + 1 BY <3>2
      <4>3. QED BY <1>2, <2>3, <4>1, <4>2
    <3>3. QED BY <3>1, <3>2
  <2>5. i \in 1..e - 1 /\ j \in i..e - 1 BY <1>2, <2>2, <2>3, <2>4
  <2>6. QED BY <2>1, <2>2, <2>5 DEF PathBelow, VarsBelow
<1>4. ASSUME NEW i \in PathBelow(c, e) PROVE i \in PathLines(c)
  <2>1. i \in 1..e - 1 /\ Conf[c][i].kind = "var" /\ Conf[c][i].var = yaml_path BY DEF PathBelow, VarsBelow
  <2>2. PICK j \in i..e - 1 : LoadsPathAt(c, j) BY DEF PathBelow
  <2>3. j \in i..Len(Conf[c]) /\ i \in DOMAIN Conf[c] BY <1>1, <1>2, <2>1, <2>2
  <2>4. \A m \in 1..j - 1 : m \in 1..k - 1 BY <1>2, <2>1, <2>2
  <2>5. \A m \in 1..j - 1 : Sound(c, m) BY <2>4 DEF ValidBelow
  <2>6. QED BY <2>1, <2>2, <2>3, <2>5 DEF PathLines, LoadsPathAt
<1>5. QED BY <1>3, <1>4

(* All lines. *)
LEMMA AllLines ==
  ASSUME NEW c \in DOMAIN Conf, Conf[c] # NoFile
  PROVE  /\ \A kind, n : Lines(c, kind, n) = Below(c, kind, n, End(c))
         /\ Valid(c) <=> ValidBelow(c, End(c))
         /\ Valid(c) => PathLines(c) = PathBelow(c, End(c))
<1>1. Len(Conf[c]) \in Nat /\ DOMAIN Conf[c] = 1..Len(Conf[c]) BY ConfAssumption DEF ConfAssumption
<1>2. End(c) - 1 = Len(Conf[c]) BY <1>1 DEF End
<1>3. Valid(c) <=> ValidBelow(c, End(c)) BY <1>1, <1>2 DEF Valid, ValidBelow
<1>4. End(c) \in 1..Len(Conf[c]) + 1 BY <1>1 DEF End
<1>5. Valid(c) => PathLines(c) = PathBelow(c, End(c)) BY <1>3, <1>4, PathReached
<1>6. QED BY <1>1, <1>2, <1>3, <1>5 DEF Lines, Below

(***************************************************************************)
(* Steps.  A step reads a good line, gives a library up, ends a file,      *)
(* makes a library, destroys one, or answers.                              *)
(***************************************************************************)
Languages == {"perl", "python"}

(* What Next says of every step. *)
Noted ==
  /\ reader' = IF LoadsPath THEN parsing.lib ELSE reader
  /\ user' = [language \in DOMAIN user |-> IF LoadsPlugin(language) THEN parsing.lib ELSE user[language]]
  /\ UNCHANGED <<LIBCRANGE_CONF, LIBCRANGE_YAML_PATH>>

Others(l) == DOMAIN lr' = Libraries /\ \A m \in Libraries : m # l => lr'[m] = lr[m]

IsParse(r) == r = [lib |-> r.lib, line |-> r.line, perl |-> r.perl, python |-> r.python]

(* The tables of all libraries, after line k of file c. *)
PathRead(c, k) ==
  /\ LoadsPathAt(c, k) =>
       /\ reader' = parsing.lib
       /\ LIBCRANGE_YAML_PATH # Null => path' = [value |-> LIBCRANGE_YAML_PATH, owner |-> Null]
       /\ LIBCRANGE_YAML_PATH = Null =>
            /\ VarsBelow(c, k) # {} =>
                 path' = [value |-> Conf[c][Max(VarsBelow(c, k))].value, owner |-> parsing.lib]
            /\ VarsBelow(c, k) = {} => path' = path
  /\ ~LoadsPathAt(c, k) => reader' = reader /\ path' = path

PluginRead(language, c, k) ==
  /\ Loads(c, Kind(language), k) =>
       /\ user'[language] = parsing.lib
       /\ \A n \in DOMAIN plugins'[language] :
            IF n \in Provides[Conf[c][k].module] THEN plugins'[language][n] = Conf[c][k].module
            ELSE n \in DOMAIN plugins[language] /\ plugins'[language][n] = plugins[language][n]
  /\ ~Loads(c, Kind(language), k) =>
       /\ user'[language] = user[language]
       /\ \A n \in DOMAIN plugins'[language] :
            n \in DOMAIN plugins[language] /\ plugins'[language][n] = plugins[language][n]

Shared_same == UNCHANGED <<path, plugins, reader, user>>

Advanced(p, c, k) ==
  /\ Others(p) /\ IsLib(lr'[p]) /\ lr'[p].state = "new" /\ lr'[p].conf = c
  /\ IsParse(parsing') /\ parsing'.lib = p /\ parsing'.line = k + 1
  /\ ValidBelow(c, k + 1)
  /\ MapIs(lr'[p].functions, c, "loadmodule", k + 1) /\ VarsIs(lr'[p].settings, c, k + 1)
  /\ MapIs(parsing'.perl, c, "perlmodule", k + 1) /\ MapIs(parsing'.python, c, "pythonmodule", k + 1)
  /\ PathRead(c, k) /\ DOMAIN plugins' = Languages /\ PluginRead("perl", c, k) /\ PluginRead("python", c, k)
  /\ UNCHANGED <<waiting, at_exit, answer>> /\ running' \in BOOLEAN

Failed(p, c) ==
  /\ Others(p) /\ IsLib(lr'[p]) /\ lr'[p].state = "null" /\ lr'[p].conf = c /\ ~Valid(c)
  /\ parsing' = NoParse /\ PathRead(c, parsing.line) /\ PathLines(c) = PathBelow(c, parsing.line + 1)
  /\ UNCHANGED <<plugins, user, outside>>

Finished(p, c) ==
  /\ Others(p) /\ IsLib(lr'[p]) /\ lr'[p].state = "live" /\ lr'[p].conf = c /\ Ready(lr'[p])
  /\ parsing.line = End(c) /\ parsing' = NoParse /\ Shared_same /\ UNCHANGED outside

(***************************************************************************)
(* A line is read.                                                         *)
(***************************************************************************)
LEMMA LineIs ==
  ASSUME IInv, Parsing
  PROVE  /\ parsing.lib \in Libraries /\ IsLib(This) /\ This.state = "new"
         /\ This.conf \in DOMAIN Conf /\ Conf[This.conf] # NoFile /\ Len(Conf[This.conf]) \in Nat
         /\ DOMAIN Conf[This.conf] = 1..Len(Conf[This.conf])
         /\ parsing.line \in Nat \ {0} /\ parsing.line <= Len(Conf[This.conf]) + 1
         /\ AtEnd => parsing.line = End(This.conf)
         /\ ~AtEnd => parsing.line <= Len(Conf[This.conf])
<1>1. parsing.lib \in Libraries /\ IsLib(This) /\ This.state = "new" /\ parsing.line \in Nat \ {0}
  BY DEF IInv, StateOK, Parsing, This
<1>2. This.conf \in DOMAIN Conf BY <1>1 DEF IsLib
<1>3. Conf[This.conf] # NoFile /\ parsing.line <= Len(Conf[This.conf]) + 1 BY DEF IInv, ParseOK, Parsing
<1>4. Len(Conf[This.conf]) \in Nat /\ DOMAIN Conf[This.conf] = 1..Len(Conf[This.conf])
  BY <1>2, <1>3, ConfAssumption DEF ConfAssumption
<1>5. (AtEnd => parsing.line = End(This.conf)) /\ (~AtEnd => parsing.line <= Len(Conf[This.conf]))
  BY <1>1, <1>3, <1>4 DEF AtEnd, End
<1>6. QED BY <1>1, <1>2, <1>3, <1>4, <1>5

(* The ghosts tell which line is read. *)
LEMMA NotedIs ==
  ASSUME IInv, Parsing, Noted
  PROVE  /\ ~AtEnd => /\ LoadsPathAt(This.conf, parsing.line) => reader' = parsing.lib
                      /\ ~LoadsPathAt(This.conf, parsing.line) => reader' = reader
                      /\ \A language \in Languages :
                           user'[language] = IF Loads(This.conf, Kind(language), parsing.line)
                                             THEN parsing.lib ELSE user[language]
         /\ AtEnd => reader' = reader /\ user' = user
<1>1. user \in [Languages -> Libraries \union {Null}] BY DEF IInv, StateOK, Languages
<1>2. ASSUME ~AtEnd
      PROVE  /\ LoadsPathAt(This.conf, parsing.line) => reader' = parsing.lib
             /\ ~LoadsPathAt(This.conf, parsing.line) => reader' = reader
  BY <1>2, ModuleAssumption DEF Noted, LoadsPath, LoadsPathAt, Loads, Reading, Line, ModuleAssumption
<1>3. ASSUME ~AtEnd, NEW language \in Languages
      PROVE  user'[language] = IF Loads(This.conf, Kind(language), parsing.line)
                               THEN parsing.lib ELSE user[language]
  <2>1. LoadsPlugin(language) <=> Loads(This.conf, Kind(language), parsing.line)
    BY <1>3 DEF LoadsPlugin, Loads, Reading, Line
  <2>2. QED BY <1>1, <2>1 DEF Noted
<1>4. ASSUME AtEnd PROVE reader' = reader /\ user' = user
  <2>1. ~LoadsPath /\ \A language : ~LoadsPlugin(language) BY <1>4 DEF LoadsPath, LoadsPlugin, Reading
  <2>2. user' = [language \in DOMAIN user |-> user[language]] BY <2>1 DEF Noted
  <2>3. QED BY <1>1, <2>1, <2>2 DEF Noted
<1>5. QED BY <1>2, <1>3, <1>4

(* A line that is not for a language leaves its table alone. *)
LEMMA PluginSame ==
  ASSUME IInv, Parsing, ~AtEnd, Noted, NEW language \in Languages,
         Line.kind # Kind(language), plugins'[language] = plugins[language]
  PROVE  PluginRead(language, This.conf, parsing.line)
<1>1. ~Loads(This.conf, Kind(language), parsing.line) BY DEF Loads, Line
<1>2. user'[language] = user[language] BY <1>1, NotedIs
<1>3. QED BY <1>1, <1>2 DEF PluginRead

(* What is kept of the tables by a line that is not for them. *)
LEMMA BelowSame ==
  ASSUME IInv, Parsing, ~AtEnd
  PROVE  /\ Line.kind # "loadmodule" => MapIs(This.functions, This.conf, "loadmodule", parsing.line + 1)
         /\ Line.kind # "perlmodule" => MapIs(parsing.perl, This.conf, "perlmodule", parsing.line + 1)
         /\ Line.kind # "pythonmodule" => MapIs(parsing.python, This.conf, "pythonmodule", parsing.line + 1)
         /\ Line.kind # "var" => VarsIs(This.settings, This.conf, parsing.line + 1)
         /\ Line.kind \notin {"bad", "loadmodule"} => ValidBelow(This.conf, parsing.line + 1)
<1>1. parsing.line \in Nat \ {0} BY LineIs
<1>2. /\ MapIs(This.functions, This.conf, "loadmodule", parsing.line)
      /\ MapIs(parsing.perl, This.conf, "perlmodule", parsing.line)
      /\ MapIs(parsing.python, This.conf, "pythonmodule", parsing.line)
      /\ VarsIs(This.settings, This.conf, parsing.line) /\ ValidBelow(This.conf, parsing.line)
  BY DEF IInv, ParseOK, Parsing
<1>3. \A kind : Line.kind # kind => ~Loads(This.conf, kind, parsing.line) BY DEF Loads, Line
<1>4. QED BY <1>1, <1>2, <1>3, MapNext, VarsNext, ValidNext DEF Line

LEMMA BlankAdvances ==
  ASSUME IInv, Blank, Noted, UNCHANGED plugins
  PROVE  Advanced(parsing.lib, This.conf, parsing.line)
<1> DEFINE p == parsing.lib
           c == This.conf
           k == parsing.line
<1>1. Parsing /\ ~AtEnd /\ Line.kind = "blank" BY DEF Blank, Reading
<1>2. ~LoadsPathAt(c, k) BY <1>1 DEF LoadsPathAt, Loads, Line
<1>3. Others(p) /\ IsLib(lr'[p]) /\ lr'[p].state = "new" /\ lr'[p].conf = c
  BY <1>1, LineIs DEF Blank, Others, This, IInv, StateOK
<1>4. IsParse(parsing') /\ parsing'.lib = p /\ parsing'.line = k + 1 /\ parsing'.perl = parsing.perl
        /\ parsing'.python = parsing.python
  BY DEF Blank, NextLine, IsParse, IInv, StateOK
<1>5. ValidBelow(c, k + 1) /\ MapIs(lr'[p].functions, c, "loadmodule", k + 1) /\ VarsIs(lr'[p].settings, c, k + 1)
        /\ MapIs(parsing'.perl, c, "perlmodule", k + 1) /\ MapIs(parsing'.python, c, "pythonmodule", k + 1)
  BY <1>1, <1>4, BelowSame DEF Blank, This
<1>6. PathRead(c, k) BY <1>1, <1>2, NotedIs DEF PathRead, Blank
<1>7. PluginRead("perl", c, k) /\ PluginRead("python", c, k) /\ DOMAIN plugins' = Languages
  BY <1>1, PluginSame DEF Languages, Kind, IInv, StateOK
<1>8. running' \in BOOLEAN BY DEF Blank, outside, IInv, StateOK
<1>9. UNCHANGED <<waiting, at_exit, answer>> BY DEF Blank, outside
<1>10. QED BY <1>3, <1>4, <1>5, <1>6, <1>7, <1>8, <1>9 DEF Advanced

LEMMA VarAdvances ==
  ASSUME IInv, Var, Noted, UNCHANGED plugins
  PROVE  Advanced(parsing.lib, This.conf, parsing.line)
<1> DEFINE p == parsing.lib
           c == This.conf
           k == parsing.line
<1>1. Parsing /\ ~AtEnd /\ Line.kind = "var" BY DEF Var, Reading
<1>2. ~LoadsPathAt(c, k) BY <1>1 DEF LoadsPathAt, Loads, Line
<1>3. p \in Libraries /\ IsLib(This) /\ This.state = "new" /\ DOMAIN lr = Libraries /\ k \in Nat \ {0}
  BY <1>1, LineIs DEF IInv, StateOK
<1>4. Others(p) /\ lr'[p] = [This EXCEPT !.settings = set_add(This.settings, Line.var, Line.value)]
  BY <1>3 DEF Var, Others, This
<1>5. /\ IsLib(lr'[p]) /\ lr'[p].state = "new" /\ lr'[p].conf = c
      /\ lr'[p].functions = This.functions /\ lr'[p].settings = set_add(This.settings, Line.var, Line.value)
  BY <1>3, <1>4 DEF IsLib
<1>6. IsParse(parsing') /\ parsing'.lib = p /\ parsing'.line = k + 1 /\ parsing'.perl = parsing.perl
        /\ parsing'.python = parsing.python
  BY DEF Var, NextLine, IsParse, IInv, StateOK
<1>7. VarsIs(lr'[p].settings, c, k + 1)
  <2>1. VarsIs(This.settings, c, k) BY <1>1 DEF IInv, ParseOK, Parsing
  <2>2. QED BY <1>1, <1>3, <1>5, <2>1, VarsNext DEF Line
<1>8. ValidBelow(c, k + 1) /\ MapIs(lr'[p].functions, c, "loadmodule", k + 1)
        /\ MapIs(parsing'.perl, c, "perlmodule", k + 1) /\ MapIs(parsing'.python, c, "pythonmodule", k + 1)
  BY <1>1, <1>5, <1>6, BelowSame
<1>9. PathRead(c, k) BY <1>1, <1>2, NotedIs DEF PathRead, Var
<1>10. PluginRead("perl", c, k) /\ PluginRead("python", c, k) /\ DOMAIN plugins' = Languages
  BY <1>1, PluginSame DEF Languages, Kind, IInv, StateOK
<1>11. running' \in BOOLEAN /\ UNCHANGED <<waiting, at_exit, answer>> BY DEF Var, outside, IInv, StateOK
<1>12. QED BY <1>4, <1>5, <1>6, <1>7, <1>8, <1>9, <1>10, <1>11 DEF Advanced

(* What loading a module does to the path. *)
LEMMA PathIs ==
  ASSUME IInv, add_functions_from_module, Noted
  PROVE  PathRead(This.conf, parsing.line)
<1> DEFINE p == parsing.lib
           c == This.conf
           k == parsing.line
           m == Line.module
<1>1. Parsing /\ ~AtEnd /\ Line.kind = "loadmodule" BY DEF add_functions_from_module, Reading
<1>2. VarsIs(This.settings, c, k) BY <1>1 DEF IInv, ParseOK, Parsing
<1>3. LoadsPathAt(c, k) <=> m \in PathModules
  BY <1>1, ModuleAssumption DEF LoadsPathAt, Loads, Line, ModuleAssumption
<1>4. IF m \in DOMAIN Provides THEN functions_provided(m) ELSE path' = path BY DEF add_functions_from_module
<1>5. CASE m \notin PathModules
  <2>1. path' = path BY <1>4, <1>5 DEF functions_provided
  <2>2. QED BY <1>1, <1>3, <1>5, <2>1, NotedIs DEF PathRead
<1>6. CASE m \in PathModules
  <2>1. reader' = p BY <1>1, <1>3, <1>6, NotedIs
  <2>2. path' \in Altpath \/ (Altpath = {} /\ path' = path)
    BY <1>4, <1>6, ModuleAssumption DEF functions_provided, ModuleAssumption
  <2>3. LIBCRANGE_YAML_PATH # Null => Altpath = {[value |-> LIBCRANGE_YAML_PATH, owner |-> Null]} BY DEF Altpath
  <2>4. ASSUME LIBCRANGE_YAML_PATH = Null
        PROVE  /\ VarsBelow(c, k) = {} => Altpath = {}
               /\ VarsBelow(c, k) # {} =>
                    Altpath = {[value |-> Conf[c][Max(VarsBelow(c, k))].value, owner |-> p]}
    BY <1>2, <2>4 DEF Altpath, VarsIs
  <2>5. QED BY <1>3, <1>6, <2>1, <2>2, <2>3, <2>4 DEF PathRead
<1>7. QED BY <1>5, <1>6

(* A module that has all its functions. *)
LEMMA ModuleAdvances ==
  ASSUME IInv, add_functions_from_module, Complete(Line.module), Noted, UNCHANGED plugins
  PROVE  Advanced(parsing.lib, This.conf, parsing.line)
<1> DEFINE p == parsing.lib
           c == This.conf
           k == parsing.line
           m == Line.module
           names == Provides[m] \ Lacks[m]
<1>1. Parsing /\ ~AtEnd /\ Line.kind = "loadmodule" BY DEF add_functions_from_module, Reading
<1>2. Loads(c, "loadmodule", k) /\ names = Provides[m] /\ Lacks[m] = {} BY <1>1 DEF Loads, Line, Complete
<1>3. p \in Libraries /\ IsLib(This) /\ This.state = "new" /\ DOMAIN lr = Libraries /\ k \in Nat \ {0}
  BY <1>1, LineIs DEF IInv, StateOK
<1>4. lr' = [lr EXCEPT ![p].functions = add_function(@, m, names)] /\ parsing' = NextLine
  BY DEF add_functions_from_module
<1>5. Others(p) /\ lr'[p] = [This EXCEPT !.functions = add_function(This.functions, m, names)]
  BY <1>3, <1>4 DEF Others, This
<1>6. /\ IsLib(lr'[p]) /\ lr'[p].state = "new" /\ lr'[p].conf = c
      /\ lr'[p].functions = add_function(This.functions, m, Provides[m]) /\ lr'[p].settings = This.settings
  BY <1>2, <1>3, <1>5 DEF IsLib
<1>7. IsParse(parsing') /\ parsing'.lib = p /\ parsing'.line = k + 1 /\ parsing'.perl = parsing.perl
        /\ parsing'.python = parsing.python
  BY <1>4 DEF NextLine, IsParse, IInv, StateOK
<1>8. ValidBelow(c, k) /\ VarsIs(This.settings, c, k) /\ MapIs(This.functions, c, "loadmodule", k)
  BY <1>1 DEF IInv, ParseOK, Parsing
<1>9. MapIs(lr'[p].functions, c, "loadmodule", k + 1) BY <1>2, <1>3, <1>6, <1>8, MapNext DEF Line
<1>10. ValidBelow(c, k + 1) BY <1>1, <1>2, <1>3, <1>8, ValidNext DEF Line
<1>11. VarsIs(lr'[p].settings, c, k + 1) /\ MapIs(parsing'.perl, c, "perlmodule", k + 1)
         /\ MapIs(parsing'.python, c, "pythonmodule", k + 1)
  BY <1>1, <1>6, <1>7, BelowSame
<1>12. PathRead(c, k) BY <1>1, <1>2, PathIs DEF Complete
<1>13. PluginRead("perl", c, k) /\ PluginRead("python", c, k) /\ DOMAIN plugins' = Languages
  BY <1>1, PluginSame DEF Languages, Kind, IInv, StateOK
<1>14. running' \in BOOLEAN /\ UNCHANGED <<waiting, at_exit, answer>>
  BY DEF add_functions_from_module, outside, IInv, StateOK
<1>15. QED BY <1>5, <1>6, <1>7, <1>9, <1>10, <1>11, <1>12, <1>13, <1>14 DEF Advanced

(* What the table all libraries share has after a line. *)
LEMMA SharedIs ==
  ASSUME NEW table, NEW m
  PROVE  /\ m \in DOMAIN Provides =>
              \A n \in DOMAIN Shared(table, m) :
                IF n \in Provides[m] THEN Shared(table, m)[n] = m
                ELSE n \in DOMAIN table /\ Shared(table, m)[n] = table[n]
         /\ m \notin DOMAIN Provides =>
              \A n \in DOMAIN Shared(table, m) : n \in DOMAIN table /\ Shared(table, m)[n] = table[n]
BY DEF Shared, add_function, ProvidedBy

(* The same table of one library. *)
LEMMA OwnIs ==
  ASSUME NEW c, NEW kind, NEW k \in Nat \ {0}, NEW map, MapIs(map, c, kind, k), Conf[c][k].kind = kind
  PROVE  MapIs(add_function(map, Conf[c][k].module, ProvidedBy(Conf[c][k].module)), c, kind, k + 1)
<1> DEFINE m == Conf[c][k].module
<1>1. CASE m \in DOMAIN Provides
  <2>1. Loads(c, kind, k) /\ ProvidedBy(m) = Provides[m] BY <1>1 DEF Loads, ProvidedBy
  <2>2. QED BY <2>1, MapNext
<1>2. CASE m \notin DOMAIN Provides
  <2> DEFINE new == add_function(map, m, ProvidedBy(m))
  <2>1. ~Loads(c, kind, k) BY <1>2 DEF Loads
  <2>2. MapIs(map, c, kind, k + 1) BY <2>1, MapNext
  <2>3. ProvidedBy(m) = {} BY <1>2 DEF ProvidedBy
  <2>4. DOMAIN new = DOMAIN map /\ \A n \in DOMAIN map : new[n] = map[n] BY <2>3 DEF add_function
  <2> HIDE DEF new
  <2>5. MapIs(new, c, kind, k + 1) BY <2>2, <2>4 DEF MapIs
  <2>6. QED BY <2>5 DEF new
<1>3. QED BY <1>1, <1>2

LEMMA PerlAdvances ==
  ASSUME IInv, add_functions_from_perlmodule, Noted
  PROVE  Advanced(parsing.lib, This.conf, parsing.line)
<1> DEFINE p == parsing.lib
           c == This.conf
           k == parsing.line
           m == Line.module
<1>1. Parsing /\ ~AtEnd /\ Line.kind = "perlmodule" BY DEF add_functions_from_perlmodule, Reading
<1>2. ~LoadsPathAt(c, k) BY <1>1 DEF LoadsPathAt, Loads, Line
<1>3. p \in Libraries /\ IsLib(This) /\ This.state = "new" /\ DOMAIN lr = Libraries /\ k \in Nat \ {0}
  BY <1>1, LineIs DEF IInv, StateOK
<1>4. UNCHANGED <<lr, path, waiting, at_exit, answer, running>>
  BY DEF add_functions_from_perlmodule, outside
<1>5. Others(p) /\ IsLib(lr'[p]) /\ lr'[p].state = "new" /\ lr'[p].conf = c BY <1>3, <1>4 DEF Others, This
<1>6. /\ IsParse(parsing') /\ parsing'.lib = p /\ parsing'.line = k + 1 /\ parsing'.python = parsing.python
      /\ parsing'.perl = add_function(parsing.perl, m, ProvidedBy(m))
  BY DEF add_functions_from_perlmodule, NextLine, IsParse, IInv, StateOK
<1>7. MapIs(parsing'.perl, c, "perlmodule", k + 1)
  <2>1. MapIs(parsing.perl, c, "perlmodule", k) BY <1>1 DEF IInv, ParseOK, Parsing
  <2>2. QED BY <1>1, <1>3, <1>6, <2>1, OwnIs DEF Line
<1>8. ValidBelow(c, k + 1) /\ MapIs(lr'[p].functions, c, "loadmodule", k + 1) /\ VarsIs(lr'[p].settings, c, k + 1)
        /\ MapIs(parsing'.python, c, "pythonmodule", k + 1)
  BY <1>1, <1>4, <1>6, BelowSame DEF This
<1>9. PathRead(c, k) BY <1>1, <1>2, <1>4, NotedIs DEF PathRead
<1>10. /\ DOMAIN plugins' = Languages /\ plugins'["python"] = plugins["python"]
       /\ plugins'["perl"] = Shared(plugins["perl"], m)
  BY DEF add_functions_from_perlmodule, Languages, IInv, StateOK
<1>11. PluginRead("python", c, k) BY <1>1, <1>10, PluginSame DEF Languages, Kind
<1>12. PluginRead("perl", c, k)
  <2>1. Loads(c, Kind("perl"), k) <=> m \in DOMAIN Provides BY <1>1 DEF Loads, Kind, Line
  <2>2. user'["perl"] = IF Loads(c, Kind("perl"), k) THEN p ELSE user["perl"] BY <1>1, NotedIs DEF Languages
  <2>3. QED BY <1>10, <2>1, <2>2, SharedIs DEF PluginRead, Line
<1>13. running' \in BOOLEAN BY <1>4 DEF IInv, StateOK
<1>14. QED BY <1>4, <1>5, <1>6, <1>7, <1>8, <1>9, <1>10, <1>11, <1>12, <1>13 DEF Advanced

LEMMA PythonAdvances ==
  ASSUME IInv, add_functions_from_pythonmodule, Noted
  PROVE  Advanced(parsing.lib, This.conf, parsing.line)
<1> DEFINE p == parsing.lib
           c == This.conf
           k == parsing.line
           m == Line.module
<1>1. Parsing /\ ~AtEnd /\ Line.kind = "pythonmodule" BY DEF add_functions_from_pythonmodule, Reading
<1>2. ~LoadsPathAt(c, k) BY <1>1 DEF LoadsPathAt, Loads, Line
<1>3. p \in Libraries /\ IsLib(This) /\ This.state = "new" /\ DOMAIN lr = Libraries /\ k \in Nat \ {0}
  BY <1>1, LineIs DEF IInv, StateOK
<1>4. UNCHANGED <<lr, path, waiting, at_exit, answer>> BY DEF add_functions_from_pythonmodule
<1>5. Others(p) /\ IsLib(lr'[p]) /\ lr'[p].state = "new" /\ lr'[p].conf = c BY <1>3, <1>4 DEF Others, This
<1>6. /\ IsParse(parsing') /\ parsing'.lib = p /\ parsing'.line = k + 1 /\ parsing'.perl = parsing.perl
      /\ parsing'.python = add_function(parsing.python, m, ProvidedBy(m))
  BY DEF add_functions_from_pythonmodule, NextLine, IsParse, IInv, StateOK
<1>7. MapIs(parsing'.python, c, "pythonmodule", k + 1)
  <2>1. MapIs(parsing.python, c, "pythonmodule", k) BY <1>1 DEF IInv, ParseOK, Parsing
  <2>2. QED BY <1>1, <1>3, <1>6, <2>1, OwnIs DEF Line
<1>8. ValidBelow(c, k + 1) /\ MapIs(lr'[p].functions, c, "loadmodule", k + 1) /\ VarsIs(lr'[p].settings, c, k + 1)
        /\ MapIs(parsing'.perl, c, "perlmodule", k + 1)
  BY <1>1, <1>4, <1>6, BelowSame DEF This
<1>9. PathRead(c, k) BY <1>1, <1>2, <1>4, NotedIs DEF PathRead
<1>10. /\ DOMAIN plugins' = Languages /\ plugins'["perl"] = plugins["perl"]
       /\ plugins'["python"] = Shared(EmptyMap, m)
  BY DEF add_functions_from_pythonmodule, Languages, IInv, StateOK
<1>11. PluginRead("perl", c, k) BY <1>1, <1>10, PluginSame DEF Languages, Kind
<1>12. PluginRead("python", c, k)
  <2>1. Loads(c, Kind("python"), k) <=> m \in DOMAIN Provides BY <1>1 DEF Loads, Kind, Line
  <2>2. user'["python"] = IF Loads(c, Kind("python"), k) THEN p ELSE user["python"] BY <1>1, NotedIs DEF Languages
  <2>3. DOMAIN EmptyMap = {} BY DEF EmptyMap
  <2>4. QED BY <1>10, <2>1, <2>2, <2>3, SharedIs DEF PluginRead, Line
<1>13. running' \in BOOLEAN BY DEF add_functions_from_pythonmodule, IInv, StateOK
<1>14. QED BY <1>4, <1>5, <1>6, <1>7, <1>8, <1>9, <1>10, <1>11, <1>12, <1>13 DEF Advanced

(* A library is given up for a line that says so. *)
LEMMA BadLine ==
  ASSUME IInv, Parsing, ~AtEnd, Fail,
         \/ Line.kind = "bad"
         \/ Line.kind = "loadmodule" /\ ~Complete(Line.module)
  PROVE  /\ Others(parsing.lib) /\ IsLib(lr'[parsing.lib]) /\ lr'[parsing.lib].state = "null"
         /\ lr'[parsing.lib].conf = This.conf /\ ~Valid(This.conf) /\ parsing' = NoParse
         /\ PathLines(This.conf) = PathBelow(This.conf, parsing.line + 1)
<1>1. /\ parsing.lib \in Libraries /\ This.conf \in DOMAIN Conf /\ DOMAIN lr = Libraries
      /\ parsing.line \in DOMAIN Conf[This.conf]
  BY LineIs DEF IInv, StateOK
<1>2. ~Sound(This.conf, parsing.line) /\ ~Valid(This.conf) BY <1>1 DEF Valid, Sound, Line, Loads, Complete
<1>6. PathLines(This.conf) = PathBelow(This.conf, parsing.line + 1)
  <2>1. /\ Conf[This.conf] # NoFile /\ Len(Conf[This.conf]) \in Nat /\ parsing.line \in Nat \ {0}
        /\ parsing.line <= Len(Conf[This.conf])
    BY LineIs
  <2>2. ValidBelow(This.conf, parsing.line) BY DEF IInv, ParseOK, Parsing
  <2>3. parsing.line # End(This.conf) /\ parsing.line \in 1..Len(Conf[This.conf]) + 1 BY <2>1 DEF End
  <2>4. QED BY <1>1, <1>2, <2>1, <2>2, <2>3, PathReached
<1>3. lr'[parsing.lib] = [NoLibrary EXCEPT !.state = "null", !.conf = This.conf] /\ Others(parsing.lib)
  BY <1>1 DEF Fail, Null_lr, Others
<1>4. IsLib(lr'[parsing.lib]) /\ lr'[parsing.lib].state = "null" /\ lr'[parsing.lib].conf = This.conf
  BY <1>1, <1>3 DEF IsLib, NoLibrary, LibraryState
<1>5. QED BY <1>2, <1>3, <1>4, <1>6 DEF Fail

LEMMA ModuleFails ==
  ASSUME IInv, add_functions_from_module, ~Complete(Line.module), Noted, UNCHANGED plugins
  PROVE  Failed(parsing.lib, This.conf)
<1>1. Parsing /\ ~AtEnd /\ Line.kind = "loadmodule" /\ Fail BY DEF add_functions_from_module, Reading
<1>2. PathRead(This.conf, parsing.line) BY PathIs
<1>4. user' = user
  <2>1. \A language \in DOMAIN user : ~LoadsPlugin(language) BY <1>1 DEF LoadsPlugin, Reading, Kind
  <2>2. user' = [language \in DOMAIN user |-> user[language]] BY <2>1 DEF Noted
  <2>3. QED BY <2>2 DEF IInv, StateOK
<1>5. UNCHANGED outside BY DEF add_functions_from_module
<1>6. QED BY <1>1, <1>2, <1>4, <1>5, BadLine DEF Failed

LEMMA SyntaxFails ==
  ASSUME IInv, SyntaxError, Noted, UNCHANGED plugins
  PROVE  Failed(parsing.lib, This.conf)
<1>1. Parsing /\ ~AtEnd /\ Line.kind = "bad" /\ Fail BY DEF SyntaxError, Reading
<1>2. PathRead(This.conf, parsing.line) /\ UNCHANGED outside
  <2>1. ~LoadsPathAt(This.conf, parsing.line) BY <1>1 DEF LoadsPathAt, Loads, Line
  <2>2. QED BY <1>1, <2>1, NotedIs DEF SyntaxError, PathRead
<1>3. reader' = reader /\ user' = user
  <2>1. ~LoadsPath /\ \A language \in DOMAIN user : ~LoadsPlugin(language)
    BY <1>1 DEF LoadsPath, LoadsPlugin, Reading, Kind
  <2>2. user' = [language \in DOMAIN user |-> user[language]] BY <2>1 DEF Noted
  <2>3. QED BY <2>1, <2>2 DEF Noted, IInv, StateOK
<1>4. QED BY <1>1, <1>2, <1>3, BadLine DEF Failed

LEMMA FinishIs ==
  ASSUME IInv, Finish, Noted, UNCHANGED plugins
  PROVE  Finished(parsing.lib, This.conf)
<1> DEFINE p == parsing.lib
           c == This.conf
<1>1. Parsing /\ AtEnd BY DEF Finish
<1>2. /\ p \in Libraries /\ DOMAIN lr = Libraries /\ IsLib(This) /\ c \in DOMAIN Conf /\ Conf[c] # NoFile
      /\ parsing.line = End(c)
  BY <1>1, LineIs DEF IInv, StateOK
<1>3. Others(p) /\ lr'[p] = [This EXCEPT !.perl = parsing.perl, !.python = parsing.python,
                                         !.unset = FALSE, !.state = "live"]
  BY <1>2 DEF Finish, Others, This
<1>4. /\ IsLib(lr'[p]) /\ lr'[p].state = "live" /\ lr'[p].conf = c /\ ~lr'[p].unset
      /\ lr'[p].functions = This.functions /\ lr'[p].perl = parsing.perl /\ lr'[p].python = parsing.python
  BY <1>2, <1>3 DEF IsLib, LibraryState
<1>5. /\ ValidBelow(c, End(c)) /\ MapIs(This.functions, c, "loadmodule", End(c))
      /\ MapIs(parsing.perl, c, "perlmodule", End(c)) /\ MapIs(parsing.python, c, "pythonmodule", End(c))
  BY <1>1, <1>2 DEF IInv, ParseOK, Parsing
<1>6. Valid(c) BY <1>2, <1>5, AllLines
<1>7. Ready(lr'[p]) BY <1>2, <1>4, <1>5, <1>6 DEF Ready
<1>8. reader' = reader /\ user' = user BY <1>1, NotedIs
<1>9. Shared_same BY <1>8 DEF Finish, Shared_same
<1>10. QED BY <1>2, <1>3, <1>4, <1>7, <1>9 DEF Finished, Finish

(***************************************************************************)
(* A library is made or destroyed, and a call is answered.                 *)
(***************************************************************************)
Made(l, c) ==
  /\ l \in Libraries /\ c \in DOMAIN Conf /\ lr[l].state = "none" /\ parsing.lib = Null /\ running
  /\ Others(l) /\ IsLib(lr'[l]) /\ lr'[l].conf = c
  /\ \/ /\ Conf[c] = NoFile /\ lr'[l].state = "live" /\ lr'[l].unset
        /\ DOMAIN lr'[l].functions = {} /\ DOMAIN lr'[l].perl = {} /\ parsing' = NoParse
     \/ /\ Conf[c] # NoFile /\ lr'[l].state = "new"
        /\ lr'[l].functions = EmptyMap /\ lr'[l].settings = EmptyMap /\ parsing' = [NoParse EXCEPT !.lib = l]
  /\ Shared_same /\ answer' = Null /\ UNCHANGED running

MadeForHandle(h, c) == h \in Handles /\ Made(h, c) /\ waiting = Null /\ UNCHANGED <<waiting, at_exit>>
MadeForCall(c) ==
  /\ Made(Static, LIBCRANGE_CONF) /\ waiting = Null /\ waiting' = c /\ c \in Calls /\ lr[c.h].state = "null"
  /\ at_exit' = at_exit + 1

Destroyed(h) ==
  /\ h \in Handles /\ Others(h) /\ lr'[h] = NoLibrary /\ parsing.lib = Null /\ waiting = Null /\ Given(h)
  /\ answer' = Null
  /\ path' = (IF path.owner = h THEN [value |-> Freed, owner |-> Null] ELSE path)
  /\ UNCHANGED <<parsing, waiting, at_exit, running, plugins, reader, user>>

Ended == parsing.lib = Null /\ waiting' = Null /\ Shared_same /\ UNCHANGED <<lr, parsing, at_exit>>
Served(c) ==
  /\ c \in Calls /\ Given(c.h) /\ lr[Library(c.h)].state = "live" /\ lr[Static].state \notin {"new", "null"}
  /\ Answer(c) /\ Ended
Crashed == Ended /\ ~running' /\ running' \in BOOLEAN /\ waiting # Null /\ UNCHANGED answer

(* Where no file is read, the ghosts stay. *)
LEMMA NotedSame ==
  ASSUME IInv, ~Parsing, Noted
  PROVE  reader' = reader /\ user' = user
<1>1. ~LoadsPath /\ \A language : ~LoadsPlugin(language) BY DEF LoadsPath, LoadsPlugin, Reading
<1>2. user' = [language \in DOMAIN user |-> user[language]] BY <1>1 DEF Noted
<1>3. QED BY <1>1, <1>2 DEF Noted, IInv, StateOK

LEMMA NewIs ==
  ASSUME IInv, NEW l \in Libraries, NEW c \in DOMAIN Conf, lr[l].state = "none", parsing.lib = Null,
         running, libcrange_new(l, c), Shared_same, answer' = Null, UNCHANGED running
  PROVE  Made(l, c)
<1>1. DOMAIN lr = Libraries BY DEF IInv, StateOK
<1>2. Others(l) BY <1>1 DEF Others, libcrange_new
<1>3. CASE Conf[c] = NoFile
  <2>1. lr'[l] = [NoLibrary EXCEPT !.state = "live", !.conf = c, !.unset = TRUE] /\ parsing' = NoParse
    BY <1>1, <1>3 DEF libcrange_new
  <2>2. /\ IsLib(lr'[l]) /\ lr'[l].conf = c /\ lr'[l].state = "live" /\ lr'[l].unset
        /\ lr'[l].functions = EmptyMap /\ lr'[l].perl = EmptyMap
    BY <2>1 DEF IsLib, NoLibrary, LibraryState
  <2>3. DOMAIN EmptyMap = {} BY DEF EmptyMap
  <2>4. QED BY <1>2, <1>3, <2>1, <2>2, <2>3 DEF Made
<1>4. CASE Conf[c] # NoFile
  <2>1. /\ lr'[l] = [NoLibrary EXCEPT !.state = "new", !.conf = c, !.unset = TRUE]
        /\ parsing' = [NoParse EXCEPT !.lib = l]
    BY <1>1, <1>4 DEF libcrange_new
  <2>2. /\ IsLib(lr'[l]) /\ lr'[l].conf = c /\ lr'[l].state = "new"
        /\ lr'[l].functions = EmptyMap /\ lr'[l].settings = EmptyMap
    BY <2>1 DEF IsLib, NoLibrary, LibraryState
  <2>3. QED BY <1>2, <1>4, <2>1, <2>2 DEF Made
<1>5. QED BY <1>3, <1>4

LEMMA CreateIs ==
  ASSUME IInv, NEW h \in Handles, NEW c \in DOMAIN Conf, range_easy_create(h, c), Noted, UNCHANGED plugins
  PROVE  MadeForHandle(h, c)
<1>1. Idle /\ h \in Libraries /\ lr[h].state = "none" /\ libcrange_new(h, c) /\ answer' = Null
      /\ UNCHANGED <<path, waiting, at_exit, running>>
  BY DEF range_easy_create, Libraries
<1>2. reader' = reader /\ user' = user BY <1>1, NotedSame DEF Idle, Parsing
<1>3. Made(h, c) BY <1>1, <1>2, NewIs DEF Idle, Shared_same
<1>4. QED BY <1>1, <1>3 DEF MadeForHandle, Idle

LEMMA DestroyIs ==
  ASSUME IInv, NEW h \in Handles, range_easy_destroy(h), Noted, UNCHANGED plugins
  PROVE  Destroyed(h)
<1>1. reader' = reader /\ user' = user BY NotedSame DEF range_easy_destroy, Idle, Parsing
<1>2. DOMAIN lr = Libraries /\ h \in Libraries BY DEF IInv, StateOK, Libraries
<1>3. Others(h) /\ lr'[h] = NoLibrary BY <1>2 DEF range_easy_destroy, Others
<1>4. QED BY <1>1, <1>3 DEF range_easy_destroy, Destroyed, Idle

LEMMA ServeIs ==
  ASSUME IInv, NEW c \in Calls, Idle, Given(c.h), Serve(c), Noted, UNCHANGED plugins
  PROVE  Served(c) \/ MadeForCall(c)
<1>1. reader' = reader /\ user' = user BY NotedSame DEF Idle, Parsing
<1>2. c.h \in Handles /\ c.h \in Libraries /\ c.h # Static /\ Static \in Libraries
  BY NullAssumption DEF Calls, Libraries, NullAssumption
<1>3. lr[Static].state \notin {"new", "null"}
  BY <1>2, NullAssumption DEF Idle, IInv, StateOK, StaticOK, NullAssumption
<1>4. CASE Known(Library(c.h))
  <2>1. lr[Library(c.h)].state = "live" BY <1>2, <1>4 DEF Known, Library
  <2>2. QED BY <1>1, <1>3, <1>4, <2>1 DEF Serve, Served, Ended, Idle, Shared_same
<1>5. CASE ~Known(Library(c.h))
  <2>1. Library(c.h) = Static /\ lr[Static].state # "live" BY <1>5 DEF Known
  <2>2. lr[c.h].state = "null" BY <1>2, <2>1 DEF Library, Given
  <2>3. lr[Static].state = "none" BY <1>2, <1>3, <2>1 DEF IInv, StateOK, IsLib, LibraryState
  <2>4. /\ libcrange_new(Static, LIBCRANGE_CONF) /\ at_exit' = at_exit + 1 /\ waiting' = c
        /\ answer' = Null /\ UNCHANGED <<path, running>>
    BY <1>5 DEF Serve, get_static_lr
  <2>5. LIBCRANGE_CONF \in DOMAIN Conf BY ConfAssumption DEF IInv, StateOK, ConfAssumption
  <2>6. Made(Static, LIBCRANGE_CONF) BY <1>1, <1>2, <2>3, <2>4, <2>5, NewIs DEF Idle, Shared_same
  <2>7. QED BY <2>2, <2>4, <2>6 DEF MadeForCall, Idle
<1>6. QED BY <1>4, <1>5

LEMMA StaticReadyIs ==
  ASSUME IInv, StaticReady, Noted, UNCHANGED plugins
  PROVE  Crashed \/ \E c \in Calls : Served(c)
<1>1. /\ running /\ waiting # Null /\ parsing.lib = Null /\ waiting' = Null
      /\ UNCHANGED <<lr, parsing, path, at_exit>>
  BY DEF StaticReady
<1>2. reader' = reader /\ user' = user BY <1>1, NotedSame DEF Parsing
<1>3. Ended BY <1>1, <1>2 DEF Ended, Shared_same
<1>4. waiting \in Calls /\ lr[waiting.h].state = "null" BY <1>1 DEF IInv, StateOK, StaticOK
<1>5. CASE lr[Static].state = "live" /\ Answer(waiting)
  <2>1. Given(waiting.h) /\ Library(waiting.h) = Static BY <1>4 DEF Given, Library
  <2>2. Served(waiting) BY <1>3, <1>4, <1>5, <2>1 DEF Served
  <2>3. QED BY <1>4, <2>2
<1>6. CASE lr[Static].state = "null" /\ running' = FALSE /\ UNCHANGED answer
  BY <1>1, <1>3, <1>6 DEF Crashed
<1>7. QED BY <1>5, <1>6 DEF StaticReady

(* Every step is one of these. *)
Step ==
  \/ Parsing /\ ~AtEnd /\ (Advanced(parsing.lib, This.conf, parsing.line) \/ Failed(parsing.lib, This.conf))
  \/ Parsing /\ AtEnd /\ Finished(parsing.lib, This.conf)
  \/ \E h \in Handles : \E c \in DOMAIN Conf : MadeForHandle(h, c)
  \/ \E c \in Calls : MadeForCall(c)
  \/ \E h \in Handles : Destroyed(h)
  \/ \E c \in Calls : Served(c)
  \/ Crashed

LEMMA CallIs ==
  ASSUME IInv, NEW h \in Handles, NEW call \in {"eval", "compress", "packed"}, NEW n \in Names \union {Null},
         Call(h, call, n), Noted, UNCHANGED plugins
  PROVE  Step
<1> DEFINE c == [h |-> h, call |-> call, n |-> n]
<1>1. c \in Calls BY DEF Calls
<1>2. Idle /\ Given(c.h) /\ Serve(c) BY DEF Call
<1> HIDE DEF c
<1>3. QED BY <1>1, <1>2, ServeIs DEF Step

LEMMA StepIs ==
  ASSUME IInv, Next
  PROVE  Step /\ Noted
<1>1. Noted BY DEF Next, Noted, environment
<1>2. CASE Plugins
  <2>1. Parsing /\ ~AtEnd
    BY <1>2 DEF Plugins, add_functions_from_perlmodule, add_functions_from_pythonmodule, Reading
  <2>2. QED BY <1>1, <1>2, <2>1, PerlAdvances, PythonAdvances DEF Plugins, Step
<1>3. CASE Steps /\ UNCHANGED plugins
  <2>1. CASE Blank BY <1>1, <1>3, <2>1, BlankAdvances DEF Step, Blank, Reading
  <2>2. CASE add_functions_from_module
    BY <1>1, <1>3, <2>2, ModuleAdvances, ModuleFails DEF Step, add_functions_from_module, Reading
  <2>3. CASE Var BY <1>1, <1>3, <2>3, VarAdvances DEF Step, Var, Reading
  <2>4. CASE SyntaxError BY <1>1, <1>3, <2>4, SyntaxFails DEF Step, SyntaxError, Reading
  <2>5. CASE Finish BY <1>1, <1>3, <2>5, FinishIs DEF Step, Finish
  <2>6. CASE StaticReady BY <1>1, <1>3, <2>6, StaticReadyIs DEF Step
  <2>7. CASE \E h \in Handles : \E c \in DOMAIN Conf : range_easy_create(h, c)
    BY <1>1, <1>3, <2>7, CreateIs DEF Step
  <2>8. CASE \E h \in Handles : \E n \in Names : range_easy_eval(h, n) \/ range_easy_expand_as_packed_set(h, n)
    BY <1>1, <1>3, <2>8, CallIs DEF range_easy_eval, range_easy_expand_as_packed_set
  <2>9. CASE \E h \in Handles : range_easy_compress(h)
    BY <1>1, <1>3, <2>9, CallIs DEF range_easy_compress
  <2>10. CASE \E h \in Handles : range_easy_destroy(h) BY <1>1, <1>3, <2>10, DestroyIs DEF Step
  <2>11. QED BY <1>3, <2>1, <2>2, <2>3, <2>4, <2>5, <2>6, <2>7, <2>8, <2>9, <2>10 DEF Steps
<1>4. QED BY <1>1, <1>2, <1>3 DEF Next

(***************************************************************************)
(* The invariant's parts, step by step.                                    *)
(***************************************************************************)
LEMMA StateKept ==
  ASSUME IInv, Step, Noted
  PROVE  StateOK'
<1> USE DEF StateOK
<1>1. LIBCRANGE_CONF' \in Defaults BY DEF IInv, Noted
<1>2. reader' \in Libraries \union {Null} BY DEF IInv, Noted
<1>3. user' \in [{"perl", "python"} -> Libraries \union {Null}] BY DEF IInv, Noted
<1>4. Null \notin Libraries BY NullAssumption DEF NullAssumption
<1>5. CASE Parsing /\ Advanced(parsing.lib, This.conf, parsing.line)
  <2>1. parsing.lib \in Libraries /\ parsing.line \in Nat \ {0} BY <1>5, LineIs
  <2>2. path' = [value |-> path'.value, owner |-> path'.owner] BY <1>5 DEF Advanced, PathRead, IInv
  <2>3. \A l \in Libraries : IsLib(lr'[l]) /\ (lr'[l].state = "new" <=> parsing'.lib = l)
    BY <1>5, <2>1 DEF Advanced, Others, IInv
  <2>4. QED BY <1>1, <1>2, <1>3, <1>5, <2>1, <2>2, <2>3 DEF Advanced, Others, IsParse, IsLib, Languages, IInv
<1>6. CASE Parsing /\ (Failed(parsing.lib, This.conf) \/ Finished(parsing.lib, This.conf))
  <2>1. parsing.lib \in Libraries BY <1>6, LineIs
  <2>2. path' = [value |-> path'.value, owner |-> path'.owner]
    BY <1>6 DEF Failed, PathRead, Finished, Shared_same, IInv
  <2>3. parsing' = NoParse /\ UNCHANGED <<plugins, waiting, running>> /\ DOMAIN lr' = Libraries
    BY <1>6 DEF Failed, Finished, Shared_same, outside, Others
  <2>4. \A l \in Libraries : IsLib(lr'[l]) /\ (lr'[l].state = "new" <=> parsing'.lib = l)
    BY <1>4, <1>6, <2>1, <2>3 DEF Failed, Finished, Others, NoParse, IInv
  <2>5. QED BY <1>1, <1>2, <1>3, <2>2, <2>3, <2>4 DEF NoParse, IsLib, IInv
<1>7. ASSUME NEW l, NEW c, Made(l, c)
      PROVE  /\ DOMAIN lr' = Libraries /\ UNCHANGED <<path, plugins, running>>
             /\ \A m \in Libraries : IsLib(lr'[m]) /\ (lr'[m].state = "new" <=> parsing'.lib = m)
             /\ parsing' = [lib |-> parsing'.lib, line |-> parsing'.line, perl |-> parsing'.perl, python |-> parsing'.python]
             /\ parsing'.lib \in Libraries \union {Null} /\ parsing'.line \in Nat \ {0}
  <2>1. \A m \in Libraries : m # l => lr'[m] = lr[m] /\ lr[m].state # "new" /\ IsLib(lr[m])
    BY <1>4, <1>7 DEF Made, Others, IInv
  <2>2. l \in Libraries /\ IsLib(lr'[l]) /\ DOMAIN lr' = Libraries /\ UNCHANGED <<path, plugins, running>>
    BY <1>7 DEF Made, Others, Shared_same
  <2>3. \/ lr'[l].state = "live" /\ parsing' = NoParse
        \/ lr'[l].state = "new" /\ parsing' = [NoParse EXCEPT !.lib = l]
    BY <1>7 DEF Made
  <2>4. QED BY <1>4, <2>1, <2>2, <2>3 DEF NoParse
<1>8. ASSUME NEW h, NEW c, MadeForHandle(h, c) PROVE StateOK'
  BY <1>1, <1>2, <1>3, <1>7, <1>8 DEF MadeForHandle, IInv, IsLib
<1>9. ASSUME NEW c, MadeForCall(c) PROVE StateOK'
  BY <1>1, <1>2, <1>3, <1>7, <1>9 DEF MadeForCall, IInv, IsLib
<1>10. ASSUME NEW h, Destroyed(h) PROVE StateOK'
  <2>1. \A m \in Libraries : IsLib(lr'[m]) /\ (lr'[m].state = "new" <=> parsing'.lib = m)
    BY <1>4, <1>10 DEF Destroyed, Others, IInv, IsLib, NoLibrary, LibraryState
  <2>2. path' = [value |-> path'.value, owner |-> path'.owner] BY <1>10 DEF Destroyed, IInv
  <2>3. QED BY <1>1, <1>2, <1>3, <1>10, <2>1, <2>2 DEF Destroyed, Others, IsLib, IInv
<1>11. ASSUME NEW c, Served(c) PROVE StateOK'
  <2>1. running' \in BOOLEAN BY <1>11 DEF Served, Answer
  <2>2. QED BY <1>1, <1>2, <1>3, <1>11, <2>1 DEF Served, Ended, Shared_same, IsLib, IInv
<1>12. CASE Crashed BY <1>1, <1>2, <1>3, <1>12 DEF Crashed, Ended, Shared_same, IsLib, IInv
<1>13. QED BY <1>5, <1>6, <1>8, <1>9, <1>10, <1>11, <1>12 DEF Step

LEMMA ParseKept ==
  ASSUME IInv, Step, Noted
  PROVE  ParseOK'
<1>1. Null \notin Libraries BY NullAssumption DEF NullAssumption
<1>2. CASE Parsing /\ ~AtEnd /\ Advanced(parsing.lib, This.conf, parsing.line)
  <2>1. parsing.line + 1 <= Len(Conf[This.conf]) + 1 /\ Conf[This.conf] # NoFile BY <1>2, LineIs
  <2>2. QED BY <1>2, <2>1 DEF ParseOK, This, Advanced
<1>3. CASE parsing' = NoParse BY <1>3 DEF ParseOK, NoParse
<1>4. CASE parsing.lib = Null /\ UNCHANGED parsing BY <1>4 DEF ParseOK
<1>5. ASSUME NEW l, NEW c, Made(l, c), parsing' # NoParse PROVE ParseOK'
  <2>1. /\ Conf[c] # NoFile /\ lr'[l].conf = c /\ lr'[l].functions = EmptyMap /\ lr'[l].settings = EmptyMap
        /\ parsing'.lib = l /\ parsing'.line = 1 /\ parsing'.perl = EmptyMap /\ parsing'.python = EmptyMap
        /\ c \in DOMAIN Conf
    BY <1>5 DEF Made, NoParse
  <2>2. Len(Conf[c]) \in Nat BY <2>1, ConfAssumption DEF ConfAssumption
  <2>3. ValidBelow(c, 1) BY DEF ValidBelow
  <2>4. QED BY <2>1, <2>2, <2>3, MapFirst, VarsFirst DEF ParseOK, This
<1>6. QED BY <1>2, <1>3, <1>4, <1>5
      DEF Step, Failed, Finished, MadeForHandle, MadeForCall, Destroyed, Served, Crashed, Ended

LEMMA ReadyKept ==
  ASSUME IInv, Step, Noted
  PROVE  ReadyOK'
<1>1. \A l \in Libraries : Ready(lr[l]) BY DEF IInv, ReadyOK
<1>2. ASSUME NEW p, Others(p), Ready(lr'[p]) PROVE ReadyOK'
  <2>1. \A l \in Libraries : Ready(lr'[l]) BY <1>1, <1>2 DEF Others
  <2>2. QED BY <2>1 DEF ReadyOK, Ready
<1>3. ASSUME NEW p, NEW c, NEW k, Advanced(p, c, k) PROVE ReadyOK'
  BY <1>2, <1>3 DEF Advanced, Ready
<1>4. CASE Parsing /\ Failed(parsing.lib, This.conf)
  <2>1. Conf[This.conf] # NoFile BY <1>4, LineIs
  <2>2. QED BY <1>2, <1>4, <2>1 DEF Failed, Ready
<1>5. ASSUME NEW p, NEW c, Finished(p, c) PROVE ReadyOK' BY <1>2, <1>5 DEF Finished
<1>6. ASSUME NEW l, NEW c, Made(l, c) PROVE ReadyOK'
  <2>1. Ready(lr'[l]) BY <1>6 DEF Made, Ready
  <2>2. QED BY <1>2, <1>6, <2>1 DEF Made
<1>7. ASSUME NEW h, Destroyed(h) PROVE ReadyOK'
  <2>1. Ready(lr'[h]) BY <1>7 DEF Destroyed, NoLibrary, Ready
  <2>2. QED BY <1>2, <1>7, <2>1 DEF Destroyed
<1>8. ASSUME UNCHANGED lr PROVE ReadyOK' BY <1>1, <1>8 DEF ReadyOK, Ready
<1>9. QED BY <1>3, <1>4, <1>5, <1>6, <1>7, <1>8 DEF Step, MadeForHandle, MadeForCall, Served, Crashed, Ended

LEMMA StaticKept ==
  ASSUME IInv, Step, Noted
  PROVE  StaticOK'
<1> DEFINE s == lr[Static]
<1>1. /\ Static \in Libraries /\ Static \notin Handles /\ Null \notin Libraries /\ Handles \subseteq Libraries
      /\ Null \notin Calls /\ \A c \in Calls : c.h \in Handles
  BY NullAssumption DEF NullAssumption, Libraries, Calls
<1>2. LIBCRANGE_CONF' = LIBCRANGE_CONF BY DEF Noted
<1>3. /\ s.state # "none" => s.conf = LIBCRANGE_CONF
      /\ at_exit = IF s.state = "none" THEN 0 ELSE 1
      /\ s.state \in {"new", "null"} => waiting # Null \/ ~running
      /\ waiting # Null => s.state # "none" /\ parsing.lib \in {Static, Null} /\ lr[waiting.h].state = "null"
      /\ waiting \in Calls \union {Null}
      /\ \A l \in Libraries : lr[l].state = "new" <=> parsing.lib = l
  BY DEF IInv, StaticOK, StateOK
<1>4. ASSUME Parsing, Others(parsing.lib), lr'[parsing.lib].conf = This.conf, lr'[parsing.lib].state # "none",
             parsing'.lib \in {parsing.lib, Null}, UNCHANGED <<waiting, at_exit>>
      PROVE  StaticOK'
  <2>1. running /\ parsing.lib \in Libraries /\ This.state = "new" /\ This = lr[parsing.lib]
    BY <1>4, LineIs DEF Parsing, This
  <2>2. waiting # Null => waiting.h \in Libraries /\ waiting.h # parsing.lib BY <1>1, <1>3, <2>1
  <2>3. waiting # Null => lr'[waiting.h].state = "null" BY <1>3, <1>4, <2>2 DEF Others
  <2>4. CASE parsing.lib = Static
    <3>1. s.state = "new" /\ waiting # Null /\ s.conf = LIBCRANGE_CONF /\ at_exit = 1 BY <1>3, <2>1, <2>4
    <3>2. lr'[Static].conf = LIBCRANGE_CONF /\ lr'[Static].state # "none" BY <1>4, <2>1, <2>4, <3>1
    <3>3. QED BY <1>2, <1>4, <2>3, <2>4, <3>1, <3>2 DEF StaticOK
  <2>5. CASE parsing.lib # Static
    <3>1. lr'[Static] = s /\ waiting = Null /\ s.state # "new" /\ s.state # "null"
      BY <1>1, <1>3, <1>4, <2>1, <2>5 DEF Others
    <3>2. QED BY <1>2, <1>3, <1>4, <3>1 DEF StaticOK
  <2>6. QED BY <2>4, <2>5
<1>5. ASSUME NEW h, NEW c, MadeForHandle(h, c) PROVE StaticOK'
  <2>1. lr'[Static] = s /\ waiting' = Null /\ at_exit' = at_exit BY <1>1, <1>5 DEF MadeForHandle, Made, Others
  <2>2. running /\ waiting = Null BY <1>5 DEF MadeForHandle, Made
  <2>3. QED BY <1>2, <1>3, <2>1, <2>2 DEF StaticOK
<1>6. ASSUME NEW c, MadeForCall(c) PROVE StaticOK'
  <2>1. /\ lr'[Static].conf = LIBCRANGE_CONF /\ lr'[Static].state \in {"live", "new"} /\ s.state = "none"
        /\ parsing'.lib \in {Static, Null} /\ Others(Static) /\ at_exit' = at_exit + 1
    BY <1>6 DEF MadeForCall, Made, NoParse
  <2>2. waiting' = c /\ c \in Calls /\ lr[c.h].state = "null" BY <1>6 DEF MadeForCall
  <2>3. lr'[c.h].state = "null" /\ c # Null BY <1>1, <2>1, <2>2 DEF Others
  <2>4. at_exit' = 1 BY <1>3, <2>1
  <2>5. QED BY <1>2, <2>1, <2>2, <2>3, <2>4 DEF StaticOK
<1>7. ASSUME NEW h, Destroyed(h) PROVE StaticOK'
  <2>1. lr'[Static] = s /\ waiting' = Null /\ waiting = Null /\ UNCHANGED <<at_exit, running>>
    BY <1>1, <1>7 DEF Destroyed, Others
  <2>2. QED BY <1>2, <1>3, <2>1 DEF StaticOK
<1>8. ASSUME NEW c, Served(c) PROVE StaticOK'
  BY <1>2, <1>3, <1>8 DEF Served, Ended, StaticOK
<1>9. CASE Crashed BY <1>2, <1>3, <1>9 DEF Crashed, Ended, StaticOK
<1>10. CASE Parsing /\ Advanced(parsing.lib, This.conf, parsing.line) BY <1>4, <1>10 DEF Advanced
<1>11. CASE Parsing /\ Failed(parsing.lib, This.conf) BY <1>4, <1>11 DEF Failed, NoParse, outside
<1>12. CASE Parsing /\ Finished(parsing.lib, This.conf) BY <1>4, <1>12 DEF Finished, NoParse, outside
<1>13. QED BY <1>5, <1>6, <1>7, <1>8, <1>9, <1>10, <1>11, <1>12 DEF Step

(* A step that is about one library leaves what the others have read. *)
LEMMA OthersSame ==
  ASSUME IInv, NEW p, NEW l, l # p, Others(p), parsing.lib \in {p, Null}, parsing'.lib \in {p, Null}
  PROVE  (Has(l)' <=> Has(l)) /\ (Has(l) => lr'[l].conf = lr[l].conf /\ Read(l)' = Read(l))
<1>1. l \in Libraries => lr'[l] = lr[l] /\ l # Null BY NullAssumption DEF Others, NullAssumption
<1>2. QED BY <1>1 DEF Has, Read

(* What a step with nothing to read says of the last lines read. *)
LEMMA NewHas ==
  ASSUME NEW l, NEW c, Made(l, c), Has(l)'
  PROVE  lr'[l].conf = c /\ Read(l)' = 1 /\ \A n, kind : Below(c, kind, n, 1) = {} /\ PathBelow(c, 1) = {}
<1>1. lr'[l].conf = c /\ Conf[c] # NoFile BY DEF Made, Has
<1>2. parsing' = [NoParse EXCEPT !.lib = l] BY <1>1 DEF Made
<1>3. Read(l)' = 1 BY <1>2 DEF Read, NoParse
<1>4. QED BY <1>1, <1>3 DEF Below, PathBelow, VarsBelow

(* An end of file changes the library's state, not what it has read. *)
LEMMA EndHas ==
  ASSUME IInv, Parsing, NEW p, p = parsing.lib, Finished(p, This.conf)
  PROVE  Has(p) /\ lr'[p].conf = lr[p].conf /\ Read(p)' = Read(p)
<1>1. p \in Libraries /\ p # Null BY LineIs DEF Parsing
<1>2. Has(p) /\ This = lr[p] BY <1>1, LineIs DEF Has, This
<1>3. Read(p) = End(This.conf) BY DEF Read, Finished
<1>4. parsing'.lib # p /\ lr'[p].conf = This.conf BY <1>1 DEF Finished, NoParse
<1>5. Read(p)' = End(This.conf) BY <1>4 DEF Read, End
<1>6. QED BY <1>2, <1>3, <1>4, <1>5

(* The same of the path. *)
LEMMA OthersPath ==
  ASSUME NEW p, NEW l, l # p, Others(p), parsing.lib \in {p, Null}, parsing'.lib \in {p, Null}
  PROVE  /\ HasPath(l)' <=> HasPath(l)
         /\ HasPath(l) => lr'[l].conf = lr[l].conf /\ PathNow(l)' = PathNow(l)
<1>1. l \in Libraries => lr'[l] = lr[l] /\ l # Null BY NullAssumption DEF Others, NullAssumption
<1>2. QED BY <1>1 DEF HasPath, PathNow

LEMMA PathSame ==
  ASSUME PathOK, UNCHANGED <<reader, path, LIBCRANGE_YAML_PATH>>, NEW l, l = reader,
         HasPath(l)' => HasPath(l) /\ lr'[l].conf = lr[l].conf /\ PathNow(l)' = PathNow(l)
  PROVE  PathOK'
<1>1. LIBCRANGE_YAML_PATH # Null /\ l # Null => path.value = LIBCRANGE_YAML_PATH /\ path.owner = Null BY DEF PathOK
<1>2. LIBCRANGE_YAML_PATH = Null /\ HasPath(l)' /\ PathNow(l)' # {} =>
        path.owner = l /\ path.value = Conf[lr'[l].conf][Max(PathNow(l)')].value
  BY DEF PathOK
<1>3. (HasPath(reader)' <=> HasPath(l)') /\ PathNow(reader)' = PathNow(l)' BY DEF HasPath, PathNow
<1>4. QED BY <1>1, <1>2, <1>3 DEF PathOK

(* A line of a file, the last that is read of it or not. *)
LEMMA PathStep ==
  ASSUME IInv, Parsing, ~AtEnd, UNCHANGED LIBCRANGE_YAML_PATH,
         NEW p, p = parsing.lib, NEW c, c = This.conf, NEW k, k = parsing.line,
         Others(p), lr'[p].conf = c, PathRead(c, k),
         \/ parsing'.lib = p /\ parsing'.line = k + 1
         \/ parsing'.lib = Null /\ PathLines(c) = PathBelow(c, k + 1)
  PROVE  PathOK'
<1>1. /\ p \in Libraries /\ k \in Nat \ {0} /\ Conf[c] # NoFile /\ lr[p].conf = c /\ lr[p].state = "new"
      /\ p # Null
  BY LineIs, NullAssumption DEF This, NullAssumption
<1>2. HasPath(p) /\ PathNow(p) = PathBelow(c, k) BY <1>1 DEF HasPath, PathNow
<1>3. PathNow(p)' = PathBelow(c, k + 1) BY <1>1 DEF PathNow
<1>4. CASE LoadsPathAt(c, k)
  <2>1. PathNow(p)' = VarsBelow(c, k) /\ reader' = p BY <1>1, <1>3, <1>4, PathNext DEF PathRead
  <2>2. PathNow(reader)' = VarsBelow(c, k) /\ lr'[reader'].conf = c BY <2>1 DEF PathNow
  <2>3. LIBCRANGE_YAML_PATH # Null => path'.value = LIBCRANGE_YAML_PATH /\ path'.owner = Null
    BY <1>4 DEF PathRead
  <2>4. LIBCRANGE_YAML_PATH = Null /\ VarsBelow(c, k) # {} =>
          path'.owner = p /\ path'.value = Conf[c][Max(VarsBelow(c, k))].value
    BY <1>4 DEF PathRead
  <2>5. QED BY <2>1, <2>2, <2>3, <2>4 DEF PathOK
<1>5. CASE ~LoadsPathAt(c, k)
  <2>1. PathNow(p)' = PathNow(p) /\ reader' = reader /\ path' = path
    BY <1>1, <1>2, <1>3, <1>5, PathNext DEF PathRead
  <2>2. CASE reader = p BY <1>1, <1>2, <2>1, <2>2, PathSame DEF IInv
  <2>3. CASE reader # p BY <2>1, <2>3, OthersPath, PathSame DEF IInv
  <2>4. QED BY <2>2, <2>3
<1>6. QED BY <1>4, <1>5

LEMMA PathKept ==
  ASSUME IInv, Step, Noted
  PROVE  PathOK'
<1>1. PathOK /\ UNCHANGED LIBCRANGE_YAML_PATH BY DEF IInv, Noted
<1>2. Null \notin Libraries /\ Handles \subseteq Libraries BY NullAssumption DEF NullAssumption, Libraries
<1>4. CASE Parsing /\ ~AtEnd /\ Advanced(parsing.lib, This.conf, parsing.line)
  BY <1>1, <1>4, PathStep DEF Advanced
<1>5. CASE Parsing /\ ~AtEnd /\ Failed(parsing.lib, This.conf)
  BY <1>1, <1>5, PathStep DEF Failed, NoParse
<1>6. CASE Parsing /\ Finished(parsing.lib, This.conf)
  <2>0. PICK p, c : p = parsing.lib /\ c = This.conf OBVIOUS
  <2>1. reader' = reader /\ path' = path /\ Others(p) /\ parsing'.lib = Null /\ lr'[p].conf = c
    BY <1>6, <2>0 DEF Finished, Shared_same, NoParse
  <2>2. CASE reader = p
    <3>1. /\ p \in Libraries /\ p # Null /\ c \in DOMAIN Conf /\ Conf[c] # NoFile /\ lr[p].conf = c
          /\ lr[p].state = "new"
      BY <1>2, <1>6, <2>0, LineIs DEF This
    <3>2. Valid(c) BY <1>6, <2>0, <3>1 DEF Finished, Ready
    <3>3. PathNow(p) = PathBelow(c, End(c)) BY <1>6, <2>0, <3>1 DEF PathNow, Finished
    <3>4. PathNow(p)' = PathLines(c) BY <2>1, <3>1 DEF PathNow
    <3>5. PathNow(p)' = PathNow(p) /\ HasPath(p) BY <3>1, <3>2, <3>3, <3>4, AllLines DEF HasPath
    <3>6. QED BY <1>1, <2>1, <2>2, <3>1, <3>5, PathSame
  <2>3. CASE reader # p BY <1>1, <2>0, <2>1, <2>3, OthersPath, PathSame
  <2>4. QED BY <2>2, <2>3
<1>7. ASSUME NEW l, NEW c, Made(l, c) PROVE PathOK'
  <2>1. /\ reader' = reader /\ path' = path /\ Others(l) /\ parsing.lib = Null
        /\ parsing'.lib \in {l, Null} /\ l \in Libraries /\ lr'[l].conf = c
    BY <1>7 DEF Made, Shared_same, NoParse
  <2>2. CASE reader = l
    <3>1. HasPath(l)' => PathNow(l)' = {}
      <4>1. SUFFICES ASSUME Conf[c] # NoFile PROVE PathNow(l)' = {} BY <2>1 DEF HasPath
      <4>2. parsing'.lib = l /\ parsing'.line = 1 BY <1>7, <4>1 DEF Made, NoParse
      <4>3. PathNow(l)' = PathBelow(c, 1) BY <2>1, <4>2 DEF PathNow
      <4>4. QED BY <4>3 DEF PathBelow, VarsBelow
    <3>2. (HasPath(reader)' <=> HasPath(l)') /\ PathNow(reader)' = PathNow(l)'
      BY <2>1, <2>2 DEF HasPath, PathNow
    <3>3. QED BY <1>1, <2>1, <3>1, <3>2 DEF PathOK
  <2>3. CASE reader # l BY <1>1, <2>1, <2>3, OthersPath, PathSame
  <2>4. QED BY <2>2, <2>3
<1>8. ASSUME NEW h, Destroyed(h) PROVE PathOK'
  <2>1. /\ reader' = reader /\ Others(h) /\ parsing.lib = Null /\ parsing'.lib = Null /\ h \in Libraries
        /\ lr'[h] = NoLibrary
    BY <1>2, <1>8 DEF Destroyed
  <2>2. PICK l : l = reader OBVIOUS
  <2>3. (HasPath(reader)' <=> HasPath(l)') /\ PathNow(reader)' = PathNow(l)'
    BY <2>1, <2>2 DEF HasPath, PathNow
  <2>4. CASE LIBCRANGE_YAML_PATH # Null
    <3>1. l # Null => path' = path BY <1>1, <1>2, <1>8, <2>1, <2>2, <2>4 DEF Destroyed, PathOK
    <3>2. QED BY <1>1, <2>1, <2>2, <2>4, <3>1 DEF PathOK
  <2>5. CASE LIBCRANGE_YAML_PATH = Null
    <3>1. CASE l = h
      <4>1. ~HasPath(l)' BY <2>1, <3>1 DEF HasPath, NoLibrary
      <4>2. QED BY <1>1, <2>3, <2>5, <4>1 DEF PathOK
    <3>2. CASE l # h
      <4>1. (HasPath(l)' <=> HasPath(l)) /\ (HasPath(l) => lr'[l].conf = lr[l].conf /\ PathNow(l)' = PathNow(l))
        BY <2>1, <3>2, OthersPath
      <4>2. CASE path' = path BY <1>1, <2>1, <2>2, <4>1, <4>2, PathSame
      <4>3. CASE path' # path
        <5>1. path.owner # l BY <1>8, <3>2, <4>3 DEF Destroyed
        <5>2. ~(HasPath(l) /\ PathNow(l) # {}) BY <1>1, <2>2, <2>5, <5>1 DEF PathOK
        <5>3. ~(HasPath(l)' /\ PathNow(l)' # {}) BY <4>1, <5>2
        <5>4. QED BY <1>1, <2>3, <2>5, <5>3 DEF PathOK
      <4>4. QED BY <4>2, <4>3
    <3>3. QED BY <3>1, <3>2
  <2>6. QED BY <2>4, <2>5
<1>9. CASE Ended BY <1>1, <1>9 DEF Ended, Shared_same, PathOK, HasPath, PathNow
<1>10. QED BY <1>4, <1>5, <1>6, <1>7, <1>8, <1>9 DEF Step, MadeForHandle, MadeForCall, Served, Crashed

LEMMA BelowNext ==
  ASSUME NEW c, NEW kind, NEW n, NEW k \in Nat \ {0}
  PROVE  /\ Loads(c, kind, k) /\ n \in Provides[Conf[c][k].module] =>
              /\ Max(Below(c, kind, n, k + 1)) = k
              /\ Below(c, kind, n, k + 1) # {}
         /\ ~(Loads(c, kind, k) /\ n \in Provides[Conf[c][k].module]) => Below(c, kind, n, k + 1) = Below(c, kind, n, k)
<1> DEFINE here == Loads(c, kind, k) /\ n \in Provides[Conf[c][k].module]
<1>1. 1..(k + 1) - 1 = (1..k - 1) \union {k} OBVIOUS
<1>2. here => Below(c, kind, n, k + 1) = Below(c, kind, n, k) \union {k} BY <1>1 DEF Below
<1>3. ~here => Below(c, kind, n, k + 1) = Below(c, kind, n, k) BY <1>1 DEF Below
<1>4. \A j \in Below(c, kind, n, k) : j \in 1..k - 1 BY DEF Below
<1>5. Max(Below(c, kind, n, k) \union {k}) = k BY <1>4, LastIs
<1>6. QED BY <1>2, <1>3, <1>5

LEMMA UserKept ==
  ASSUME IInv, Step, Noted, NEW language \in Languages
  PROVE  UserOK(language)'
<1>1. UserOK(language) BY DEF IInv, Languages
<1>2. Null \notin Libraries BY NullAssumption DEF NullAssumption
<1>3. CASE Parsing /\ ~AtEnd /\ Advanced(parsing.lib, This.conf, parsing.line)
  <2> DEFINE p == parsing.lib
             c == This.conf
             k == parsing.line
  <2>1. /\ k \in Nat \ {0} /\ parsing'.lib = p /\ parsing'.line = k + 1 /\ lr'[p].conf = c /\ p # Null
        /\ PluginRead(language, c, k)
    BY <1>3, LineIs DEF Advanced, Languages, Parsing
  <2>2. 1..(k + 1) - 1 = (1..k - 1) \union {k} BY <2>1
  <2>3. CASE Loads(c, Kind(language), k)
    <3>1. user'[language] = parsing'.lib BY <2>1, <2>3 DEF PluginRead
    <3>2. QED BY <3>1 DEF UserOK
  <2>4. CASE ~Loads(c, Kind(language), k)
    <3>1. user'[language] = user[language] BY <2>1, <2>4 DEF PluginRead
    <3>2. (\E j \in 1..(k + 1) - 1 : Loads(c, Kind(language), j)) => \E j \in 1..k - 1 : Loads(c, Kind(language), j)
      BY <2>2, <2>4
    <3>3. QED BY <1>1, <2>1, <3>1, <3>2 DEF UserOK, This
  <2>5. QED BY <2>3, <2>4
<1>4. CASE parsing'.lib = Null BY <1>4 DEF UserOK
<1>5. ASSUME NEW l, NEW c, Made(l, c), parsing'.lib # Null PROVE UserOK(language)'
  <2>1. parsing'.line = 1 BY <1>5 DEF Made, NoParse
  <2>2. QED BY <2>1 DEF UserOK
<1>6. QED BY <1>3, <1>4, <1>5
      DEF Step, Failed, Finished, NoParse, MadeForHandle, MadeForCall, Destroyed, Served, Crashed, Ended

LEMMA PluginKept ==
  ASSUME IInv, Step, Noted, NEW language \in Languages
  PROVE  PluginOK(language)'
<1>1. PluginOK(language) /\ UserOK(language) BY DEF IInv, Languages
<1>2. Null \notin Libraries BY NullAssumption DEF NullAssumption
<1>3. ASSUME NEW l, l = user[language], user'[language] = l, plugins'[language] = plugins[language],
             Has(l)' => Has(l) /\ lr'[l].conf = lr[l].conf
                        /\ \A n : Below(lr[l].conf, Kind(language), n, Read(l)') = Below(lr[l].conf, Kind(language), n, Read(l))
      PROVE  PluginOK(language)'
  BY <1>1, <1>3 DEF PluginOK, Has, Read
<1>4. CASE Parsing /\ ~AtEnd /\ Advanced(parsing.lib, This.conf, parsing.line)
  <2>0. PICK p, c, k : p = parsing.lib /\ c = This.conf /\ k = parsing.line OBVIOUS
  <2>1. /\ Others(p) /\ parsing'.lib = p /\ parsing'.line = k + 1 /\ lr'[p].conf = c /\ lr[p].conf = c
        /\ PluginRead(language, c, k)
    BY <1>4, <2>0 DEF Advanced, This, Languages
  <2>2. p \in Libraries /\ p # Null /\ k \in Nat \ {0} /\ Has(p)
    BY <1>4, <2>0, LineIs DEF Has, This, Parsing
  <2>3. Read(p) = k /\ Read(p)' = k + 1 BY <2>0, <2>1 DEF Read
  <2>4. CASE Loads(c, Kind(language), k)
    <3> DEFINE m == Conf[c][k].module
    <3>1. user'[language] = p BY <2>0, <2>1, <2>4 DEF PluginRead
    <3>2. ASSUME NEW n \in DOMAIN plugins'[language], Below(c, Kind(language), n, k + 1) # {}
          PROVE  plugins'[language][n] = Conf[c][Max(Below(c, Kind(language), n, k + 1))].module
      <4>1. CASE n \in Provides[m]
        <5>1. plugins'[language][n] = m BY <2>1, <2>4, <4>1 DEF PluginRead
        <5>2. Max(Below(c, Kind(language), n, k + 1)) = k BY <2>2, <2>4, <4>1, BelowNext
        <5>3. QED BY <5>1, <5>2
      <4>2. CASE n \notin Provides[m]
        <5>1. n \in DOMAIN plugins[language] /\ plugins'[language][n] = plugins[language][n]
          BY <2>1, <2>4, <4>2 DEF PluginRead
        <5>2. Below(c, Kind(language), n, k + 1) = Below(c, Kind(language), n, k) BY <2>2, <4>2, BelowNext
        <5>3. \E j \in 1..k - 1 : Loads(c, Kind(language), j) BY <3>2, <5>2 DEF Below
        <5>4. user[language] = p BY <1>1, <2>0, <2>2, <5>3 DEF UserOK
        <5>5. plugins[language][n] = Conf[c][Max(Below(c, Kind(language), n, k))].module
          BY <1>1, <2>1, <2>2, <2>3, <3>2, <5>1, <5>2, <5>4 DEF PluginOK
        <5>6. QED BY <5>1, <5>2, <5>5
      <4>3. QED BY <4>1, <4>2
    <3>3. QED BY <2>1, <2>3, <3>1, <3>2 DEF PluginOK, Read, Has
  <2>5. CASE ~Loads(c, Kind(language), k)
    <3>1. user'[language] = user[language] BY <2>1, <2>5 DEF PluginRead
    <3>2. \A n \in DOMAIN plugins'[language] :
            n \in DOMAIN plugins[language] /\ plugins'[language][n] = plugins[language][n]
      BY <2>1, <2>5 DEF PluginRead
    <3>3. PICK l : l = user[language] OBVIOUS
    <3>4. Has(l)' => /\ Has(l) /\ lr'[l].conf = lr[l].conf
                     /\ \A n : Below(lr[l].conf, Kind(language), n, Read(l)') = Below(lr[l].conf, Kind(language), n, Read(l))
      <4>1. CASE l = p
        <5>1. \A n : Below(c, Kind(language), n, k + 1) = Below(c, Kind(language), n, k) BY <2>2, <2>5, BelowNext
        <5>2. QED BY <2>1, <2>2, <2>3, <4>1, <5>1
      <4>2. CASE l # p BY <2>0, <2>1, <4>2, OthersSame
      <4>3. QED BY <4>1, <4>2
    <3>5. QED BY <1>1, <3>1, <3>2, <3>3, <3>4 DEF PluginOK, Has, Read
  <2>6. QED BY <2>4, <2>5
<1>5. CASE Parsing /\ (Failed(parsing.lib, This.conf) \/ Finished(parsing.lib, This.conf))
  <2>0. PICK p, l : p = parsing.lib /\ l = user[language] OBVIOUS
  <2>1. user'[language] = l /\ plugins'[language] = plugins[language] /\ Others(p) /\ parsing'.lib = Null
    BY <1>5, <2>0 DEF Failed, Finished, Shared_same, NoParse
  <2>2. CASE l = p
    <3>1. CASE Failed(parsing.lib, This.conf)
      <4>1. ~Has(p)' BY <2>0, <3>1 DEF Failed, Has
      <4>2. QED BY <1>3, <2>0, <2>1, <2>2, <4>1
    <3>2. CASE Finished(parsing.lib, This.conf) BY <1>3, <1>5, <2>0, <2>1, <2>2, <3>2, EndHas
    <3>3. QED BY <1>5, <3>1, <3>2
  <2>3. CASE l # p BY <1>3, <2>0, <2>1, <2>3, OthersSame
  <2>4. QED BY <2>2, <2>3
<1>6. ASSUME NEW p, NEW c, Made(p, c) PROVE PluginOK(language)'
  <2>0. PICK l : l = user[language] OBVIOUS
  <2>1. /\ user'[language] = l /\ plugins'[language] = plugins[language] /\ Others(p) /\ parsing.lib = Null
        /\ parsing'.lib \in {p, Null}
    BY <1>6, <2>0 DEF Made, Shared_same, NoParse
  <2>2. CASE l = p
    <3>1. Has(l)' => \A n : Below(lr'[l].conf, Kind(language), n, Read(l)') = {} BY <1>6, <2>2, NewHas
    <3>2. QED BY <2>1, <3>1 DEF PluginOK, Has, Read
  <2>3. CASE l # p BY <1>3, <2>0, <2>1, <2>3, OthersSame
  <2>4. QED BY <2>2, <2>3
<1>7. ASSUME NEW h, Destroyed(h) PROVE PluginOK(language)'
  <2>0. PICK l : l = user[language] OBVIOUS
  <2>1. /\ user'[language] = l /\ plugins'[language] = plugins[language] /\ Others(h) /\ parsing.lib = Null
        /\ parsing'.lib = Null
    BY <1>7, <2>0 DEF Destroyed
  <2>2. CASE l = h
    <3>1. ~Has(l)' BY <1>7, <2>2 DEF Destroyed, Has, NoLibrary
    <3>2. QED BY <1>3, <2>0, <2>1, <3>1
  <2>3. CASE l # h BY <1>3, <2>0, <2>1, <2>3, OthersSame
  <2>4. QED BY <2>2, <2>3
<1>8. CASE Ended BY <1>1, <1>8 DEF Ended, Shared_same, PluginOK, Has, Read
<1>9. QED BY <1>4, <1>5, <1>6, <1>7, <1>8 DEF Step, MadeForHandle, MadeForCall, Served, Crashed

(***************************************************************************)
(* Answers.                                                                *)
(***************************************************************************)

(* The file that counts is that of the library that answers. *)
LEMMA ChosenIs ==
  ASSUME IInv, NEW h \in Handles, Given(h), lr[Library(h)].state = "live"
  PROVE  /\ Library(h) \in Libraries /\ Chosen(h) = lr[Library(h)].conf /\ Chosen(h) \in DOMAIN Conf
         /\ Ready(lr[Library(h)]) /\ parsing.lib # Library(h)
<1>1. h \in Libraries /\ Static \in Libraries BY DEF Libraries
<1>2. /\ \A l \in Libraries : Ready(lr[l]) /\ IsLib(lr[l]) /\ (lr[l].state = "new" <=> parsing.lib = l)
      /\ lr[Static].state # "none" => lr[Static].conf = LIBCRANGE_CONF
  BY DEF IInv, ReadyOK, StateOK, StaticOK
<1>3. Library(h) \in Libraries BY <1>1 DEF Library
<1>4. CASE lr[h].state = "live"
  <2>1. Chosen(h) = lr[h].conf BY <1>1, <1>2, <1>4 DEF Ready, Chosen
  <2>2. QED BY <1>1, <1>2, <1>4, <2>1 DEF Library, IsLib
<1>5. CASE lr[h].state = "null"
  <2>1. Library(h) = Static BY <1>5 DEF Library
  <2>2. Chosen(h) = LIBCRANGE_CONF BY <1>1, <1>2, <1>5 DEF Ready, Chosen
  <2>3. QED BY <1>1, <1>2, <2>1, <2>2 DEF IsLib
<1>6. QED BY <1>4, <1>5 DEF Given

(* A table that has all lines has a name if a line names it. *)
LEMMA DataIs ==
  ASSUME NEW c \in DOMAIN Conf, Conf[c] # NoFile, NEW kind, NEW map, MapIs(map, c, kind, End(c)), NEW n
  PROVE  /\ Lines(c, kind, n) = {} => set_get_data(map, n) = Null
         /\ Lines(c, kind, n) # {} =>
              /\ set_get_data(map, n) = Conf[c][Max(Lines(c, kind, n))].module
              /\ set_get_data(map, n) \in DOMAIN Provides /\ set_get_data(map, n) # Null
<1> DEFINE L == Lines(c, kind, n)
<1>1. L = Below(c, kind, n, End(c)) BY AllLines
<1>2. CASE L = {} BY <1>1, <1>2 DEF MapIs, set_get_data
<1>3. CASE L # {}
  <2>1. set_get_data(map, n) = Conf[c][Max(L)].module BY <1>1, <1>3 DEF MapIs, set_get_data
  <2>2. Len(Conf[c]) \in Nat /\ DOMAIN Conf[c] = 1..Len(Conf[c]) BY ConfAssumption DEF ConfAssumption
  <2>3. L \in SUBSET (0..Len(Conf[c])) BY <2>2 DEF Lines
  <2>4. Max(L) \in L BY <1>3, <2>2, <2>3, MaxIs
  <2>5. Conf[c][Max(L)].module \in DOMAIN Provides BY <2>4 DEF Lines, Loads
  <2>6. QED BY <1>3, <2>1, <2>5, ModuleAssumption DEF ModuleAssumption
<1>4. QED BY <1>2, <1>3

(* What a name is found to be. *)
LEMMA FoundIs ==
  ASSUME IInv, NEW l \in Libraries, lr[l].state = "live", Ready(lr[l]), lr[l].conf \in DOMAIN Conf, NEW n,
         NEW f \in Found(l, n)
  PROVE  /\ Conf[lr[l].conf] # NoFile =>
              /\ f = Meant(lr[l].conf, n)
              /\ \A language \in Languages : f = language => Lines(lr[l].conf, Kind(language), n) # {}
         /\ Conf[lr[l].conf] = NoFile => f \in {"undefined", "none"}
<1> DEFINE c == lr[l].conf
<1>1. CASE Conf[c] = NoFile
  <2>1. lr[l].unset /\ n \notin DOMAIN lr[l].perl /\ n \notin DOMAIN lr[l].functions BY <1>1 DEF Ready
  <2>2. QED BY <1>1, <2>1 DEF Found, set_get_data
<1>2. CASE Conf[c] # NoFile
  <2>1. /\ ~lr[l].unset /\ MapIs(lr[l].functions, c, "loadmodule", End(c))
        /\ MapIs(lr[l].perl, c, "perlmodule", End(c)) /\ MapIs(lr[l].python, c, "pythonmodule", End(c))
    BY <1>2 DEF Ready
  <2>2. /\ Lines(c, "perlmodule", n) = {} <=> set_get_data(lr[l].perl, n) = Null
        /\ Lines(c, "pythonmodule", n) = {} <=> set_get_data(lr[l].python, n) = Null
        /\ Lines(c, "loadmodule", n) = {} <=> set_get_data(lr[l].functions, n) = Null
        /\ Lines(c, "loadmodule", n) # {} => /\ set_get_data(lr[l].functions, n) = LastModule(c, n)
                                             /\ LastModule(c, n) \in DOMAIN Provides
    BY <1>2, <2>1, DataIs DEF LastModule
  <2>3. /\ "perl" \notin DOMAIN Provides /\ "python" \notin DOMAIN Provides
    BY ModuleAssumption DEF ModuleAssumption
  <2>4. CASE Lines(c, "perlmodule", n) # {}
    <3>1. f = "perl" /\ f = Meant(c, n) BY <2>2, <2>4 DEF Found, Meant
    <3>2. QED BY <1>2, <2>4, <3>1 DEF Languages, Kind
  <2>5. CASE Lines(c, "perlmodule", n) = {} /\ Lines(c, "pythonmodule", n) # {}
    <3>1. f = "python" /\ f = Meant(c, n) BY <2>1, <2>2, <2>5 DEF Found, Meant
    <3>2. QED BY <1>2, <2>5, <3>1 DEF Languages, Kind
  <2>6. CASE Lines(c, "perlmodule", n) = {} /\ Lines(c, "pythonmodule", n) = {}
    <3>1. f = IF Lines(c, "loadmodule", n) = {} THEN "none" ELSE LastModule(c, n) BY <2>1, <2>2, <2>6 DEF Found
    <3>2. f = Meant(c, n) BY <2>6, <3>1 DEF Meant
    <3>3. f # "perl" /\ f # "python" BY <2>2, <2>3, <3>1
    <3>4. QED BY <1>2, <3>2, <3>3 DEF Languages
  <2>7. QED BY <2>4, <2>5, <2>6
<1>3. QED BY <1>1, <1>2

LEMMA ServedIs ==
  ASSUME IInv, Noted, NEW c \in Calls, Served(c)
  PROVE  AnswerOK'
<1>0. parsing'.lib = Null /\ waiting' = Null BY DEF Served, Ended
<1>1. CASE answer' = Null
  BY <1>1 DEF AnswerOK, FunctionsAsConfigured, PathAsConfigured, PluginsAsConfigured
<1>2. CASE answer' # Null
  <2>0. PICK h, l, n : h = c.h /\ l = Library(c.h) /\ n = c.n OBVIOUS
  <2>1. PICK f \in Found(l, n) :
          /\ running' = (Run(f, n) # Null)
          /\ answer' = [h |-> h, n |-> n, found |-> f, runs |-> Run(f, n), path |-> path.value]
    BY <1>2, <2>0 DEF Served, Answer
  <2>2. h \in Handles /\ Given(h) /\ l = Library(h) /\ lr[l].state = "live" BY <2>0 DEF Served, Calls
  <2>3. PICK file : file = Chosen(h) OBVIOUS
  <2>4. /\ l \in Libraries /\ file = lr[l].conf /\ file \in DOMAIN Conf /\ Ready(lr[l]) /\ parsing.lib # l
    BY <2>2, <2>3, ChosenIs
  <2>5. UNCHANGED <<lr, parsing, path, plugins, reader, user, LIBCRANGE_CONF, LIBCRANGE_YAML_PATH>>
    BY DEF Served, Ended, Shared_same, Noted
  <2>6. /\ answer'.h = h /\ Given(h)' /\ Library(h)' = l /\ Chosen(h)' = file
    BY <2>1, <2>2, <2>3, <2>5 DEF Given, Library, Chosen
  <2>7. answer'.n = n /\ answer'.found = f /\ answer'.runs = Run(f, n) /\ answer'.path = path.value BY <2>1
  <2>8. /\ Conf[file] # NoFile =>
             /\ f = Meant(file, n)
             /\ \A language \in Languages : f = language => Lines(file, Kind(language), n) # {}
        /\ Conf[file] = NoFile => f \in {"undefined", "none"}
    BY <2>1, <2>2, <2>4, FoundIs
  <2>9. Read(l) = End(file) BY <2>4 DEF Read
  <2>10. FunctionsAsConfigured' BY <2>6, <2>7, <2>8 DEF FunctionsAsConfigured
  <2>11. PathAsConfigured'
    <3>1. PICK r : r = reader OBVIOUS
    <3>2. SUFFICES ASSUME r # Null, SaysPath(lr[r].conf)
                   PROVE  path.value = PathMeant(lr[r].conf)
      BY <2>5, <2>7, <3>1 DEF PathAsConfigured, SaysPath, PathMeant
    <3>3. CASE LIBCRANGE_YAML_PATH # Null BY <3>1, <3>2, <3>3 DEF IInv, PathOK, PathMeant
    <3>4. CASE LIBCRANGE_YAML_PATH = Null
      <4>1. lr[r].conf # Null /\ Conf[lr[r].conf] # NoFile /\ PathLines(lr[r].conf) # {}
        BY <3>2, <3>4 DEF SaysPath
      <4>2. r \in Libraries /\ parsing.lib # r
        BY <3>1, <3>2 DEF IInv, StateOK, Served, Ended
      <4>3. lr[r].state \in {"live", "null"}
        BY <4>1, <4>2 DEF IInv, StateOK, IsLib, LibraryState
      <4>4. HasPath(r) /\ PathNow(r) = PathLines(lr[r].conf) BY <4>1, <4>2, <4>3 DEF HasPath, PathNow
      <4>5. path.value = Conf[lr[r].conf][Max(PathLines(lr[r].conf))].value
        BY <3>1, <3>4, <4>1, <4>4 DEF IInv, PathOK
      <4>6. QED BY <3>4, <4>5 DEF PathMeant
    <3>5. QED BY <3>3, <3>4
  <2>12. PluginsAsConfigured'
    <3>1. SUFFICES ASSUME Run(f, n) # Null, f \in Languages, user[f] = l, Conf[file] # NoFile
                   PROVE  Run(f, n) = PluginMeant(file, f, n)
      BY <2>1, <2>5, <2>6, <2>7 DEF PluginsAsConfigured, IInv, StateOK, Languages
    <3>2. DOMAIN plugins = Languages BY DEF IInv, StateOK, Languages
    <3>3. n \in DOMAIN plugins[f] /\ Run(f, n) = plugins[f][n] BY <3>1, <3>2 DEF Run, set_get_data
    <3>4. Lines(file, Kind(f), n) = Below(file, Kind(f), n, End(file)) /\ Lines(file, Kind(f), n) # {}
      BY <2>4, <2>8, <3>1, AllLines
    <3>5. Has(l) BY <2>2, <2>4, <3>1 DEF Has
    <3>6. PluginOK(f) BY <3>1 DEF IInv, Languages
    <3>7. plugins[f][n] = Conf[file][Max(Below(file, Kind(f), n, End(file)))].module
      BY <2>4, <2>9, <3>1, <3>3, <3>4, <3>5, <3>6 DEF PluginOK
    <3>8. QED BY <3>3, <3>4, <3>7 DEF PluginMeant
  <2>13. QED BY <1>0, <2>10, <2>11, <2>12 DEF AnswerOK
<1>3. QED BY <1>1, <1>2

(* While a call is under way there is none, and the next call takes it.    *)
LEMMA AnswerKept ==
  ASSUME IInv, Step, Noted
  PROVE  AnswerOK'
<1>1. ASSUME answer' = Null PROVE AnswerOK'
  BY <1>1 DEF AnswerOK, FunctionsAsConfigured, PathAsConfigured, PluginsAsConfigured
<1>2. parsing.lib # Null \/ waiting # Null => answer = Null BY DEF IInv, AnswerOK
<1>3. CASE Parsing /\ ~AtEnd /\ Advanced(parsing.lib, This.conf, parsing.line)
  BY <1>1, <1>2, <1>3 DEF Advanced, Parsing
<1>4. CASE Parsing /\ (Failed(parsing.lib, This.conf) \/ Finished(parsing.lib, This.conf))
  BY <1>1, <1>2, <1>4 DEF Failed, Finished, outside, Parsing
<1>5. ASSUME NEW p, NEW c, Made(p, c) PROVE AnswerOK' BY <1>1, <1>5 DEF Made
<1>6. ASSUME NEW d, Destroyed(d) PROVE AnswerOK' BY <1>1, <1>6 DEF Destroyed
<1>7. CASE Crashed BY <1>1, <1>2, <1>7 DEF Crashed
<1>8. QED BY <1>3, <1>4, <1>5, <1>6, <1>7, ServedIs DEF Step, MadeForHandle, MadeForCall

(***************************************************************************)
(* The theorems.                                                           *)
(***************************************************************************)
LEMMA Initially ==
  ASSUME Init
  PROVE  IInv
<1>1. Null \notin Libraries /\ Static \in Libraries /\ Handles \subseteq Libraries
  BY NullAssumption DEF NullAssumption, Libraries
<1>2. \A l \in Libraries : lr[l] = NoLibrary BY DEF Init
<1>3. StateOK
  <2>1. IsLib(NoLibrary) /\ NoLibrary.state = "none" BY DEF IsLib, NoLibrary, LibraryState
  <2>2. parsing.lib = Null /\ parsing.line = 1 /\ IsParse(parsing) BY DEF Init, NoParse, IsParse
  <2>3. DOMAIN lr = Libraries /\ \A l \in Libraries : IsLib(lr[l]) /\ (lr[l].state = "new" <=> parsing.lib = l)
    BY <1>1, <1>2, <2>1, <2>2 DEF Init
  <2>4. /\ path = [value |-> path.value, owner |-> path.owner] /\ DOMAIN plugins = {"perl", "python"}
        /\ user \in [{"perl", "python"} -> Libraries \union {Null}]
    BY DEF Init
  <2>5. QED BY <2>2, <2>3, <2>4 DEF Init, StateOK, IsParse
<1>4. ParseOK /\ UserOK("perl") /\ UserOK("python") BY DEF Init, ParseOK, UserOK, NoParse
<1>5. ReadyOK BY <1>2 DEF ReadyOK, Ready, NoLibrary
<1>6. StaticOK BY <1>1, <1>2 DEF Init, StaticOK, NoLibrary
<1>7. PathOK BY <1>1 DEF Init, PathOK, HasPath
<1>8. PluginOK("perl") /\ PluginOK("python") BY <1>1 DEF Init, PluginOK, Has
<1>9. AnswerOK BY DEF Init, AnswerOK, NoParse, FunctionsAsConfigured, PathAsConfigured, PluginsAsConfigured
<1>10. QED BY <1>3, <1>4, <1>5, <1>6, <1>7, <1>8, <1>9 DEF IInv

LEMMA Inductive ==
  ASSUME IInv, [Next]_vars
  PROVE  IInv'
<1>1. CASE Next
  <2>1. Step /\ Noted BY <1>1, StepIs
  <2>2. PluginOK("perl")' /\ PluginOK("python")' /\ UserOK("perl")' /\ UserOK("python")'
    BY <2>1, PluginKept, UserKept DEF Languages
  <2>3. QED BY <2>1, <2>2, StateKept, ParseKept, ReadyKept, StaticKept, PathKept, AnswerKept DEF IInv
<1>2. CASE UNCHANGED vars
  <2>1. StateOK' /\ StaticOK' BY <1>2 DEF IInv, vars, environment, StateOK, IsLib, StaticOK
  <2>2. ParseOK' /\ ReadyOK' BY <1>2 DEF IInv, vars, ParseOK, ReadyOK, Ready, This
  <2>3. PathOK' BY <1>2 DEF IInv, vars, environment, PathOK, HasPath, PathNow
  <2>4. ASSUME NEW language \in Languages PROVE PluginOK(language)' /\ UserOK(language)'
    BY <1>2, <2>4 DEF IInv, Languages, vars, PluginOK, UserOK, Has, Read, This
  <2>5. AnswerOK'
    BY <1>2 DEF IInv, vars, environment, AnswerOK, Library, FunctionsAsConfigured, PathAsConfigured,
                PluginsAsConfigured, Chosen, SaysPath, PathMeant
  <2>6. QED BY <2>1, <2>2, <2>3, <2>4, <2>5 DEF IInv, Languages
<1>3. QED BY <1>1, <1>2

LEMMA Invariant == Spec => []IInv
BY Initially, Inductive, PTL DEF Spec

(* Types: at most one library is being made, and a call only waits for the *)
(* static one.                                                             *)
THEOREM TypeCorrect == Spec => []TypeOK
<1>1. IInv => TypeOK
  <2> SUFFICES ASSUME IInv PROVE TypeOK OBVIOUS
  <2>3. at_exit \in Nat
    <3>1. at_exit = IF lr[Static].state = "none" THEN 0 ELSE 1 BY DEF IInv, StaticOK
    <3>2. QED BY <3>1
  <2>4. \A l \in Libraries : IsLib(lr[l]) /\ (lr[l].state = "new" <=> parsing.lib = l) BY DEF IInv, StateOK
  <2>5. /\ parsing.lib \in Libraries \union {Null} /\ parsing.line \in Nat
        /\ waiting # Null => lr[Static].state # "none" /\ parsing.lib \in {Static, Null}
    BY DEF IInv, StateOK, StaticOK
  <2>7. running \in BOOLEAN BY DEF IInv, StateOK
  <2>8. ASSUME NEW l \in Libraries
        PROVE  /\ lr[l].state \in LibraryState /\ lr[l].conf \in DOMAIN Conf \union {Null}
               /\ lr[l].state = "new" <=> parsing.lib = l
    BY <2>4 DEF IsLib
  <2>9. QED BY <2>3, <2>5, <2>7, <2>8, Zenon DEF TypeOK
<1>2. QED BY <1>1, Invariant, PTL

(* Whatever the files say, in whatever order handles are made, used and    *)
(* destroyed, a name means what the file that counts says last.            *)
THEOREM NamesAsConfigured == Spec => []FunctionsAsConfigured
<1>1. IInv => FunctionsAsConfigured BY DEF IInv, AnswerOK, FunctionsAsConfigured
<1>2. QED BY <1>1, Invariant, PTL

(* Whoever asks, the path is the environment's, or else the one the file   *)
(* of the last library to load a module that reads a path says: also when  *)
(* that one failed half-way, as long as it is not destroyed.               *)
THEOREM PathsAsConfigured == Spec => []PathAsConfigured
<1>1. IInv => PathAsConfigured BY DEF IInv, AnswerOK, PathAsConfigured
<1>2. QED BY <1>1, Invariant, PTL

(* The last library to load plug-ins of a language runs its own functions. *)
THEOREM TablesAsConfigured == Spec => []PluginsAsConfigured
<1>1. IInv => PluginsAsConfigured BY DEF IInv, AnswerOK, PluginsAsConfigured
<1>2. QED BY <1>1, Invariant, PTL

(* exit destroys the static pool once, however often it is asked for.      *)
THEOREM PoolDestroyedOnce == Spec => []StaticPoolOnce
<1>1. IInv => StaticPoolOnce BY DEF IInv, StaticOK, StaticPoolOnce
<1>2. QED BY <1>1, Invariant, PTL
=============================================================================
