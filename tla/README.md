# A TLA+ verification of libcrange

libcrange is a C library that parses and evaluates *range expressions*: set
expressions over host names (`node1..10`, `%cluster:SECTION`, `a,-b`,
`a,&/regex/`, `f(x;y)`).  It is single-threaded: what is hard about it is not
parallelism (other programs do change the files it reads at any time) but long-lived
state that is changed piecemeal by nested calls: intrusive hash sets, caches whose
memory is cleared while values read from them are in use, range objects whose
ownership passes from callee to caller, pools that are cleared between calls, tables
that all library objects of a process share, and numeric padding rules that must
survive a round trip.  Paths below are relative to the repository (`src/` here is
`source/src/`, `functions/` is `source/functions/`).

## Inventory

| Part | Code | State | Operations | What makes it correct |
|---|---|---|---|---|
| Set | `src/set.c` | buckets, chains, `members`, `hashsize` | new, destroy, add, remove, get, union, difference, intersection (new and in place), pack, unpack | a finite map with exact counter; every cell findable; loops that mutate what they walk are safe; unpacking gives back what was packed |
| Range objects | `src/range.c` | `nodes` set, `quoted` flag | constructors, union/intersection/difference (new and in place), `range_from_match`, braces, parts | set algebra; `quoted` survives; each temporary owned once |
| Evaluator | `src/ast.c` | the AST, one range per subtree | `range_evaluate` | the value of the expression; no operand used after it is destroyed; `rr->r` valid at the end |
| Parser | `src/range_parser.y`, `src/range_scanner.l` | static `current_rr`, `rr->r` | parse | out of reach of a model at this level: grammar and lexer |
| Numbers in names | `src/range_parts.c`, `src/range_sort.c`, `src/range_compress.c`, `range_from_rangeparts` | none | split, sort, group, pad, expand | expanding a compressed range gives back the set |
| Request | `src/range_request.c` | warnings, warn types, enable flag, result | new, warn, warn_type, disable/enable, compress | warnings only while enabled; nesting keeps the flag |
| Library object | `src/libcrange.c` | caches, variables, function tables, `static_lr` | new, parse_config_file, loadmodule, caches, easy API | registered functions of a loaded config are callable; caches work only when wanted |
| Plug-ins | `src/perl_functions.c`, `src/python_functions.c` | a table of functions per language, one for the process | register the functions of a module, call one | the function that runs is the one the last configuration names |
| YAML clusters | `functions/yamlfile.c` | cache of sections per cluster file, keyed by mtime, in a pool per entry | `_expand_cluster`, `_all_clusters`, has, mem, cluster, clusters, get_cluster, get_groups, group, allclusters | a cached section is the file's; nested evaluation never reads cleared memory |
| nodes.cf clusters | `functions/nodescf.c` | the same, plus a cache of VIP ranges | the same plus vips, get_admin | a caller never changes or destroys a cached set; an answer put together from several questions was true |
| SQLite clusters | `functions/sqlite.c`, loaded by `source/scripts/yaml2sqlite.rb` | entries stamped with the time they were asked for, and the connection, both among the caches | cluster and group (by expansion), has, mem, clusters, allclusters, get_cluster, get_groups (a statement each) | no text older than 30 seconds is evaluated; while nothing changes, `%cluster` and the statements give one answer, up to LIKE |
| mdbm clusters | `functions/sqlite_mdbm.c` | an mdbm of packed sets beside the database | the same, with `set_unpack` in place of rows | what comes out is what the loader packed |
| Host data | `functions/netblock.c`, `hosts-netblocks.c`, `tinydns_ip.c`, `yst-ip-list.c`, `ip.c` | the list of netblocks, four tables built once | vlan, dc, hosts_v, hosts_dc, vlans_dc, ip | the longest netblock wins; the tables agree; a table that is missing is not read |
| Other backends | `functions/group-sqlite.c`, `group-mysql.c`, `pgsql.c` | a connection | group lookup | connection reuse |
| Bindings, command line | `perl/`, `python/`, `ruby/`, `src/main.c` | a handle | those of the easy interface | outside this project |

### How they interact

`libcrange_new` reads a configuration, loads modules and registers their
functions by name.  `range_expand` parses the text into an AST; `range_evaluate`
walks it bottom-up, calls the set operations on range objects and, for
`%cluster`, `@group`, `^admin` and `f(...)`, a registered function.  The cluster
functions read files, or a database, through a cache that lives in the library
object's pool, and evaluate the text they find by calling `do_range_expand` again,
with the same request: evaluation is re-entrant, and the inner evaluation runs
through the same caches, the same `rr->r` and the same warnings as the outer one.
Some state is one for the process, whatever the number of library objects: the
path of the cluster files, the tables of Perl and Python functions, and the static
library that stands in for a missing one.

## Modules

| Module | Models | State and actions |
|---|---|---|
| `Maps` | none: finite maps as functions | `With`, `Over` and `Restricted`, for the prover, which knows no definition of `:>` and `@@` |
| `NameMap` | what `src/set.h` promises | abstract: a map per handle; `Put`, `Delete`, `UnionInto`, ... |
| `HashSet` | `src/set.c` | `hashsize`, `table` (a sequence of cells per bucket) and `members` of each set; a call starts with the action named after it, and the loops of `resize`, `set_union`, `set_diff`, ... run one cell per step (`Rehash...`, `Walk...`) |
| `SetPack` | `set_pack`, `set_unpack`; `mdbm_store` of the loader and `_expand_cluster` of `sqlite_mdbm.c` | extends `HashSet` with what is packed (sizes in bytes included) and the unpacking, a member per step, each a whole `set_add` with its resize |
| `ClusterCache` | `functions/yamlfile.c`, the caches of `libcrange.c`, the warning switch | a stack of frames, one per call or `_expand_cluster`; `StatFails`, `StatHit`, `StatMiss` and `Load` are its stat and its reading, `EvalCall`/`EvalDone` the nested `do_range_expand`, `NextTarget`/`LoopDone` the loops of the range functions; `WriteFile`, `DeleteFile`, `Chmod` are other programs |
| `SqlCache` | `functions/sqlite.c`; of the loader, how it replaces the database | the entries and the connection, a stack of expansions (`Hit`, `Miss`, `Load`, `EvalCall`, `EvalDone`), `Select` for the functions that are one statement; `Update`, `Publish` (a new file under the old name) and `Tick` are the world |
| `RangeEval` | `src/ast.c`, `src/range.c`, `rangefunc_cluster`, `_cluster_vips` | a heap of sets, ranges that point into it, the C stack as frames; one action per case of `range_evaluate` |
| `RangeMeaning` | `src/README.md`, "Range Syntax" | the documented value of an expression (`Meaning`) and what is met while it is evaluated (`Met`), recursive functions over the expressions and the texts they look up |
| `NodeNames` | numbers in names: `atoi`, `%0*d`, the split of `range_parts.c` | operators only, and the documented meaning of `a..b` |
| `RangePartsLoop` | `range_from_rangeparts` | its loop, one name per step |
| `RangeCompress` | `range_sort.c`, `range_compress.c` | the sorted array, `prev`, `count`, `prev_num_str_len`, `groups`; one turn of the loop per step |
| `RangeText` | the two together | composes them: compress, then expand every group; or expand a range by itself |
| `Library` | `src/libcrange.c`, `functions_provided` of `yamlfile.c`, the registering and calling of `perl_functions.c` and `python_functions.c` | the libraries, the file being parsed (a line per step), the path and the plug-ins shared by the process, the static library; `libcrange_new`, `range_easy_...` |
| `NodesFile` | `_cluster_keys` and `_substitute_dollars` of `functions/nodescf.c` | `working_range`, `section`, `cur_section` and the sections; a line per step |
| `NodesCache` | both caches of `functions/nodescf.c` | files, entries, one query split at `stat`, `fopen` and the end of the reading |
| `NodesBackend` | `_expand_cluster` of `nodescf.c` whole, and the functions over one cluster's sections: `mem`, `get_groups`, `get_admin` | composes `NodesCache` with `NodesFile`: the parse runs between `fopen` and the end of the reading, a line per step; a survey asks for `KEYS` and then for each section, while the file changes |
| `HostNets` | `yst-ip-list.c`, `netblock.c`, `hosts-netblocks.c`, `tinydns_ip.c` | both caches of the list, the four tables, the call and its loop, `init_caches` one host per step (`Place`), the files, the switch of the caching and `libcrange_clear_caches` |

`...MC` modules have the values of the constants for TLC, `...Proofs` modules the
proofs.  Definitions that end in `_fault` are slips of the code they stand
beside, kept to confirm that a property notices them; no specification uses them.

## Runs

Each run is a `.cfg` file in this directory: `tlc -config X.cfg M`.

| Run | Module, configuration | What it shows | Bounds |
|---|---|---|---|
| set_three | `HashSetMC`, `HashSetThree.cfg` | `TypeOK`, every element is findable (`Placed`) and there once (`Distinct`), the counter is right after each turn of each loop (`Counted`), indices stay in the table (`CursorInBounds`), and each call is the map update it is named for (`ImplementsMap`) | three handles, so that a result and two arguments are apart or the same; two names; sizes 1, 2, 3, 5, so that two additions resize, and the names share a bucket in some sizes only |
| set_pack | `SetPackMC`, `SetPackAll.cfg` | no set outgrows its buckets (`LoadBounded`), a resize has moved what its cursor passed (`RehashExact`), `RoundTrip`, and every call returns, `set_unpack` too (`PackReturns`) | two handles, so that a set can be added to and taken from itself or another; two names of different lengths, with data and without, which share a bucket of two and not of three |
| yaml_cache | `ClusterCacheMC`, `ClusterCacheAll.cfg` | `CacheCoherent`, `QueryExact`, `WarnSwitch` | three clusters, one of which calls the functions, calls three deep; two changes of a file at any step, to contents good and bad, with a newer or an older time |
| sql_cache | `SqlCacheMC`, `SqlCacheAll.cfg` | `LookupFresh`, `AgreesWithTables`, and a stack overflows only in a circle of texts (`DeepOnlyInCircles`) | three clusters, one name LIKE another, and three nodes, one of them LIKE another; two databases whose texts name one another in opposite directions, so that entries of both times make a circle; entries good for one of three seconds; one change of the database, its file or the switch, one second with failures, at any step |
| eval_all | `RangeEvalMC`, `RangeEvalAll.cfg` | `OwnedOnce`, `ResultLive`, `ResultExact` and `WarnedExactly` against the documentation, `VipsKept`, `EvaluationEnds` | operators two deep over fourteen atoms, braces, patterns (one of them bad), clusters that name one another and one that does not parse; VIPs only where nothing changes them |
| eval_vips | `RangeEvalMC`, `RangeEvalVips.cfg` | violated: `VipsDocumented`, see Findings | the VIPs of two clusters, and four expressions |
| range_text | `RangeTextMC`, `RangeTextHosts.cfg` | `PaddedAsDocumented` for all ranges; `RoundTrip`, `FewestGroups`, `SlotsSuffice`, `DigitsMeasured` for all subsets of some names | base 3, up to three digits: all changes of width, and zeros in front; five groups fit |
| compress_mixed | `RangeTextMC`, `RangeTextMixed.cfg` | violated: `RoundTrip` | bare numbers with a plain word |
| library | `LibraryMC`, `LibraryAll.cfg` | `FunctionsAsConfigured`, `PathAsConfigured`, `PluginsAsConfigured`, `StaticPoolOnce` | two handles, nine files: lines in each order that matters, modules of three languages, and each way to fail; a default file that is good and one that is not; `LIBCRANGE_YAML_PATH` set and not |
| nodes_backend | `NodesBackendMC`, `NodesBackendAll.cfg` | `SectionsExact` and `EntriesKept` for every file parsed, `AnswerCurrent`, and what a survey reports was so (`SurveyTrue`) | all files of up to three lines of eight kinds, some of six; three files that replace one another, vanish or cannot be read, in which a node moves between sections; three seconds, any number of changes |
| nodes_empty | `NodesFileMC`, `NodesFileEmpty.cfg` | violated: `KeyNodesDocumented` | all files of up to four lines, some of six |
| host_nets | `HostNetsMC`, `HostNetsAll.cfg` | `TablesAgree`, `AnswerExact`, `CrashesOnly`, `CurrentWhenCleared` | addresses of two bits: nested, repeated, misaligned and zero-length netblocks; hosts that share a short name; five lists and four files of DNS data, changed and caches cleared at any step; eleven calls |

Deadlock is checked everywhere but in `library`, `host_nets` and `sql_cache`, where
an assertion, `exit`, `abort`, a read at address 0 or the end of the stack ends the
program.

What each property says of the code stands above it in its module.  Three ideas
recur.  *Ghost variables* (`versions`, `dark`, `steady` in `ClusterCache`; `seen`,
`failed`, `asked` and a frame's `until` in `SqlCache`; `during`, `twice`, `refused`
in `NodesCache` and `moments` in `NodesBackend`; `reader`, `user` in `Library`;
`listRead`, `missed`, `steady` in `HostNets`) record what a correct answer depends on and the
program does not keep.  *Times are not versions*: a cache that compares modification
times cannot see a change that keeps the time, so the properties are about files
whose versions have different times (`Distinguished`, `twice`).  *Reference
definitions* (`Meaning`, `CallValue`, `MeantText`, `Longest`, `Genuine`, ...) compute
the answer from the inputs alone, never from the caches.

Bounds in the specifications themselves are `MaxChanges` (changes of files in
`ClusterCache`, of the database, its file and the switch in `SqlCache`), `Depth`
(how deep the reference definition of `ClusterCache` follows calls), `MaxTime`
(seconds in `NodesCache` and `SqlCache`), `MaxFailing` (seconds of `SqlCache` in
which a query fails), and in `NodesBackend` `Changing` (the files other programs
write), `Steady` (a file that is none of them stays) and `First` (it is written
before anything else happens).  `MaxDepth` of `SqlCache` is no bound but the room
on the C stack.  Everything else is finite by itself.

### Fairness

The library runs in its caller's thread and never waits: a loop that has begun
goes on.  `SetPack` therefore has weak fairness of `Running`, the turns of the
loops of a call and of `set_unpack`, and `RangeEval` of `Step`, the steps of a
running evaluation.  Calls and queries by the program, and changes of files by
others, have none; no other specification has any.

## What is proved

`tlapm M.tla` checks each module.  All theorems are safety properties of the
whole specification, for all values of the constants that satisfy the named
assumptions.

- `HashSetProofs`, for any hash function, primes, size hints and any number of
  handles and names: `TypeCorrect`, `AlwaysPlaced`, `AlwaysDistinct`,
  `AlwaysCounted`, `AlwaysRehashExact`, `AlwaysInBounds`, `AlwaysLoadBounded`,
  and the refinement `RefinesMap`. The inductive invariant `IInv` says that
  every allocated table is well formed (`SetsOK`: typed, placed, distinct and
  counted at once, because a cell that is not in its bucket could be added a
  second time), that the running call works on allocated sets that are the ones
  its loop needs (`CallOK`), and that a resize has moved what its cursor has
  passed (`ResizeOK`), without which nothing is known of the table it puts in
  place. For the load the invariant is `Roomy`: the names a running call can
  still reach, counted once each, fit in its destination before the loop over
  them begins, because no loop resizes. The refinement needs of a call only
  what it will leave: `Final` computes it from the map the set is now, the
  cells ahead of the cursor and the other set, and a lemma per loop step shows
  that copying, skipping or dropping a cell changes its arguments and not its
  value. `WalkOK` adds what that takes beyond `IInv`: the set built by a call
  is none of those it is made of, and `set_diff` walks its first set to the end
  although it takes the bound from the result.  Of `SetPack`: `AlwaysBack`
  (`RoundTrip`) and `PackUsesSets`, which carries all of this over to sets that are
  packed and unpacked between the other calls.  What is written are the cells of all
  chains (`FlattenIs`), `MemberSize` and `Written` agree on each, so that the size is
  where the last one ends; offsets rise, so that `p` stands at one member only
  (`NextMember`), and the set being filled is, as the map `RefinesMap` makes of it, the
  map of the members before `p` (`UnpackOK`), while resizes and loops do not show.
  That calls come to their end is proved up to fairness: `StepsDescend` gives four
  numbers (bytes to unpack, loops still to run, buckets and cells before the cursor)
  which every step of a loop or of `set_unpack` lowers in the lexicographic order,
  well-founded by `OrderEnds`; the point is that copying cannot lengthen the chain it
  walks, since a set that is its own source has the name already, and that unlinking
  shortens it.  `CallsDescend` is the same for whole behaviours.
  Assumed besides: `BytesAssumption`, and that 0 is among the size hints.
- `ClusterCacheProofs`, for any clusters, contents, queries and depth:
  `TypeCorrect`, `AlwaysCoherent`, `AlwaysSwitched`, `AlwaysExact`.  Coherence
  alone is not inductive: `CacheOK` adds of which version an entry holds the
  sections and that no earlier one has its time, `LoadOK` what is known between
  `stat` and the end of the reading, and `SwitchOK` that the switch is on below
  every `has` that will restore it.  `AlwaysExact`: let V be values of the sections
  that agree with their texts (`Follows`); then in a request that nothing disturbs
  what each frame has collected, what it still has to hear of and what the frame
  above it is working on are together what V makes of it (`ExactInv`), because a
  section comes from its file or from an entry that `AlwaysCoherent` speaks about.
  That the values of `SectionValue[Depth]` agree with the texts (`DeepEnough`) takes
  the theorem's hypothesis, `WellFounded(rank)`: sections can be ranked below
  `Depth` so that calls in a text only reach lower ranks (else the program does not
  end), and no text calls `get_cluster`, whose value is up to the order of a
  directory.  `ClusterCacheMC` gives the ranks of its texts and assumes this of
  them, so that the run evaluates it.  Assumed: `CallsAssumption` and
  `SectionAssumption` (calls and files name clusters and sections of the model),
  times are naturals.
- `SqlCacheProofs`, for any databases, LIKE relation, failures and times:
  `TypeCorrect`, `AlwaysFresh`, `AlwaysCircles`, `AlwaysAgrees` and `DepthBounded`.
  An entry gets the time before the query, so its texts are at least as new as its
  stamp says: `CacheOK` says so of every entry (and that it is complete unless a
  query failed) and `StackFresh` of every expansion, against `seen`, which only
  grows.  `AlwaysCircles`: each frame was named by the text of the one below, which
  was asked for since the request began (`Chained`); a stack with room for one frame
  per section whose text calls another, and two more, therefore has one of them twice
  when it overflows, and what lies between is a circle.  (The instance has three such
  sections and room for six.)  `AlwaysAgrees`: while nothing changes, what each frame
  has collected, what its text still names and what the frame above it will return
  are together what the table has for its section (`ExactWhenSettled`); a lemma for
  a push, a return and a change of the top frame each.  Its hypothesis is that the
  rows are those the loader writes (`ExpandedRows`, which `SqlCacheMC` assumes, so
  that the run evaluates it).  The statements compare with LIKE and the evaluation
  does not: what agrees is that a node is LIKE one in what `%cluster` says, for names
  of clusters that are LIKE themselves only (`LiteralNames`).  `DepthBounded`: if the texts of all databases there
  will be can be ranked so that each names lower ranks only, frames have falling
  ranks, and a stack with room for one more frame than ranks does not overflow.  That
  each database has such ranks is not enough (run `sql_cache`).  Assumed:
  `DatabaseAssumption`, `LikeAssumption`, `QueriesAssumption`.
- `RangeEvalProofs`, for any expressions, texts, patterns and cached VIPs:
  `TypeCorrect`, and where the cached VIPs are spared, `AlwaysOwned`, `AlwaysLive`,
  `AlwaysKept`, `AlwaysExact`, `AlwaysWarned`, `StackBounded` and `EvaluationDescends`
  (with `RequestsDescend`).  They are spared (`SparesVips`) if
  the name of a cluster's VIPs is only written to ask for them, alone or on the right
  of a difference, and the cluster has some; no other name written ends in `:VIPS`, so
  that none that is computed does.  `RangeEvalMC` assumes `SparesVips` of run
  `eval_all`, so that TLC evaluates it, and not of `eval_vips`, which shows what
  happens otherwise: a union adds to the cached set, and a loop of `cluster` that
  gets an empty one keeps its own and destroys it.  Where there are no cached VIPs
  there is nothing to spare (`NoVipsSpares`).

  `TypeInv` says how frames nest,
  `OwnInv` that the ranges of all frames point to live sets, all different, and that
  `rr->r` does when no call is active.  Over it `ExactInv` says what each frame
  knows: the ranges of a `range_evaluate` are the values of its operands, one by one
  (`Answers`); what a `rangefunc_cluster` has collected, with what is coming from the
  text above it, is what the names looked up so far stand for (`Collects`); the
  warnings of all of these have been recorded, and no others.  A frame above another
  evaluates what that one waits for (`Linked`), so a return passes on the value due.
  Ownership is needed for it: a step changes or destroys only sets of the frame on
  top, hence those below still hold what they held.  With cached VIPs it takes to
  know where their sets can be.  `SparesInv` says that a range is a cached set only
  if its expression asks for one (`Spared`) and that all other names are plain; that
  a loop of `cluster` over such a name has an empty set of its own until it has the
  cached one, which is bigger and hence the one kept (`Asking`), and that other loops
  meet none (`NotAsking`); and that a loop that asks never waits.  So no call below
  the top holds a cached set (`BelowUncached`), and the one about to be handed out is
  nobody else's (`VipsFree`), which is what `OwnInv` needs.  An
  expression in which a pattern or a look-up sees the quotes of a quoted name
  (`Exposed`) is outside the theorems about values and warnings, as it is outside
  both properties, and outside those about depth and descent.  Assumed:
  `SyntaxAssumption` (what the parser builds), `VipsAssumption` (one finite set for
  each cached name, which no text has), and `MeaningAssumption` and
  `MetAssumption`: the equations that define `Meaning` and `Met` have a solution.
  They do unless texts look each other up in a circle; TLC computes both functions
  and so checks the assumptions for the texts of the run.

  That a request cannot go on for ever takes more: `NoCircles`, that what is met in
  an expression is finite and nothing is met again below itself, for the texts as for
  the syntax trees.  `range_evaluate` does not check it, a circle overflows the C
  stack; `RangeEvalMC` assumes it of both runs.  Then what is met becomes less from a
  call to the one above it (`HeightFalls`), so that the calls are at most twice as
  deep as there are expressions met (`StackBounded`).  Each has a number of things to
  do: operands to evaluate and a result to return, or names to look up and a range to
  merge.  `Remaining` is the row of these numbers from the outermost call to the
  innermost, with zeros up to the bound, and the order on it is lexicographic, hence
  well-founded (`OrderEnds`): a call that is made may have anything to do, since the
  one that makes it has less (`TopDescends`), and one that returns leaves less to the
  one below (`ReturnDescends`).
- `RangeCompressProofs`, for any base of the digits, names, ranges and size of the
  array: `TypeCorrect`, `AlwaysSlots`, `AlwaysMeasured`, `AlwaysFewest`,
  `AlwaysPadded`, `AlwaysBack`.  The order of `compare_parts` is total and
  strict on names (two numbers that differ have a first digit in which they do),
  so counting what is before a name is a bijection between the names and the
  places of the sorted array.  Over it `IInv` keeps the group that is open within
  the names behind the loop and its last number within an `int`; hence no number
  wraps round to the 0 that stands for a name without digits.  `JInv` says that
  the groups closed so far cover the places behind the loop, each of them a run
  that cannot be longer, and `EInv` that the turns of `range_from_rangeparts`
  have added the numbers from the first on.  The rest is arithmetic of numerals: a
  numeral is determined by its value and width, cutting off the common prefix
  leaves a suffix that filling up restores, and `%0*d` gives the digits back.
  `TInv` joins them: what the groups expanded so far have given are the names of
  their runs.  `AlwaysFewest` and `AlwaysBack` are about `Ordinary` sets: the
  empty name is not in them, and no word stands between a bare 0 and a bare
  number as wide as it; without that the statement is false (run
  `compress_mixed`), and the proof shows that this is the only exception.  Assumed:
  `AskedAssumption` (finite sets of names whose numbers fit an `int`),
  `MaxAssumption`, `IntMaxAssumption`, `BaseAssumption`.
- `LibraryProofs`, for any files, modules, handles and orders of calls:
  `TypeCorrect`, `NamesAsConfigured`, `PathsAsConfigured`, `TablesAsConfigured`,
  `PoolDestroyedOnce`.  The invariant says of a library being made
  that its tables have the last of the lines read so far for each name, and of one
  that is made, of all lines (`StateOK`, `ParseOK`, `ReadyOK`); of what the process
  shares, that it is as the library left it that set it last, unless that is gone
  (`PathOK`, `PluginOK`, `UserOK`).  Of the path this includes a library that failed
  half-way: what it has set is what stands above the last module's line it reached
  (`PathReached`), whoever answers.  Where `LIBCRANGE_YAML_PATH` is set no file counts.  Assumed: `ConfAssumption`, `ModuleAssumption`
  (names of modules are none of the languages'), `NullAssumption`.
- `NodesCacheProofs`, for any lines and any number of seconds: `TypeCorrect` and
  `AlwaysCurrent` of `NodesCache`; `AlwaysCurrentHere`, `AlwaysSections`,
  `AlwaysKept` and `AlwaysTrue` of `NodesBackend`.  For the cache, the invariant adds
  that no time is in the future, and that an entry with the time of its file has the
  lines of the file, unless the file was changed twice in a second, cannot be opened
  or is being read.  For the parser, `Progress` says after every line what
  `section`, `cur_section` and `working_range` are of the lines read so far (`Walk`),
  and what the sections hold: the texts of the finished blocks while the file is
  regular (`Collected`), every entry so far if no name is repeated (`Holding`); the
  two names differ exactly between a name and the first entry below it, which is
  where `working_range` still belongs to the section before.  The functions that say
  what a text means (`SlashOpen`) or put a section's entries in order (`Nth`) are
  related to the parser's by counting.  For the surveys, `KeptInv` says that
  what is kept was made of the lines it is kept for, hence that an answer without a
  warning is what the file said at a moment of the query, and `Truthful` that what is
  in the index was so at some moment, and that what was so all the time is in the
  index or still to be asked for.  `AlwaysTrue` has the hypothesis `AllPlain`: the
  files other programs write are regular and give the special names to no section
  (`NodesBackendMC` assumes it of its files, so that the run evaluates it; the other
  files are parsed and asked too, and no survey is made of them).  Assumed:
  `TimeAssumption`, `ChangingAssumption`, `FileAssumption` (what a line can be),
  `KeysAssumption` (the special names differ), `NullAssumption` (no section is a null
  pointer).
- `HostNetsProofs`, for any files, queries and width of an address: `TypeCorrect`,
  `AlwaysAgree`, `AlwaysExact`, `AlwaysCrashesOnly`, `AlwaysCurrent`.  `Made` says
  what four tables hold that were made of some of the hosts; `BuildOK` that those
  being built were made of the hosts placed so far, and that a host placed while
  there was no list was missed; `TablesOK` that the finished ones were made of all;
  `SteadyOK` that while no file has changed since the caches were cleared what they
  hold, and what is being built, is of the files as they are.
  A lemma shows that the loop over lengths of a netblock, from the longest down,
  finds the longest around an address and the last line that names it.  Assumed:
  `ListAssumption`, `DnsAssumption`, `QueryAssumption`, `WidthAssumption`.

The library's induction theorems cannot be used by the provers; where a proof
needs one (the greatest line, the first digit that differs) it takes a least
counterexample, which `WFMin` gives, or a set of naturals that has 0 and with each
number the next (`Induct`); that a recursive function is what its equation says
(`Recursion`) is proved from that.

Only model-checked: the liveness properties `EvaluationEnds` and `PackReturns`,
which need `ENABLED`.  Of both the decreasing measure is proved (`EvaluationDescends`,
of requests that are not `Exposed`, and `StepsDescend`); left to TLC is that fairness
then brings the end about, and that there always is a next step.

## Findings

- `eval_vips`: `_cluster_vips` hands out the cached set itself, and evaluation
  changes it: after a union of a cluster's VIPs with another node the next
  `%cluster:VIPS` has that node among them, and the file has not.  (A difference
  takes nodes out, and a loop of `cluster` can destroy the set.)
- `compress_mixed`: after a name without digits `prev_num_str_len` keeps the
  width of the group before, and bare numbers around a word compress to a text
  that does not expand to them.
- `nodes_empty`: a section without entries at the end of nodes.cf takes over
  those of the section before it.

Noticed and left without a run of their own:

- *Evaluation and configuration.*  `r,-/regex/` matches names with their quotes
  (`range.c:160`); whether a union is quoted depends on which operand is bigger
  (`ast.c:43`); without a configuration file `python_functions` is not initialised
  (`libcrange.c:139`); the path a configuration gives to `yamlfile.c:88` stays that of
  the process when its library is destroyed, and is then in a pool that is gone.
- *Plug-ins.*  `python_interp` is never set, so that each `pythonmodule` line runs
  the boot text again and empties the table (`python_functions.c:83`): functions of
  the modules before are still registered, and a call of one iterates over a null.
  The list of a Python module's functions has no NULL at its end, borrowed
  references are released, the prefix is ignored, and `python_inc_path` calls
  `libcrange_load_file` with arguments it does not take.  `%_FUNCTIONS` is one for
  the process: a library made later takes over the functions of the same name of
  an earlier one (`perl_functions.c:30`).
- *yaml and nodes.cf.*  A file that does not parse is cached as one with no
  sections, and stays so until its time changes (`yamlfile.c:299`); the last
  character of a line of nodes.cf is dropped even when it is no newline, and an
  indented line of blanks is stripped past its start (`nodescf.c:342`, `352`); a
  node that moves from one section to another while `mem`, `get_groups` or
  `get_admin` runs can be missed in both or found in both.
- *SQLite and mdbm.*  The loader renames a new file over the database
  (`yaml2sqlite.rb:214`), which a connection that is kept never sees until the
  caches are cleared; names of clusters, nodes, keys and values are compared with
  LIKE, so that `_` and `%` in them match others, and letters of the other case; a step that fails ends the rows silently, and what there is is
  kept for 30 seconds; a statement that cannot be prepared is kept as a cluster
  without sections; `get_cluster` and `get_groups` look at the first node only
  (`sqlite.c:423`), and `get_cluster` returns all of its clusters where the comment
  there says one at most; `has` asserts when its statement cannot be prepared while
  warnings are off (`sqlite.c:335`).  Entries of different times can name one
  another in a circle although no database ever did.  The loader asks for the
  nodes, and then packs them by a second evaluation (`yaml2sqlite.rb:143`, `145`);
  an empty set that was packed would be read past its end (`set.c:523`).
- *Host data.*  The comparison of times in `tinydns_ip.c:53` can never see an
  entry, because its caller runs once until the caches are cleared, entry and all; the default domain is cut off together
  with the character before it, be it a dot or not (`hosts-netblocks.c:52`).

## What is not modelled

- The parser and scanner: `RangeEval` starts from the trees they build, and its
  `SyntaxAssumption` says which those are.  Patterns are a relation `Match`.
- Of the easy interface, the memory of what a call returns: a copy, but for
  `range_easy_expand_as_packed_set`, whose result is in the query's pool.
- A program that changes `LIBCRANGE_YAML_PATH` while it runs.  `nodescf_path` is read
  as `yaml_path` is, and is not modelled a second time.
- Texts of warnings, dumps and logs.  Which warnings there are is modelled.
- Clusters of `yamlfile.c` that name themselves: evaluation of such a text does not
  end.  The instances have no such circle, and `EvaluationEnds` is about those.
  `SqlCache` has circles, and a stack that overflows in them.
- Numbers beyond an `int` in names, where `atoi` is undefined.
- Of `nodescf.c`, the functions over all clusters (`has`, `clusters`, `get_cluster`,
  `allclusters` with its IGNORE file), and the parser of vips.cf, whose file is a
  set of lines; both caches are in `NodesCache`.
- Of the mdbm backend, that its two files are renamed one after the other; its
  functions that read the database are those of `sqlite.c`.
- `ip`, the SQL servers, the bindings and the command line: one call, one answer of
  another system, and nothing kept but a connection.
- The interpreters of the plug-ins, and the conversion of ranges to their lists.
- Reading a file is one step in `ClusterCache` (whose caller sees the old or the
  new contents) and in `HostNets`; `NodesCache` opens and reads in two, and
  `NodesBackend` parses in between.  Reading rows is one step in `SqlCache`, in
  which it can break off.  The clock does not go backwards.
- Memory that runs out: the C code does not handle it.

## Plan

Done: the modules above, in the order sets, evaluator, yaml cache, names, library,
nodes.cf, host data, then packing, the SQLite cache and the nodes.cf backend as a
whole; and proofs of every component with a cache, of the evaluator's ownership,
its values, its warnings and the cached VIPs it works on, of the sets, with their refinement and packing, of the
compression and its expansion, and that what the three cluster backends answer is
what their files, or tables, say.  What could
follow, in this order:

1. The functions of `nodescf.c` over all clusters, with the IGNORE file.
2. The two renames of the loader: what `cluster` of the mdbm and `mem` of the
   database say between them.
