--------------------------- MODULE RangeCompress ---------------------------
(***************************************************************************)
(* do_range_compress of range_compress.c, over the names do_range_sort     *)
(* puts in order: runs of numbers become groups first..last.               *)
(***************************************************************************)
EXTENDS NodeNames, FiniteSets

CONSTANTS
  Asked,       \* the sets of names to compress
  MAX_NUM_GROUPS

(* Numbers too big for an int are left out: atoi does not define them. *)
ASSUME AskedAssumption ==
  \A S \in Asked : /\ S \subseteq NodeName /\ IsFiniteSet(S)
                   /\ \A x \in S : atoi(x.digits) \in 0..IntMax /\ (x.digits = <<>> => x.domain = 0)
ASSUME MaxAssumption == MAX_NUM_GROUPS \in Nat \ {0}

VARIABLES
  nodes,        \* the names to compress
  sorted,       \* sorted_nodes
  i,            \* the name the loop is at
  prev, count,  \* the first name of the current group, and how many follow
  prev_num_str_len,
  groups,       \* the groups that are closed
  pc,           \* "idle", "loop" or "returned"
  warned        \* there were too many groups

loop == <<prev, count, prev_num_str_len>>
vars == <<nodes, sorted, i, loop, groups, pc, warned>>

(***************************************************************************)
(* range_parts.c and range_sort.c.  A name without digits has num_str      *)
(* NULL, the empty prefix and number 0.                                    *)
(***************************************************************************)
node_to_parts(x) ==
  IF x.digits = <<>>
  THEN [prefix |-> 0, domain |-> 0, num |-> 0, num_str |-> <<>>, full_name |-> x]
  ELSE [prefix |-> x.prefix, domain |-> x.domain, num |-> atoi(x.digits), num_str |-> x.digits,
        full_name |-> x]

(* Digits sort before letters; among equal numbers, zeros in front tell.   *)
FullNameBefore(x, y) ==
  \/ x.digits # <<>> /\ y.digits = <<>>
  \/ x.digits = <<>> /\ y.digits = <<>> /\ x.prefix < y.prefix
  \/ \E k \in 1..Len(y.digits) :
       /\ \A j \in 1..k - 1 : j <= Len(x.digits) /\ x.digits[j] = y.digits[j]
       /\ k > Len(x.digits) \/ x.digits[k] < y.digits[k]
       /\ x.digits # <<>>

compare_parts(x, y) ==
  LET a == node_to_parts(x)
      b == node_to_parts(y)
  IN \/ a.prefix < b.prefix
     \/ a.prefix = b.prefix /\ a.domain < b.domain
     \/ a.prefix = b.prefix /\ a.domain = b.domain /\ a.num < b.num
     \/ a.prefix = b.prefix /\ a.domain = b.domain /\ a.num = b.num /\ FullNameBefore(x, y)

do_range_sort(S) ==
  [k \in 1..Cardinality(S) |->
     CHOOSE x \in S : Cardinality({y \in S : compare_parts(y, x)}) = k - 1]

(***************************************************************************)
(* A group is its first name's parts and how many names follow.            *)
(***************************************************************************)
Group(parts, n) == [parts |-> parts, count |-> n]

FirstDifference(s1, s2) ==
  CHOOSE k \in 1..Len(s1) : s1[k] # s2[k] /\ \A j \in 1..k - 1 : s1[j] = s2[j]

ignore_common_prefix(n1, n2) ==
  LET s1 == apr_itoa(n1)
      s2 == apr_itoa(n2)
  IN IF Len(s1) < Len(s2) THEN s2 ELSE SubSeq(s2, FirstDifference(s1, s2), Len(s2))

fmt_group_fault(g) ==
  [prefix |-> g.parts.prefix, first |-> g.parts.num_str,
   last |-> ignore_common_prefix(g.parts.num, g.parts.num + g.count + 1), domain |-> g.parts.domain]
fmt_group(g) ==
  [prefix |-> g.parts.prefix, first |-> g.parts.num_str,
   last |-> ignore_common_prefix(g.parts.num, g.parts.num + g.count), domain |-> g.parts.domain]

(***************************************************************************)
(* do_range_compress.                                                      *)
(***************************************************************************)
EmptyName == [prefix |-> 0, digits |-> <<>>, domain |-> 0]

init_prev_parts_fault == [node_to_parts(EmptyName) EXCEPT !.num = -1]
init_prev_parts == [node_to_parts(EmptyName) EXCEPT !.num = -2]

Init ==
  /\ nodes = {} /\ sorted = <<>> /\ i = 1
  /\ prev = init_prev_parts /\ count = 0 /\ prev_num_str_len = -1
  /\ groups = <<>> /\ pc = "idle" /\ warned = FALSE

do_range_compress(S) ==
  /\ pc = "idle"
  /\ nodes' = S /\ sorted' = do_range_sort(S)
  /\ pc' = IF S = {} THEN "returned" ELSE "loop"
  /\ UNCHANGED <<i, loop, groups, warned>>

(* The caller has the text, and the call's variables are gone. *)
Return ==
  /\ pc = "returned"
  /\ nodes' = {} /\ sorted' = <<>> /\ i' = 1
  /\ prev' = init_prev_parts /\ count' = 0 /\ prev_num_str_len' = -1
  /\ groups' = <<>> /\ pc' = "idle" /\ warned' = FALSE

Looking == pc = "loop" /\ i <= Len(sorted)
Parts == node_to_parts(sorted[i])

Follows_fault ==
  Parts.prefix = prev.prefix /\ Parts.domain = prev.domain /\ Parts.num = prev.num + 1

(* All but the widths of the numbers, which are compared last. *)
Follows ==
  /\ Parts.prefix = prev.prefix /\ Parts.domain = prev.domain
  /\ Parts.num = Wrap(prev.num + count + 1)

SameWidth == Len(Parts.num_str) = prev_num_str_len

Join ==
  /\ Looking /\ Follows /\ SameWidth
  /\ count' = count + 1 /\ i' = i + 1
  /\ UNCHANGED <<nodes, sorted, prev, prev_num_str_len, groups, pc, warned>>

Starts == Looking /\ ~(Follows /\ SameWidth)

Closed == IF prev.full_name = EmptyName THEN groups ELSE Append(groups, Group(prev, count))

Full_fault == FALSE
Full == Len(Closed) = MAX_NUM_GROUPS /\ Closed # groups

(* A name without digits leaves prev_num_str_len as it was. *)
StartGroup ==
  /\ Starts /\ ~Full
  /\ groups' = Closed
  /\ prev' = Parts /\ count' = 0 /\ i' = i + 1
  /\ prev_num_str_len' = (IF Parts.num_str = <<>> THEN prev_num_str_len ELSE Len(Parts.num_str))
  /\ UNCHANGED <<nodes, sorted, pc, warned>>

TooManyGroups ==
  /\ Starts /\ Full
  /\ groups' = <<>> /\ pc' = "returned" /\ warned' = TRUE
  /\ UNCHANGED <<nodes, sorted, i, loop>>

Finish ==
  /\ pc = "loop" /\ i > Len(sorted)
  /\ groups' = Append(groups, Group(prev, count)) /\ pc' = "returned"
  /\ UNCHANGED <<nodes, sorted, i, loop, warned>>

Next ==
  \/ Join \/ StartGroup \/ TooManyGroups \/ Finish \/ Return
  \/ \E S \in Asked : do_range_compress(S)

Spec == Init /\ [][Next]_vars

(***************************************************************************)
(* Properties.                                                             *)
(***************************************************************************)

(* Types: the names behind the loop are in the groups or in the current    *)
(* one, and every group has its place in the array.                        *)
PartsOf == {node_to_parts(x) : x \in nodes}

TypeOK ==
  /\ nodes \in Asked \union {{}} /\ sorted \in [1..Cardinality(nodes) -> nodes]
  /\ i \in 1..Len(sorted) + 1
  /\ prev \in PartsOf \union {init_prev_parts} /\ count \in 0..Len(sorted)
  /\ prev_num_str_len \in Nat \union {-1}
  /\ groups \in Seq([parts : PartsOf, count : 0..Len(sorted)])
  /\ pc \in {"idle", "loop", "returned"} /\ warned \in BOOLEAN

(* No group is written behind the end of the array on the stack: one slot  *)
(* is always left for the group that is still open.                        *)
SlotsSuffice == Len(groups) <= MAX_NUM_GROUPS /\ (pc = "loop" => Len(groups) < MAX_NUM_GROUPS)

(* num_str is NULL for a name without digits, and strlen is never asked    *)
(* about it: such a name's 0 never comes after the group before it.        *)
DigitsMeasured == Looking /\ Follows => Parts.num_str # <<>>

(* A number continues a run if it is the next one, written as wide.        *)
Continues(x, y) ==
  /\ x.digits # <<>> /\ y.prefix = x.prefix /\ y.domain = x.domain
  /\ Len(y.digits) = Len(x.digits) /\ atoi(y.digits) = atoi(x.digits) + 1
Runs == Cardinality({k \in DOMAIN sorted : k = 1 \/ ~Continues(sorted[k - 1], sorted[k])})

(* There are as few groups as the sorted names have runs, and the text is  *)
(* given up only when these are more than the array holds.                 *)
FewestGroups ==
  pc = "returned" /\ nodes # {} =>
    IF warned THEN Runs > MAX_NUM_GROUPS ELSE Len(groups) = Runs /\ Runs <= MAX_NUM_GROUPS
=============================================================================
