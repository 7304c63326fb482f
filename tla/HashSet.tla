------------------------------ MODULE HashSet ------------------------------
(***************************************************************************)
(* The chained hash table of src/set.c, one loop iteration per step: a     *)
(* call starts with the action named after it, and the loops of resize,    *)
(* set_union, set_diff ... run as the steps Rehash... and Walk....  Between *)
(* two calls pc is "idle".  A chain is the sequence of its cells from the  *)
(* bucket's head; string_hash is any function from names to naturals.      *)
(***************************************************************************)
EXTENDS Integers, Sequences, FiniteSets, SequencesExt, Maps

CONSTANTS Handle,    \* set objects; a handle that was destroyed may be reused
          Name,      \* element names
          Value,     \* data pointers
          Hash,      \* string_hash
          Primes,    \* prime_list
          Hints      \* size hints the callers of set_new pass

ASSUME HashAssumption   == Hash \in [Name -> Nat]
ASSUME PrimesAssumption == Primes \subseteq Nat \ {0}
ASSUME HintsAssumption  == Hints \subseteq Nat

VARIABLES hashsize,  \* hashsize[h], 0 when h is not allocated
          table,     \* table[h][i]: the chain of bucket i
          members,   \* members[h]: the counter kept beside the table
          pc,        \* "idle", "resize" or "add" or "walk": the loop running
          call,      \* the call being executed and its arguments
          new_n,     \* resize's n, 0 when no resize is running
          new_table, \* resize's new_table
          i, j       \* the loops' cursor: bucket i, j-th cell of its chain

vars == <<hashsize, table, members, pc, call, new_n, new_table, i, j>>

Cell == [name : Name, data : Value]
Ops  == {"add", "union_inplace", "diff_inplace", "union", "union2", "diff", "intersect"}

(* Buckets 0 .. size-1, each with its chain. *)
EmptyTable(size) == [b \in 0..size - 1 |-> <<>>]

NoCall == [op |-> "none"]
Idle   == pc = "idle"
Live(h) == hashsize[h] # 0

(***************************************************************************)
(* Helpers of set.c.                                                       *)
(***************************************************************************)

(* The assertion at the head of next_prime. *)
Fits(n) == \E p \in Primes : n < p

(* Definitions named ..._fault are slips of the code they stand beside, kept *)
(* to confirm that the properties below notice them.                        *)
next_prime_strict_fault(n) == CHOOSE p \in Primes : p > n /\ \A q \in Primes : q > n => p <= q

next_prime(n) == CHOOSE p \in Primes : p >= n /\ \A q \in Primes : q >= n => p <= q

set_hash(n, size) == Hash[n] % size

Chain(h, n) == table[h][set_hash(n, hashsize[h])]

(* Where a lookup stops: the first cell of the chain that has the name. *)
Found(c, n) == {k \in DOMAIN c : c[k].name = n /\ \A l \in 1..k - 1 : c[l].name # n}

set_get(h, n) == Found(Chain(h, n), n) # {}

(* The three ways a table changes, at bucket b (and its k-th cell). *)
Prepended(T, b, cell)   == [T EXCEPT ![b] = <<cell>> \o @]
Overwritten(T, b, k, d) == [T EXCEPT ![b] = [T[b] EXCEPT ![k] = [name |-> T[b][k].name, data |-> d]]]
Unlinked(T, b, k)       == [T EXCEPT ![b] = RemoveAt(@, k)]

set_add_noresize_fault(h, n, d) ==
  /\ table' = [table EXCEPT ![h] =
                 Prepended(@, set_hash(n, hashsize[h]), [name |-> n, data |-> d])]
  /\ members' = [members EXCEPT ![h] = @ + 1]

(* Overwrite the data of a name that is there, else prepend a new cell. *)
set_add_noresize(h, n, d) ==
  LET b == set_hash(n, hashsize[h]) IN
  \/ \E k \in Found(Chain(h, n), n) :
       /\ table' = [table EXCEPT ![h] = Overwritten(@, b, k, d)]
       /\ UNCHANGED members
  \/ /\ ~set_get(h, n)
     /\ table' = [table EXCEPT ![h] = Prepended(@, b, [name |-> n, data |-> d])]
     /\ members' = [members EXCEPT ![h] = @ + 1]

Unlink_fault(h, b, k) == /\ table' = [table EXCEPT ![h] = Unlinked(@, b, k)]
                         /\ UNCHANGED members

Unlink(h, b, k) == /\ table' = [table EXCEPT ![h] = Unlinked(@, b, k)]
                   /\ members' = [members EXCEPT ![h] = @ - 1]

(***************************************************************************)
(* resize(s, hint): the test, and the loop that moves every cell to the    *)
(* head of its new chain.                                                  *)
(***************************************************************************)
Grows_fault(h, hint) == hashsize[h] + 1 < hint /\ (Fits(hint) => next_prime(hint) > hashsize[h])

(* Where next_prime has no prime to return there is a resize to be made,   *)
(* at whose assertion the program stops.                                   *)
Grows(h, hint) == hashsize[h] < hint /\ (Fits(hint) => next_prime(hint) > hashsize[h])

StartResize_fault(h, hint) ==
  /\ pc' = "resize"
  /\ new_n' = hint
  /\ new_table' = EmptyTable(new_n')
  /\ i' = 0 /\ j' = 1
  /\ UNCHANGED <<hashsize, table, members>>

StartResize(h, hint) == /\ Fits(hint)
                        /\ pc' = "resize"
                        /\ new_n' = next_prime(hint)
                        /\ new_table' = EmptyTable(new_n')
                        /\ i' = 0 /\ j' = 1
                        /\ UNCHANGED <<hashsize, table, members>>

ResizeCall == pc = "resize" /\ i < hashsize[call.dst]

RehashCell_hash_fault ==
  /\ ResizeCall /\ j <= Len(table[call.dst][i])
  /\ LET c == table[call.dst][i][j] IN
       new_table' = Prepended(new_table, set_hash(c.name, hashsize[call.dst]), c)
  /\ j' = j + 1
  /\ UNCHANGED <<hashsize, table, members, pc, call, new_n, i>>

RehashCell_next_fault ==
  /\ ResizeCall /\ j <= Len(table[call.dst][i])
  /\ LET c == table[call.dst][i][j] IN
       new_table' = Prepended(new_table, set_hash(c.name, new_n), c)
  /\ j' = j + 2
  /\ UNCHANGED <<hashsize, table, members, pc, call, new_n, i>>

RehashCell ==
  /\ ResizeCall /\ j <= Len(table[call.dst][i])
  /\ LET c == table[call.dst][i][j] IN
       new_table' = Prepended(new_table, set_hash(c.name, new_n), c)
  /\ j' = j + 1
  /\ UNCHANGED <<hashsize, table, members, pc, call, new_n, i>>

RehashBucket ==
  /\ ResizeCall /\ j > Len(table[call.dst][i])
  /\ i' = i + 1 /\ j' = 1
  /\ UNCHANGED <<hashsize, table, members, pc, call, new_n, new_table>>

RehashDone ==
  /\ pc = "resize" /\ i = hashsize[call.dst]
  /\ table' = [table EXCEPT ![call.dst] = new_table]
  /\ hashsize' = [hashsize EXCEPT ![call.dst] = new_n]
  /\ new_n' = 0 /\ new_table' = <<>>
  /\ pc' = IF call.op = "add" THEN "add" ELSE "walk"
  /\ i' = 0 /\ j' = 1
  /\ UNCHANGED <<members, call>>

(***************************************************************************)
(* The calls.  Those without a loop are one step.                          *)
(***************************************************************************)
Alloc(h, hint) ==
  /\ ~Live(h) /\ Fits(hint)
  /\ hashsize' = [hashsize EXCEPT ![h] = next_prime(hint)]
  /\ table' = [table EXCEPT ![h] = EmptyTable(next_prime(hint))]
  /\ members' = [members EXCEPT ![h] = 0]

Unmoved == UNCHANGED <<new_n, new_table, i, j>>

set_new(h, hint) ==
  Idle /\ Alloc(h, hint) /\ UNCHANGED <<pc, call>> /\ Unmoved

set_destroy(h) ==
  /\ Idle /\ Live(h)
  /\ hashsize' = [hashsize EXCEPT ![h] = 0]
  /\ table' = [table EXCEPT ![h] = <<>>]
  /\ members' = [members EXCEPT ![h] = 0]
  /\ UNCHANGED <<pc, call>> /\ Unmoved

set_remove(h, n) ==
  /\ Idle /\ Live(h)
  /\ \E k \in Found(Chain(h, n), n) : Unlink(h, set_hash(n, hashsize[h]), k)
  /\ UNCHANGED <<hashsize, pc, call>> /\ Unmoved

set_add(h, n, d) ==
  /\ Idle /\ Live(h)
  /\ \/ /\ Grows(h, members[h] + 1)
        /\ StartResize(h, members[h] + 1)
        /\ call' = [op |-> "add", dst |-> h, name |-> n, data |-> d]
     \/ /\ ~Grows(h, members[h] + 1)
        /\ set_add_noresize(h, n, d)
        /\ UNCHANGED <<hashsize, pc, call>> /\ Unmoved

AddAfterResize ==
  /\ pc = "add"
  /\ set_add_noresize(call.dst, call.name, call.data)
  /\ pc' = "idle" /\ call' = NoCall
  /\ UNCHANGED hashsize /\ Unmoved

(* The calls that walk the table of call.src. *)
Walk(op, dst, src, other) ==
  call' = [op |-> op, dst |-> dst, src |-> src, other |-> other]

StartWalk == pc' = "walk" /\ Unmoved

set_union_inplace(h, g) ==
  /\ Idle /\ Live(h) /\ Live(g)
  /\ Walk("union_inplace", h, g, g)
  /\ \/ Grows(h, members[h] + members[g]) /\ StartResize(h, members[h] + members[g])
     \/ /\ ~Grows(h, members[h] + members[g])
        /\ StartWalk /\ UNCHANGED <<hashsize, table, members>>

set_diff_inplace(h, g) ==
  /\ Idle /\ Live(h) /\ Live(g)
  /\ Walk("diff_inplace", h, h, g)
  /\ StartWalk /\ UNCHANGED <<hashsize, table, members>>

set_union(h, a, b) ==
  /\ Idle /\ Live(a) /\ Live(b)
  /\ Alloc(h, members[a] + members[b])
  /\ Walk("union", h, a, b) /\ StartWalk

set_diff(h, a, b) ==
  /\ Idle /\ Live(a) /\ Live(b)
  /\ Alloc(h, hashsize[a])
  /\ Walk("diff", h, a, b) /\ StartWalk

(* The loop is over the set with fewer members. *)
set_intersect(h, a, b) ==
  LET large == IF members[a] < members[b] THEN b ELSE a
      small == IF members[a] < members[b] THEN a ELSE b
  IN /\ Idle /\ Live(a) /\ Live(b)
     /\ Alloc(h, hashsize[large])
     /\ Walk("intersect", h, small, large) /\ StartWalk

(***************************************************************************)
(* The loops of those calls.  set_diff bounds its loop over s1's buckets by *)
(* the size of the set it builds.                                          *)
(***************************************************************************)
WalkBound == hashsize[IF call.op = "diff" THEN call.dst ELSE call.src]
Walking   == pc = "walk" /\ i < WalkBound
AtCell    == Walking /\ j <= Len(table[call.src][i])
Here      == table[call.src][i][j]
InOther   == set_get(call.other, Here.name)

Copies == CASE call.op \in {"union", "union2", "union_inplace"} -> TRUE
            [] call.op = "diff" -> ~InOther
            [] call.op = "intersect" -> InOther
            [] call.op = "diff_inplace" -> FALSE
Drops  == call.op = "diff_inplace" /\ InOther

WalkCopy ==
  /\ AtCell /\ Copies
  /\ set_add_noresize(call.dst, Here.name, Here.data)
  /\ j' = j + 1
  /\ UNCHANGED <<hashsize, pc, call, new_n, new_table, i>>

WalkUnlink_fault ==
  /\ AtCell /\ Drops
  /\ Unlink(call.dst, i, j)
  /\ j' = j + 1
  /\ UNCHANGED <<hashsize, pc, call, new_n, new_table, i>>

(* The next cell moves into the place of the one unlinked. *)
WalkUnlink ==
  /\ AtCell /\ Drops
  /\ Unlink(call.dst, i, j)
  /\ UNCHANGED <<hashsize, pc, call, new_n, new_table, i, j>>

WalkSkip_fault ==
  /\ AtCell /\ ~Copies /\ ~Drops
  /\ UNCHANGED vars

WalkSkip ==
  /\ AtCell /\ ~Copies /\ ~Drops
  /\ j' = j + 1
  /\ UNCHANGED <<hashsize, table, members, pc, call, new_n, new_table, i>>

WalkBucket ==
  /\ Walking /\ j > Len(table[call.src][i])
  /\ i' = i + 1 /\ j' = 1
  /\ UNCHANGED <<hashsize, table, members, pc, call, new_n, new_table>>

(* set_union goes on with its second loop, the others return. *)
WalkDone ==
  /\ pc = "walk" /\ i = WalkBound
  /\ i' = 0 /\ j' = 1
  /\ IF call.op = "union"
     THEN call' = [call EXCEPT !.op = "union2", !.src = call.other] /\ UNCHANGED pc
     ELSE call' = NoCall /\ pc' = "idle"
  /\ UNCHANGED <<hashsize, table, members, new_n, new_table>>

(***************************************************************************)
(* Specification.  The calls are the caller's choice; a call that started  *)
(* runs on, since nothing in set.c waits.                                  *)
(***************************************************************************)
Init ==
  /\ hashsize = [h \in Handle |-> 0]
  /\ table = [h \in Handle |-> <<>>]
  /\ members = [h \in Handle |-> 0]
  /\ pc = "idle" /\ call = NoCall
  /\ new_n = 0 /\ new_table = <<>> /\ i = 0 /\ j = 1

Call ==
  \E h \in Handle :
    \/ \E hint \in Hints : set_new(h, hint)
    \/ set_destroy(h)
    \/ \E n \in Name : set_remove(h, n) \/ \E d \in Value : set_add(h, n, d)
    \/ \E g \in Handle : set_union_inplace(h, g) \/ set_diff_inplace(h, g)
    \/ \E a, b \in Handle : set_union(h, a, b) \/ set_diff(h, a, b) \/ set_intersect(h, a, b)

Loop == \/ RehashCell \/ RehashBucket \/ RehashDone \/ AddAfterResize
        \/ WalkCopy \/ WalkUnlink \/ WalkSkip \/ WalkBucket \/ WalkDone

Next == Call \/ Loop

Spec == Init /\ [][Next]_vars

(***************************************************************************)
(* Properties.                                                             *)
(***************************************************************************)
CellsOf(T) == UNION {{T[b][k] : k \in DOMAIN T[b]} : b \in DOMAIN T}
NamesOf(T) == {c.name : c \in CellsOf(T)}

IsTable(T, size) == /\ DOMAIN T = 0..size - 1
                    /\ \A b \in DOMAIN T : T[b] \in Seq(Cell)

(* Every cell hangs in the bucket its name hashes to, so lookups find it.  *)
IsPlaced(T, size) ==
  \A b \in DOMAIN T : \A k \in DOMAIN T[b] : set_hash(T[b][k].name, size) = b

(* No name has two cells. *)
IsDistinct(T) ==
  \A b, d \in DOMAIN T : \A k \in DOMAIN T[b], l \in DOMAIN T[d] :
    T[b][k].name = T[d][l].name => b = d /\ k = l

Calls ==
  {NoCall}
  \union [op : {"add"}, dst : Handle, name : Name, data : Value]
  \union [op : Ops \ {"add"}, dst : Handle, src : Handle, other : Handle]

(* Types: the size of every set is one of the primes, and a walk always    *)
(* works on allocated sets.                                                *)
TypeOK ==
  /\ hashsize \in [Handle -> Primes \union {0}]
  /\ DOMAIN table = Handle /\ \A h \in Handle : IsTable(table[h], hashsize[h])
  /\ members \in [Handle -> Nat]
  /\ pc \in {"idle", "resize", "add", "walk"}
  /\ call \in Calls /\ (call = NoCall <=> pc = "idle")
  /\ pc # "idle" => Live(call.dst)
  /\ pc = "add" => call.op = "add"
  /\ pc = "resize" => call.op \in {"add", "union_inplace"}
  /\ pc # "idle" /\ call.op # "add" => Live(call.src) /\ Live(call.other)
  /\ IF pc = "resize" THEN new_n \in Primes ELSE new_n = 0
  /\ IsTable(new_table, new_n)
  /\ i \in Nat /\ j \in Nat \ {0}

(* Lookups, overwrites and removals look in one bucket only: an element in *)
(* another bucket is lost to them, though set_members would still list it. *)
Placed == \A h \in Handle : IsPlaced(table[h], hashsize[h])

(* A name is in a set at most once, however it got there and whatever the  *)
(* set was resized to.                                                     *)
Distinct == \A h \in Handle : IsDistinct(table[h])

(* The counter set_members sizes its array by agrees with the chains after *)
(* every iteration of every loop (set_union_inplace asserts it at its end). *)
Counted == \A h \in Handle : members[h] = Cardinality(NamesOf(table[h]))

(* A set never holds more elements than it has buckets, whichever of the   *)
(* sizing rules (add, union, difference, intersection) made it.            *)
LoadBounded == \A h \in Handle : members[h] <= hashsize[h]

(* The loops index only buckets that exist: set_diff reads s1->table up to *)
(* the size of the set it builds, so next_prime(s1->hashsize) must be      *)
(* s1->hashsize itself.                                                    *)
CursorInBounds == pc = "walk" => WalkBound <= hashsize[call.src]

(* The cells before a loop's cursor, and those at or after it. *)
Before(b, k) == b < i \/ (b = i /\ k < j)
Passed(T) == UNION {{T[b][k] : k \in {l \in DOMAIN T[b] : Before(b, l)}} : b \in DOMAIN T}
Ahead(T)  == UNION {{T[b][k] : k \in {l \in DOMAIN T[b] : ~Before(b, l)}} : b \in DOMAIN T}

(* In the middle of a resize the new table holds exactly the cells passed  *)
(* so far, each in its new bucket: no element is dropped or moved twice.   *)
RehashExact ==
  pc = "resize" => /\ IsPlaced(new_table, new_n) /\ IsDistinct(new_table)
                   /\ CellsOf(new_table) = Passed(table[call.dst])

(***************************************************************************)
(* Refinement of NameMap.  A call takes its abstract effect when it        *)
(* starts: a set being written is mapped to the contents it will have when *)
(* the loop has handled the cells still ahead of its cursor.               *)
(***************************************************************************)
MapOf(C) == [n \in {c.name : c \in C} |-> (CHOOSE c \in C : c.name = n).data]

Pending == LET T == table[call.src] IN IF pc = "walk" THEN Ahead(T) ELSE CellsOf(T)

Shared(C) == {c \in C : set_get(call.other, c.name)}

Contents(h) ==
  LET now == MapOf(CellsOf(table[h])) IN
  IF pc = "idle" \/ h # call.dst THEN now
  ELSE CASE call.op = "add" -> With(now, call.name, call.data)
         [] call.op \in {"union_inplace", "union2"} -> Over(MapOf(Pending), now)
         [] call.op = "union" -> Over(MapOf(CellsOf(table[call.other])), Over(MapOf(Pending), now))
         [] call.op = "diff" -> Over(MapOf(Pending \ Shared(Pending)), now)
         [] call.op = "intersect" -> Over(MapOf(Shared(Pending)), now)
         [] call.op = "diff_inplace" ->
              Restricted(now, DOMAIN now \ {c.name : c \in Shared(Pending)})

live     == {h \in Handle : Live(h)}
contents == [h \in Handle |-> Contents(h)]
Abstract == INSTANCE NameMap WITH map <- contents

(* The step that starts a call is the map update the call is named for,    *)
(* and a step of a loop is none.                                           *)
StepsAsNamed ==
  /\ Loop => UNCHANGED <<live, contents>>
  /\ \A h \in Handle :
       /\ \A n \in Name : set_remove(h, n) => Abstract!Delete(h, n)
       /\ \A n \in Name, d \in Value : set_add(h, n, d) => Abstract!Put(h, n, d)
       /\ \A g \in Handle :
            /\ set_union_inplace(h, g) => Abstract!UnionInto(h, g)
            /\ set_diff_inplace(h, g) => Abstract!DiffInto(h, g)
       /\ \A a, b \in Handle :
            /\ set_union(h, a, b) => Abstract!Union(h, a, b)
            /\ set_diff(h, a, b) => Abstract!Diff(h, a, b)
            /\ set_intersect(h, a, b) => Abstract!Intersect(h, a, b)

(* set.c implements the map of set.h: the step that starts a call is the   *)
(* map update the call is named for, also when an argument is the set it   *)
(* changes, and no iteration of its loops shows.                           *)
ImplementsMap == Abstract!Spec /\ [][StepsAsNamed]_vars
=============================================================================
