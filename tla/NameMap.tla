------------------------------ MODULE NameMap ------------------------------
(***************************************************************************)
(* What set.c promises its callers: every live set object is a finite map  *)
(* from names to data pointers, and each call of set.h is one atomic       *)
(* change of one such map.  There are no buckets, chains, counters or      *)
(* loops here; HashSet is shown to implement this module.                  *)
(***************************************************************************)
EXTENDS Maps

CONSTANTS Handle,  \* the set objects a program can hold
          Name,    \* element names
          Value    \* data pointers stored with the names

VARIABLES live,    \* handles of allocated sets
          map      \* map[h]: the names of set h with their data

Init == live = {} /\ map = [h \in Handle |-> <<>>]

(* A new set is empty; a destroyed one is gone. *)
New(h)     == /\ h \notin live
              /\ live' = live \union {h}
              /\ map' = [map EXCEPT ![h] = <<>>]
Destroy(h) == /\ h \in live
              /\ live' = live \ {h}
              /\ map' = [map EXCEPT ![h] = <<>>]

(* Updates of one set by a name, or by the names of another set. *)
Update(h, m) == h \in live /\ map' = [map EXCEPT ![h] = m] /\ UNCHANGED live

Put(h, n, d)      == Update(h, With(map[h], n, d))
Delete(h, n)      == Update(h, Restricted(map[h], DOMAIN map[h] \ {n}))
UnionInto(h, g)   == g \in live /\ Update(h, Over(map[g], map[h]))
DiffInto(h, g)    == g \in live
                     /\ Update(h, Restricted(map[h], DOMAIN map[h] \ DOMAIN map[g]))

(* A new set computed from two others, which stay as they are. *)
Result(h, a, b, m) == /\ {a, b} \subseteq live /\ h \notin live
                      /\ live' = live \union {h}
                      /\ map' = [map EXCEPT ![h] = m]

Union(h, a, b)     == Result(h, a, b, Over(map[b], map[a]))
Diff(h, a, b)      == Result(h, a, b, Restricted(map[a], DOMAIN map[a] \ DOMAIN map[b]))
Intersect(h, a, b) == \E s \in {a, b} :
                        Result(h, a, b, Restricted(map[s], DOMAIN map[a] \intersect DOMAIN map[b]))

Next ==
  \E h \in Handle :
    \/ New(h) \/ Destroy(h)
    \/ \E n \in Name : Delete(h, n) \/ \E d \in Value : Put(h, n, d)
    \/ \E g \in Handle : UnionInto(h, g) \/ DiffInto(h, g)
    \/ \E a, b \in Handle : Union(h, a, b) \/ Diff(h, a, b) \/ Intersect(h, a, b)

Spec == Init /\ [][Next]_<<live, map>>
=============================================================================
