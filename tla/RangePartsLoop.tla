--------------------------- MODULE RangePartsLoop ---------------------------
(***************************************************************************)
(* range_from_rangeparts of range.c: the names of first..last, one turn of *)
(* its loop at a time.                                                     *)
(***************************************************************************)
EXTENDS NodeNames

VARIABLES
  parts,    \* the argument
  pad1,     \* the digits that only the first number has
  length,   \* the width of the rest
  i, l,     \* the loop's counter and its bound
  r         \* the names added so far

vars == <<parts, pad1, length, i, l, r>>

(* Before the first call the loop is over. *)
NoParts == [prefix |-> 0, first |-> <<1>>, last |-> <<0>>, domain |-> 0]

Init == parts = NoParts /\ pad1 = <<>> /\ length = 1 /\ i = 1 /\ l = 0 /\ r = {}

Looping == i <= l

range_from_rangeparts(p) ==
  /\ ~Looping
  /\ parts' = p /\ r' = {}
  /\ l' = atoi(p.last)
  /\ \/ /\ Len(p.first) > Len(p.last)
        /\ LET extra == Len(p.first) - Len(p.last) IN
           /\ pad1' = SubSeq(p.first, 1, extra)
           /\ i' = atoi(SubSeq(p.first, extra + 1, Len(p.first)))
        /\ length' = Len(p.last)
     \/ /\ Len(p.first) <= Len(p.last)
        /\ pad1' = <<>> /\ i' = atoi(p.first)
        /\ length' = Len(p.first)

Add_fault ==
  /\ Looping
  /\ r' = r \union {[prefix |-> parts.prefix, digits |-> pad1 \o apr_itoa(i), domain |-> parts.domain]}
  /\ i' = Wrap(i + 1)
  /\ UNCHANGED <<parts, pad1, length, l>>

Add ==
  /\ Looping
  /\ r' = r \union {[prefix |-> parts.prefix, digits |-> pad1 \o Printed(i, length), domain |-> parts.domain]}
  /\ i' = Wrap(i + 1)
  /\ UNCHANGED <<parts, pad1, length, l>>
=============================================================================
