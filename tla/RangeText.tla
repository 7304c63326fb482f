----------------------------- MODULE RangeText ------------------------------
(***************************************************************************)
(* What a program does with the text of a range: it expands first..last,   *)
(* or compresses a set of names and expands what it got, group by group.   *)
(***************************************************************************)
EXTENDS RangeCompress

CONSTANT Ranges     \* the ranges asked for

ASSUME RangesAssumption == Ranges \subseteq RangeParts

VARIABLES
  parts, pad1, length, turn, l, r,   \* of range_from_rangeparts
  at,       \* the group to expand next
  back      \* the names of the groups before it

L == INSTANCE RangePartsLoop WITH i <- turn

expansion == <<parts, pad1, length, turn, l, r>>

InitText == Init /\ L!Init /\ at = 1 /\ back = {}

(* A text of the program's own; its names are gone before the next.        *)
Expand(p) ==
  /\ pc = "idle" /\ parts = L!NoParts
  /\ L!range_from_rangeparts(p)
  /\ UNCHANGED <<vars, at, back>>

Forget ==
  /\ parts' = L!NoParts /\ pad1' = <<>> /\ length' = 1 /\ turn' = 1 /\ l' = 0 /\ r' = {}

Expanded ==
  /\ pc = "idle" /\ parts # L!NoParts /\ ~L!Looping
  /\ Forget /\ UNCHANGED <<vars, at, back>>

AddName == L!Add /\ UNCHANGED <<vars, at, back>>

Compress ==
  /\ parts = L!NoParts
  /\ \/ Join \/ StartGroup \/ TooManyGroups \/ Finish
     \/ \E S \in Asked : do_range_compress(S)
  /\ UNCHANGED <<expansion, at, back>>

(* A group of one is its name.  "(null)..n" is the name of no host.        *)
Alone == groups[at].count = 0
NextGroup == pc = "returned" /\ at <= Len(groups) /\ ~L!Looping /\ at' = at + 1 /\ UNCHANGED vars

ExpandName ==
  /\ NextGroup /\ (Alone \/ groups[at].parts.num_str = <<>>)
  /\ back' = back \union r \union (IF Alone THEN {groups[at].parts.full_name} ELSE {})
  /\ Forget

ExpandGroup ==
  /\ NextGroup /\ ~Alone /\ groups[at].parts.num_str # <<>>
  /\ back' = back \union r
  /\ L!range_from_rangeparts(fmt_group(groups[at]))

AllExpanded == pc = "returned" /\ at > Len(groups) /\ ~L!Looping

Done == AllExpanded /\ Return /\ Forget /\ at' = 1 /\ back' = {}

NextText ==
  \/ \E p \in Ranges : Expand(p)
  \/ Expanded \/ AddName \/ Compress \/ ExpandName \/ ExpandGroup \/ Done

SpecText == InitText /\ [][NextText]_<<vars, expansion, at, back>>

(***************************************************************************)
(* Properties.                                                             *)
(***************************************************************************)

(* The names of a range are the documented ones, padded as the first,      *)
(* whatever the widths of the two numbers: filling the last number up and  *)
(* cutting the first one down come to the same.                            *)
PaddedAsDocumented == ~L!Looping => r = Meaning(parts)

(* Expanding the compressed text gives the names back, unless the array    *)
(* was too small, in which case there is a warning.                        *)
RoundTrip == AllExpanded => back \union r = IF warned THEN {} ELSE nodes
=============================================================================
