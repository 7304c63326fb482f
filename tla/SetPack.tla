------------------------------ MODULE SetPack ------------------------------
(***************************************************************************)
(* set_pack and set_unpack of set.c over the sets of HashSet, and what they *)
(* are for: yaml2sqlite.rb packs the nodes of a section for the mdbm, and   *)
(* the %cluster of sqlite_mdbm.c unpacks them, member by member, into a set *)
(* that is resized as it grows.                                            *)
(***************************************************************************)
EXTENDS HashSet

CONSTANTS Null,   \* the data pointer of a name without data
          Bytes   \* strlen of a name or of data

Word == 4         \* sizeof(int)

ASSUME BytesAssumption == Null \in Value /\ Bytes \in [Name \union (Value \ {Null}) -> Nat]
ASSUME UnpackHintAssumption == 0 \in Hints   \* what set_unpack passes to set_new

VARIABLES packed,     \* what the mdbm holds for the section, or Nothing
          unpacking   \* set_unpack's ret and p, or Nothing

packVars == <<packed, unpacking>>

Nothing == [size |-> 0]

(***************************************************************************)
(* set_pack: every member's name with its length, then its data with its   *)
(* length, or a length of -1; in front of it all, the size.                *)
(***************************************************************************)
MemberSize_fault(c) == Word + Bytes[c.name] + 1 + IF c.data = Null THEN 0 ELSE Word + Bytes[c.data] + 1

MemberSize(c) == Word + Bytes[c.name] + 1 + Word + IF c.data = Null THEN 0 ELSE Bytes[c.data] + 1

(* The members in the order of both loops, bucket after bucket.            *)
Listed(T) == FlattenSeq([b \in 1..Cardinality(DOMAIN T) |-> T[b - 1]])

(* The size, and so many members of these sizes.                           *)
Total(sizes) == LET total[k \in 0..Len(sizes)] == IF k = 0 THEN Word ELSE total[k - 1] + sizes[k] IN total

set_pack_size(T) == LET es == Listed(T) IN Total([k \in 1..Len(es) |-> MemberSize(es[k])])[Len(es)]

(* What is written; of: what it stands for.                                *)
set_pack(T) == [size |-> set_pack_size(T), entries |-> Listed(T), of |-> MapOf(CellsOf(T))]

(* Where the k-th member is: what really lies in front of it.              *)
Written(c) == 2 * Word + Bytes[c.name] + 1 + IF c.data = Null THEN 0 ELSE Bytes[c.data] + 1
Offset(es, k) == Total([m \in 1..Len(es) |-> Written(es[m])])[k - 1]

Unpacking == unpacking # Nothing

(* The loader asks for the nodes first, and stores nothing when there are  *)
(* none; a key that is there already stays as it is (MDBM_INSERT).         *)
mdbm_store(h) ==
  /\ Idle /\ ~Unpacking /\ Live(h) /\ CellsOf(table[h]) # {}
  /\ packed' = IF packed = Nothing THEN set_pack(table[h]) ELSE packed
  /\ UNCHANGED vars /\ UNCHANGED unpacking

(* The next load starts with an mdbm of its own.                           *)
Reload == Idle /\ ~Unpacking /\ packed # Nothing /\ packed' = Nothing /\ UNCHANGED <<vars, unpacking>>

(* A key that is not in the mdbm has no nodes.                             *)
_expand_cluster(h) ==
  /\ Idle /\ ~Unpacking /\ packed # Nothing
  /\ set_new(h, 0)
  /\ unpacking' = [ret |-> h, p |-> Word, size |-> packed.size]
  /\ UNCHANGED packed

(***************************************************************************)
(* set_unpack's loop: it looks at the size after a member, not before.     *)
(***************************************************************************)
More == unpacking.p = Word \/ unpacking.p < unpacking.size

UnpackMember ==
  /\ Idle /\ Unpacking /\ More
  /\ \E k \in DOMAIN packed.entries :
       /\ Offset(packed.entries, k) = unpacking.p
       /\ set_add(unpacking.ret, packed.entries[k].name, packed.entries[k].data)
       /\ unpacking' = [unpacking EXCEPT !.p = Offset(packed.entries, k + 1)]
  /\ UNCHANGED packed

UnpackDone ==
  /\ Idle /\ Unpacking /\ ~More
  /\ unpacking' = Nothing /\ UNCHANGED <<vars, packed>>

(***************************************************************************)
(* Specification: one thread, and set_unpack waits for nothing.            *)
(***************************************************************************)
PackInit == Init /\ packed = Nothing /\ unpacking = Nothing

Running == (Loop /\ UNCHANGED packVars) \/ UnpackMember \/ UnpackDone

PackNext ==
  \/ ~Unpacking /\ Call /\ UNCHANGED packVars
  \/ Running
  \/ Reload \/ \E h \in Handle : mdbm_store(h) \/ _expand_cluster(h)

allVars == <<vars, packVars>>

PackSpec == PackInit /\ [][PackNext]_allVars /\ WF_allVars(Running)

(***************************************************************************)
(* Properties.                                                             *)
(***************************************************************************)

(* What was packed comes out again, no more and no less, whatever the      *)
(* resizes on the way did; and a member that is read lies inside what was  *)
(* packed.  (That of an empty set would not: nothing in set_unpack says    *)
(* so, only the loader's look at the nodes.)                               *)
RoundTrip ==
  Unpacking /\ Idle =>
    IF More
    THEN \E k \in DOMAIN packed.entries : Offset(packed.entries, k) = unpacking.p /\ Offset(packed.entries, k + 1) <= packed.size
    ELSE MapOf(CellsOf(table[unpacking.ret])) = packed.of

(* Every call returns: the loops come to their end even while they unlink  *)
(* from, or add to, the chains they walk; and so does set_unpack.          *)
PackReturns == (~Idle \/ Unpacking) ~> (Idle /\ ~Unpacking)
=============================================================================
