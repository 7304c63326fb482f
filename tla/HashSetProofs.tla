--------------------------- MODULE HashSetProofs ---------------------------
(***************************************************************************)
(* Machine-checked proofs about HashSet, for every set of handles, names,   *)
(* data and primes and every hash function: the types, and that no call,    *)
(* in no loop, misplaces, duplicates, loses or miscounts an element; that   *)
(* the table is a map; and, of SetPack, that what is packed comes out, and  *)
(* that no call goes on for ever.                                           *)
(***************************************************************************)
EXTENDS SetPack, FiniteSetTheorems, SequenceTheorems, WellFoundedInduction, TLAPS

(***************************************************************************)
(* Arithmetic of the sizes.                                                *)
(***************************************************************************)

(* A non-empty set of naturals has a least element. *)
LEMMA LeastExists ==
  ASSUME NEW S \in SUBSET Nat, S # {}
  PROVE  \E m \in S : \A n \in S : m <= n
<1> DEFINE R == OpToRel(<, Nat)
<1>1. R = {ss \in Nat \X Nat : ss[1] < ss[2]}
  BY Zenon DEF OpToRel
<1>2. IsWellFoundedOn(R, Nat)
  BY NatLessThanWellFounded
<1> HIDE DEF R
<1>3. PICK m \in S : \A n \in S : ~ (<<n, m>> \in R)
  BY <1>2, WFMin, Zenon
<1>4. ASSUME NEW n \in S PROVE m <= n
  <2>1. n \in Nat /\ m \in Nat OBVIOUS
  <2>2. n < m => <<n, m>> \in R BY <1>1, <2>1
  <2>3. QED BY <1>3, <2>1, <2>2
<1>5. QED BY <1>4

LEMMA PrimesArePositive == \A p \in Primes : p \in Nat /\ p # 0 /\ p \in Nat \ {0}
BY PrimesAssumption DEF PrimesAssumption

(* When the assertion of next_prime passes, it returns a listed prime that *)
(* is at least its argument.                                               *)
LEMMA NextPrime ==
  ASSUME NEW n \in Nat, Fits(n)
  PROVE  next_prime(n) \in Primes /\ next_prime(n) >= n /\ next_prime(n) \in Nat \ {0}
<1> DEFINE S == {p \in Primes : p >= n}
<1>1. Primes \subseteq Nat \ {0} BY PrimesAssumption DEF PrimesAssumption
<1>2. S \in SUBSET Nat /\ S # {}
  <2>1. PICK p \in Primes : n < p BY DEF Fits
  <2>2. p \in S BY <1>1, <2>1
  <2>3. S \in SUBSET Nat BY <1>1
  <2>4. QED BY <2>2, <2>3
<1>3. \E p \in S : \A q \in S : p <= q BY <1>2, LeastExists
<1>4. \E p \in Primes : p >= n /\ \A q \in Primes : q >= n => p <= q BY <1>3
<1>5. QED BY <1>1, <1>4 DEF next_prime

(* A hash reduced by the table's size is the number of one of its buckets. *)
LEMMA BucketExists ==
  ASSUME NEW n \in Name, NEW size \in Nat \ {0}
  PROVE  set_hash(n, size) \in 0..size - 1
BY HashAssumption DEF HashAssumption, set_hash

(***************************************************************************)
(* The three changes of a table, cell by cell.                             *)
(***************************************************************************)

(* The chain after a cell is linked in at its head. *)
LEMMA PrependChain ==
  ASSUME NEW C \in Seq(Cell), NEW c \in Cell
  PROVE  /\ <<c>> \o C \in Seq(Cell)
         /\ Len(<<c>> \o C) = Len(C) + 1
         /\ DOMAIN (<<c>> \o C) = 1..Len(C) + 1
         /\ (<<c>> \o C)[1] = c
         /\ \A k \in 2..Len(C) + 1 : (<<c>> \o C)[k] = C[k - 1]
<1>1. <<c>> \in Seq(Cell) /\ Len(<<c>>) = 1 /\ <<c>>[1] = c OBVIOUS
<1>2. Len(C) \in Nat BY LenProperties
<1> DEFINE P == <<c>> \o C
<1>3. /\ P \in Seq(Cell) /\ Len(P) = 1 + Len(C)
      /\ \A k \in 1..1 + Len(C) : P[k] = IF k <= 1 THEN <<c>>[k] ELSE C[k - 1]
  BY <1>1, ConcatProperties
<1>4. DOMAIN P = 1..Len(P) BY <1>3, LenProperties
<1> HIDE DEF P
<1>5. P \in Seq(Cell) /\ Len(P) = Len(C) + 1 /\ DOMAIN P = 1..Len(C) + 1
  BY <1>2, <1>3, <1>4
<1>6. P[1] = c BY <1>1, <1>2, <1>3
<1>7. \A k \in 2..Len(C) + 1 : P[k] = C[k - 1] BY <1>2, <1>3
<1>8. QED BY <1>5, <1>6, <1>7 DEF P

(* The chain after its k-th cell is unlinked. *)
LEMMA UnlinkChain ==
  ASSUME NEW C \in Seq(Cell), NEW k \in 1..Len(C)
  PROVE  /\ RemoveAt(C, k) \in Seq(Cell)
         /\ Len(RemoveAt(C, k)) = Len(C) - 1
         /\ DOMAIN RemoveAt(C, k) = 1..Len(C) - 1
         /\ \A l \in 1..Len(C) - 1 : RemoveAt(C, k)[l] = IF l < k THEN C[l] ELSE C[l + 1]
<1> DEFINE A == SubSeq(C, 1, k - 1)
           B == SubSeq(C, k + 1, Len(C))
<1>1. Len(C) \in Nat /\ DOMAIN C = 1..Len(C) /\ C \in [1..Len(C) -> Cell] BY LenProperties
<1>2. /\ \A m \in 1..Len(C) : C[m] \in Cell
      /\ k \in Nat /\ 1 <= k /\ k <= Len(C)
  BY <1>1
<1>3. /\ A \in Seq(Cell) /\ Len(A) = k - 1
      /\ \A m \in 1..k - 1 : A[m] = C[m]
  <2>1. \A m \in 1..k - 1 : C[m] \in Cell BY <1>1, <1>2
  <2>2. 1 \in Int /\ k - 1 \in Int BY <1>1
  <2>3. /\ A \in Seq(Cell)
        /\ Len(A) = IF 1 <= k - 1 THEN (k - 1) - 1 + 1 ELSE 0
        /\ \A m \in 1..(k - 1) - 1 + 1 : A[m] = C[1 + m - 1]
    BY <2>1, <2>2, SubSeqProperties
  <2> HIDE DEF A
  <2>4. Len(A) = k - 1 BY <2>3, <1>1
  <2>5. \A m \in 1..k - 1 : A[m] = C[m] BY <2>3, <1>1
  <2>6. QED BY <2>3, <2>4, <2>5
<1>4. /\ B \in Seq(Cell) /\ Len(B) = Len(C) - k
      /\ \A m \in 1..Len(C) - k : B[m] = C[k + m]
  <2>1. \A m \in k + 1..Len(C) : C[m] \in Cell BY <1>1, <1>2
  <2>2. k + 1 \in Int /\ Len(C) \in Int BY <1>1
  <2>3. /\ B \in Seq(Cell)
        /\ Len(B) = IF k + 1 <= Len(C) THEN Len(C) - (k + 1) + 1 ELSE 0
        /\ \A m \in 1..Len(C) - (k + 1) + 1 : B[m] = C[(k + 1) + m - 1]
    BY <2>1, <2>2, SubSeqProperties
  <2> HIDE DEF B
  <2>4. Len(B) = Len(C) - k
    <3>1. Len(C) - (k + 1) + 1 = Len(C) - k BY <1>1, <1>2
    <3>2. CASE k + 1 <= Len(C) BY <2>3, <3>1, <3>2
    <3>3. CASE ~ (k + 1 <= Len(C))
      <4>1. \A m, n \in Nat : m <= n /\ ~ (m + 1 <= n) => n - m = 0 OBVIOUS
      <4>2. Len(C) - k = 0 BY <1>1, <1>2, <3>3, <4>1
      <4>3. QED BY <2>3, <3>3, <4>2
    <3>4. QED BY <3>2, <3>3
  <2>5. ASSUME NEW m \in 1..Len(C) - k PROVE B[m] = C[k + m]
    <3>1. m \in 1..Len(C) - (k + 1) + 1 /\ (k + 1) + m - 1 = k + m BY <1>1, <1>2
    <3>2. B[m] = C[(k + 1) + m - 1] BY <2>3, <3>1
    <3>3. QED BY <3>1, <3>2
  <2>6. QED BY <2>3, <2>4, <2>5
<1> HIDE DEF A, B
<1>5. /\ A \o B \in Seq(Cell) /\ Len(A \o B) = Len(A) + Len(B)
      /\ \A m \in 1..Len(A) + Len(B) :
           (A \o B)[m] = IF m <= Len(A) THEN A[m] ELSE B[m - Len(A)]
  BY <1>3, <1>4, ConcatProperties
<1>6. DOMAIN (A \o B) = 1..Len(A \o B) BY <1>5, LenProperties
<1>7. RemoveAt(C, k) = A \o B BY DEF RemoveAt, A, B
<1> DEFINE R == A \o B
<1>8. /\ Len(R) = Len(C) - 1 /\ DOMAIN R = 1..Len(C) - 1
  BY <1>1, <1>3, <1>4, <1>5, <1>6
<1>9. ASSUME NEW l \in 1..Len(C) - 1 PROVE R[l] = IF l < k THEN C[l] ELSE C[l + 1]
  <2>1. l \in Nat /\ 1 <= l /\ l <= Len(C) - 1 /\ l \in 1..Len(A) + Len(B) BY <1>1, <1>2, <1>3, <1>4
  <2>2. CASE l < k
    <3>1. l <= Len(A) /\ l \in 1..k - 1 BY <1>2, <1>3, <2>1, <2>2
    <3>2. R[l] = A[l] BY <1>5, <2>1, <3>1
    <3>3. QED BY <1>3, <2>2, <3>1, <3>2
  <2>3. CASE ~ (l < k)
    <3>1. /\ ~ (l <= Len(A)) /\ l - Len(A) \in 1..Len(C) - k
          /\ k + (l - Len(A)) = l + 1
      BY <1>1, <1>2, <1>3, <2>1, <2>3
    <3>2. R[l] = B[l - Len(A)] BY <1>5, <2>1, <3>1
    <3>3. B[l - Len(A)] = C[l + 1] BY <1>4, <3>1
    <3>4. QED BY <2>3, <3>2, <3>3
  <2>4. QED BY <2>2, <2>3
<1>10. QED BY <1>5, <1>7, <1>8, <1>9

(* Membership in the cells and names of a table, position by position. *)
LEMMA CellsByPosition ==
  ASSUME NEW T
  PROVE  /\ \A c : c \in CellsOf(T) <=> \E b \in DOMAIN T : \E k \in DOMAIN T[b] : c = T[b][k]
         /\ \A n : n \in NamesOf(T) <=> \E b \in DOMAIN T : \E k \in DOMAIN T[b] : n = T[b][k].name
<1>1. \A c : c \in CellsOf(T) <=> \E b \in DOMAIN T : \E k \in DOMAIN T[b] : c = T[b][k]
  BY DEF CellsOf
<1>2. \A n : n \in NamesOf(T) <=> \E c \in CellsOf(T) : n = c.name
  BY DEF NamesOf
<1>3. QED BY <1>1, <1>2

(* A chain of a table is a sequence of cells. *)
LEMMA ChainType ==
  ASSUME NEW size \in Nat, NEW T, IsTable(T, size), NEW b \in DOMAIN T
  PROVE  /\ T[b] \in Seq(Cell) /\ Len(T[b]) \in Nat /\ DOMAIN T[b] = 1..Len(T[b])
         /\ \A k \in DOMAIN T[b] : T[b][k] \in Cell /\ k \in Nat
         /\ b \in 0..size - 1
BY LenProperties DEF IsTable

(* Linking in a cell whose name the table lacks, at its own bucket, adds   *)
(* exactly that cell and keeps the table well-formed.                      *)
LEMMA PrependKeeps ==
  ASSUME NEW size \in Nat \ {0}, NEW T, IsTable(T, size), IsPlaced(T, size), IsDistinct(T),
         NEW c \in Cell, c.name \notin NamesOf(T),
         NEW P, P = Prepended(T, set_hash(c.name, size), c)
  PROVE  /\ IsTable(P, size) /\ IsPlaced(P, size) /\ IsDistinct(P)
         /\ CellsOf(P) = CellsOf(T) \union {c}
         /\ NamesOf(P) = NamesOf(T) \union {c.name}
<1> DEFINE b0 == set_hash(c.name, size)
<1>1. c.name \in Name BY DEF Cell
<1>2. b0 \in 0..size - 1 BY <1>1, BucketExists
<1>3. DOMAIN T = 0..size - 1 /\ b0 \in DOMAIN T BY <1>2 DEF IsTable
<1>4. /\ DOMAIN P = DOMAIN T /\ P[b0] = <<c>> \o T[b0]
      /\ \A b \in DOMAIN T : b # b0 => P[b] = T[b]
  BY <1>3 DEF Prepended
<1>5. T[b0] \in Seq(Cell) /\ Len(T[b0]) \in Nat /\ DOMAIN T[b0] = 1..Len(T[b0])
  BY <1>3, ChainType
<1>6. /\ P[b0] \in Seq(Cell) /\ DOMAIN P[b0] = 1..Len(T[b0]) + 1
      /\ P[b0][1] = c /\ \A k \in 2..Len(T[b0]) + 1 : P[b0][k] = T[b0][k - 1]
  BY <1>4, <1>5, PrependChain
<1> HIDE DEF b0
<1>7. IsTable(P, size)
  BY <1>3, <1>4, <1>6 DEF IsTable
(* Where a cell of P comes from. *)
<1>8. ASSUME NEW b \in DOMAIN P, NEW k \in DOMAIN P[b]
      PROVE  \/ b = b0 /\ k = 1 /\ P[b][k] = c
             \/ b = b0 /\ k - 1 \in DOMAIN T[b] /\ P[b][k] = T[b][k - 1] /\ k \in Nat
             \/ b # b0 /\ k \in DOMAIN T[b] /\ P[b][k] = T[b][k]
  <2>1. CASE b # b0 BY <1>4, <2>1
  <2>2. CASE b = b0 /\ k = 1 BY <1>6, <2>2
  <2>3. CASE b = b0 /\ k # 1
    <3>1. k \in 2..Len(T[b0]) + 1 BY <1>5, <1>6, <2>3
    <3>2. k - 1 \in 1..Len(T[b0]) /\ k \in Nat BY <1>5, <3>1
    <3>3. QED BY <1>5, <1>6, <2>3, <3>1, <3>2
  <2>4. QED BY <2>1, <2>2, <2>3
<1>9. IsPlaced(P, size)
  <2> SUFFICES ASSUME NEW b \in DOMAIN P, NEW k \in DOMAIN P[b]
               PROVE  set_hash(P[b][k].name, size) = b
    BY DEF IsPlaced
  <2>1. QED BY <1>4, <1>8 DEF IsPlaced, b0
(* No old cell has the name of the new one. *)
<1>10. \A b \in DOMAIN T : \A k \in DOMAIN T[b] : T[b][k].name # c.name
  BY CellsByPosition
<1>11. IsDistinct(P)
  <2> SUFFICES ASSUME NEW b \in DOMAIN P, NEW d \in DOMAIN P,
                      NEW k \in DOMAIN P[b], NEW l \in DOMAIN P[d],
                      P[b][k].name = P[d][l].name
               PROVE  b = d /\ k = l
    BY DEF IsDistinct
  <2>1. CASE P[b][k] = c \/ P[d][l] = c
    BY <1>4, <1>8, <1>10, <2>1
  <2>2. CASE P[b][k] # c /\ P[d][l] # c
    <3>1. PICK m \in DOMAIN T[b] : P[b][k] = T[b][m] /\ (IF b = b0 THEN m = k - 1 /\ k \in Nat ELSE m = k)
      BY <1>8, <2>2
    <3>2. PICK n \in DOMAIN T[d] : P[d][l] = T[d][n] /\ (IF d = b0 THEN n = l - 1 /\ l \in Nat ELSE n = l)
      BY <1>8, <2>2
    <3>3. b = d /\ m = n BY <1>4, <3>1, <3>2 DEF IsDistinct
    <3>4. QED BY <3>1, <3>2, <3>3
  <2>3. QED BY <2>1, <2>2
<1>12. CellsOf(P) = CellsOf(T) \union {c}
  <2>1. ASSUME NEW e \in CellsOf(P) PROVE e \in CellsOf(T) \union {c}
    <3>1. PICK b \in DOMAIN P : \E k \in DOMAIN P[b] : e = P[b][k] BY CellsByPosition
    <3>2. PICK k \in DOMAIN P[b] : e = P[b][k] BY <3>1
    <3>3. QED BY <1>4, <1>8, <3>2, CellsByPosition
  <2>2. ASSUME NEW e \in CellsOf(T) PROVE e \in CellsOf(P)
    <3>1. PICK b \in DOMAIN T : \E k \in DOMAIN T[b] : e = T[b][k] BY CellsByPosition
    <3>2. PICK k \in DOMAIN T[b] : e = T[b][k] BY <3>1
    <3>3. CASE b # b0 BY <1>4, <3>2, <3>3, CellsByPosition
    <3>4. CASE b = b0
      <4>1. k \in 1..Len(T[b0]) BY <1>5, <3>2, <3>4
      <4>2. k + 1 \in 2..Len(T[b0]) + 1 /\ (k + 1) - 1 = k /\ k + 1 \in DOMAIN P[b0]
        BY <1>5, <1>6, <4>1
      <4>3. P[b0][k + 1] = e BY <1>6, <3>2, <3>4, <4>2
      <4>4. QED BY <1>3, <1>4, <4>2, <4>3, CellsByPosition
    <3>5. QED BY <3>3, <3>4
  <2>3. c \in CellsOf(P)
    <3>1. 1 \in DOMAIN P[b0] BY <1>5, <1>6
    <3>2. QED BY <1>3, <1>4, <1>6, <3>1, CellsByPosition
  <2>4. QED BY <2>1, <2>2, <2>3
<1>13. NamesOf(P) = NamesOf(T) \union {c.name}
  BY <1>12 DEF NamesOf
<1>14. QED BY <1>7, <1>9, <1>11, <1>12, <1>13

(* Overwriting the data of a cell changes no name and no position. *)
LEMMA OverwriteKeeps ==
  ASSUME NEW size \in Nat \ {0}, NEW T, IsTable(T, size), IsPlaced(T, size), IsDistinct(T),
         NEW b0 \in DOMAIN T, NEW k0 \in DOMAIN T[b0], NEW v \in Value,
         NEW P, P = Overwritten(T, b0, k0, v)
  PROVE  /\ IsTable(P, size) /\ IsPlaced(P, size) /\ IsDistinct(P)
         /\ NamesOf(P) = NamesOf(T)
<1> DEFINE e == [name |-> T[b0][k0].name, data |-> v]
<1>1. /\ T[b0] \in Seq(Cell) /\ k0 \in 1..Len(T[b0]) /\ T[b0][k0] \in Cell
      /\ DOMAIN T[b0] = 1..Len(T[b0])
  BY ChainType
<1>2. e \in Cell /\ e.name = T[b0][k0].name BY <1>1 DEF Cell
<1>3. /\ DOMAIN P = DOMAIN T /\ P[b0] = [T[b0] EXCEPT ![k0] = e]
      /\ \A b \in DOMAIN T : b # b0 => P[b] = T[b]
  BY DEF Overwritten
<1> HIDE DEF e
<1>4. /\ P[b0] \in Seq(Cell) /\ Len(P[b0]) = Len(T[b0])
      /\ \A k \in 1..Len(T[b0]) : P[b0][k] = IF k = k0 THEN e ELSE T[b0][k]
  BY <1>1, <1>2, <1>3, ExceptSeq
<1>5. DOMAIN P[b0] = DOMAIN T[b0] BY <1>1, <1>3
<1>6. /\ DOMAIN P = DOMAIN T
      /\ \A b \in DOMAIN T : /\ DOMAIN P[b] = DOMAIN T[b]
                             /\ \A k \in DOMAIN T[b] : P[b][k].name = T[b][k].name
  <2>1. \A k \in DOMAIN T[b0] : P[b0][k].name = T[b0][k].name BY <1>1, <1>2, <1>4
  <2>2. QED BY <1>3, <1>5, <2>1
<1>7. IsTable(P, size) BY <1>3, <1>4 DEF IsTable
<1>8. IsPlaced(P, size) BY <1>6 DEF IsPlaced
<1>9. IsDistinct(P) BY <1>6 DEF IsDistinct
<1>10. \A n : n \in NamesOf(P) <=> n \in NamesOf(T)
  <2> TAKE n
  <2>1. n \in NamesOf(P) <=> \E b \in DOMAIN P : \E k \in DOMAIN P[b] : n = P[b][k].name
    BY CellsByPosition
  <2>2. n \in NamesOf(T) <=> \E b \in DOMAIN T : \E k \in DOMAIN T[b] : n = T[b][k].name
    BY CellsByPosition
  <2>3. QED BY <1>6, <2>1, <2>2
<1>11. QED BY <1>7, <1>8, <1>9, <1>10

(* Where the cells of a table are after its k0-th of bucket b0 is unlinked. *)
LEMMA UnlinkPlaces ==
  ASSUME NEW size \in Nat, NEW T, IsTable(T, size), NEW b0 \in DOMAIN T, NEW k0 \in DOMAIN T[b0],
         NEW P, P = Unlinked(T, b0, k0)
  PROVE  /\ DOMAIN P = DOMAIN T /\ \A b \in DOMAIN T : b # b0 => P[b] = T[b]
         /\ P[b0] \in Seq(Cell) /\ DOMAIN P[b0] = 1..Len(T[b0]) - 1
         /\ \A l \in 1..Len(T[b0]) - 1 : P[b0][l] = IF l < k0 THEN T[b0][l] ELSE T[b0][l + 1]
<1> DEFINE C == T[b0]
<1>1. C \in Seq(Cell) /\ k0 \in 1..Len(C) BY ChainType
<1>2. /\ DOMAIN P = DOMAIN T /\ P[b0] = RemoveAt(C, k0)
      /\ \A b \in DOMAIN T : b # b0 => P[b] = T[b]
  BY DEF Unlinked
<1> HIDE DEF C
<1>3. /\ RemoveAt(C, k0) \in Seq(Cell) /\ DOMAIN RemoveAt(C, k0) = 1..Len(C) - 1
      /\ \A l \in 1..Len(C) - 1 : RemoveAt(C, k0)[l] = IF l < k0 THEN C[l] ELSE C[l + 1]
  BY <1>1, UnlinkChain
<1>4. /\ P[b0] \in Seq(Cell) /\ DOMAIN P[b0] = 1..Len(C) - 1
      /\ \A l \in 1..Len(C) - 1 : P[b0][l] = IF l < k0 THEN C[l] ELSE C[l + 1]
  BY <1>2, <1>3
<1>5. QED BY <1>2, <1>4 DEF C

(* Unlinking a cell removes its name and no other. *)
LEMMA UnlinkKeeps ==
  ASSUME NEW size \in Nat \ {0}, NEW T, IsTable(T, size), IsPlaced(T, size), IsDistinct(T),
         NEW b0 \in DOMAIN T, NEW k0 \in DOMAIN T[b0],
         NEW P, P = Unlinked(T, b0, k0)
  PROVE  /\ IsTable(P, size) /\ IsPlaced(P, size) /\ IsDistinct(P)
         /\ NamesOf(P) = NamesOf(T) \ {T[b0][k0].name}
<1> DEFINE old(b, k) == IF b = b0 /\ ~ (k < k0) THEN k + 1 ELSE k
<1>1. /\ T[b0] \in Seq(Cell) /\ Len(T[b0]) \in Nat /\ k0 \in 1..Len(T[b0])
      /\ DOMAIN T[b0] = 1..Len(T[b0])
  BY ChainType
<1>2. DOMAIN P = DOMAIN T /\ \A b \in DOMAIN T : b # b0 => P[b] = T[b] BY UnlinkPlaces
<1>3. /\ P[b0] \in Seq(Cell) /\ DOMAIN P[b0] = 1..Len(T[b0]) - 1
      /\ \A l \in 1..Len(T[b0]) - 1 : P[b0][l] = IF l < k0 THEN T[b0][l] ELSE T[b0][l + 1]
  BY UnlinkPlaces
<1>4. ASSUME NEW b \in DOMAIN P, NEW k \in DOMAIN P[b]
      PROVE  /\ b \in DOMAIN T /\ k \in Nat /\ old(b, k) \in DOMAIN T[b] /\ P[b][k] = T[b][old(b, k)]
             /\ ~ (b = b0 /\ old(b, k) = k0)
  <2>1. CASE b # b0 BY <1>2, <2>1, ChainType
  <2>2. CASE b = b0
    <3>1. k \in 1..Len(T[b0]) - 1 BY <1>3, <2>2
    <3>2. /\ k \in Nat /\ k \in 1..Len(T[b0]) /\ k + 1 \in 1..Len(T[b0]) BY <1>1, <3>1
    <3>3. P[b0][k] = IF k < k0 THEN T[b0][k] ELSE T[b0][k + 1] BY <1>3, <3>1
    <3>4. k0 \in Nat BY <1>1
    <3>5. QED BY <1>1, <1>2, <2>2, <3>2, <3>3, <3>4
  <2>3. QED BY <2>1, <2>2
<1>5. IsTable(P, size) BY <1>2, <1>3 DEF IsTable
<1>6. IsPlaced(P, size)
  <2> SUFFICES ASSUME NEW b \in DOMAIN P, NEW k \in DOMAIN P[b]
               PROVE  set_hash(P[b][k].name, size) = b
    BY DEF IsPlaced
  <2> HIDE DEF old
  <2>1. QED BY <1>4 DEF IsPlaced
<1>7. IsDistinct(P)
  <2> SUFFICES ASSUME NEW b \in DOMAIN P, NEW d \in DOMAIN P,
                      NEW k \in DOMAIN P[b], NEW l \in DOMAIN P[d],
                      P[b][k].name = P[d][l].name
               PROVE  b = d /\ k = l
    BY DEF IsDistinct
  <2>1. /\ b \in DOMAIN T /\ k \in Nat /\ old(b, k) \in DOMAIN T[b] /\ P[b][k] = T[b][old(b, k)]
        /\ d \in DOMAIN T /\ l \in Nat /\ old(d, l) \in DOMAIN T[d] /\ P[d][l] = T[d][old(d, l)]
    BY <1>4
  <2>2. b = d /\ old(b, k) = old(d, l)
    <3> HIDE DEF old
    <3>1. QED BY <2>1 DEF IsDistinct
  <2>3. k0 \in Nat BY <1>1
  <2>4. QED BY <2>1, <2>2, <2>3
<1>8. NamesOf(P) \subseteq NamesOf(T) \ {T[b0][k0].name}
  <2> SUFFICES ASSUME NEW n \in NamesOf(P) PROVE n \in NamesOf(T) /\ n # T[b0][k0].name
    OBVIOUS
  <2>1. PICK b \in DOMAIN P : \E k \in DOMAIN P[b] : n = P[b][k].name BY CellsByPosition
  <2>2. PICK k \in DOMAIN P[b] : n = P[b][k].name BY <2>1
  <2>3. /\ b \in DOMAIN T /\ old(b, k) \in DOMAIN T[b] /\ n = T[b][old(b, k)].name
        /\ ~ (b = b0 /\ old(b, k) = k0)
    BY <1>4, <2>2
  <2> HIDE DEF old
  <2>4. n \in NamesOf(T) BY <2>3, CellsByPosition
  <2>5. n # T[b0][k0].name BY <2>3 DEF IsDistinct
  <2>6. QED BY <2>4, <2>5
<1>9. NamesOf(T) \ {T[b0][k0].name} \subseteq NamesOf(P)
  <2> SUFFICES ASSUME NEW n \in NamesOf(T), n # T[b0][k0].name PROVE n \in NamesOf(P)
    OBVIOUS
  <2>1. PICK b \in DOMAIN T : \E k \in DOMAIN T[b] : n = T[b][k].name BY CellsByPosition
  <2>2. PICK k \in DOMAIN T[b] : n = T[b][k].name BY <2>1
  <2>3. CASE b # b0 BY <1>2, <2>2, <2>3, CellsByPosition
  <2>4. CASE b = b0
    <3>1. k \in Nat /\ k0 \in Nat /\ k \in 1..Len(T[b0]) /\ k # k0 BY <1>1, <2>2, <2>4
    <3>2. CASE k < k0
      <4>1. k \in 1..Len(T[b0]) - 1 BY <1>1, <3>1, <3>2
      <4>2. P[b0][k].name = n BY <1>3, <2>2, <2>4, <3>2, <4>1
      <4>3. QED BY <1>2, <1>3, <4>1, <4>2, CellsByPosition
    <3>3. CASE k > k0
      <4>1. /\ k - 1 \in 1..Len(T[b0]) - 1 /\ ~ (k - 1 < k0) /\ (k - 1) + 1 = k
        BY <1>1, <3>1, <3>3
      <4>2. P[b0][k - 1].name = n BY <1>3, <2>2, <2>4, <4>1
      <4>3. QED BY <1>2, <1>3, <4>1, <4>2, CellsByPosition
    <3>4. QED BY <3>1, <3>2, <3>3
  <2>5. QED BY <2>3, <2>4
<1>10. QED BY <1>5, <1>6, <1>7, <1>8, <1>9

(* The table of a new set. *)
LEMMA EmptyTableKeeps ==
  ASSUME NEW size \in Nat
  PROVE  /\ IsTable(EmptyTable(size), size) /\ IsPlaced(EmptyTable(size), size)
         /\ IsDistinct(EmptyTable(size))
         /\ CellsOf(EmptyTable(size)) = {} /\ NamesOf(EmptyTable(size)) = {}
<1> DEFINE T == EmptyTable(size)
<1>1. DOMAIN T = 0..size - 1 /\ \A b \in DOMAIN T : T[b] = <<>> BY DEF EmptyTable
<1>2. \A b \in DOMAIN T : T[b] \in Seq(Cell) /\ DOMAIN T[b] = {} BY <1>1
<1> HIDE DEF T
<1>3. IsTable(T, size) BY <1>1, <1>2 DEF IsTable
<1>4. IsPlaced(T, size) /\ IsDistinct(T) BY <1>2 DEF IsPlaced, IsDistinct
<1>5. CellsOf(T) = {} BY <1>2, CellsByPosition
<1>6. NamesOf(T) = {} BY <1>5 DEF NamesOf
<1>7. QED BY <1>3, <1>4, <1>5, <1>6 DEF T

(***************************************************************************)
(* The inductive invariant: what holds of the sets, of the running call    *)
(* and of a resize.                                                        *)
(***************************************************************************)
WellFormed(T, size, m) ==
  /\ IsTable(T, size) /\ IsPlaced(T, size) /\ IsDistinct(T)
  /\ IsFiniteSet(NamesOf(T)) /\ m = Cardinality(NamesOf(T))

SetsOK ==
  /\ hashsize \in [Handle -> Primes \union {0}]
  /\ DOMAIN table = Handle
  /\ members \in [Handle -> Nat]
  /\ \A h \in Handle : WellFormed(table[h], hashsize[h], members[h])

CallOK ==
  /\ pc \in {"idle", "resize", "add", "walk"}
  /\ call \in Calls /\ (call = NoCall <=> pc = "idle")
  /\ pc # "idle" => Live(call.dst)
  /\ pc = "add" => call.op = "add"
  /\ pc = "walk" => call.op # "add"
  /\ pc = "resize" => call.op \in {"add", "union_inplace"}
  /\ pc # "idle" /\ call.op # "add" => Live(call.src) /\ Live(call.other)
  /\ i \in Nat /\ j \in Nat \ {0}
  /\ call.op = "diff_inplace" => call.src = call.dst
  /\ CursorInBounds

ResizeOK ==
  /\ IF pc = "resize" THEN new_n \in Primes ELSE new_n = 0
  /\ IsTable(new_table, new_n)
  /\ RehashExact

IInv == SetsOK /\ CallOK /\ ResizeOK

LEMMA SizeTypes ==
  ASSUME SetsOK, NEW h \in Handle
  PROVE  /\ hashsize[h] \in Nat /\ (Live(h) => hashsize[h] \in Nat \ {0} /\ hashsize[h] \in Primes)
         /\ members[h] \in Nat
         /\ WellFormed(table[h], hashsize[h], members[h])
<1>1. members[h] \in Nat /\ WellFormed(table[h], hashsize[h], members[h]) BY DEF SetsOK
<1>2. CASE hashsize[h] = 0 BY <1>1, <1>2 DEF Live
<1>3. CASE hashsize[h] \in Primes BY <1>1, <1>3, PrimesArePositive DEF Live
<1>4. hashsize[h] \in Primes \union {0} BY DEF SetsOK
<1>5. QED BY <1>2, <1>3, <1>4

LEMMA CallTypes ==
  ASSUME CallOK, pc # "idle"
  PROVE  /\ call.dst \in Handle /\ Live(call.dst)
         /\ call.op = "add" => call.name \in Name /\ call.data \in Value
         /\ call.op # "add" => /\ call.op \in Ops /\ call.src \in Handle /\ call.other \in Handle
                               /\ Live(call.src) /\ Live(call.other)
BY DEF CallOK, Calls, NoCall, Ops

(* A lookup in one bucket finds every name of a table that is placed. *)
LEMMA FoundIsMember ==
  ASSUME NEW size \in Nat \ {0}, NEW T, IsTable(T, size), IsPlaced(T, size), NEW n \in Name
  PROVE  Found(T[set_hash(n, size)], n) # {} <=> n \in NamesOf(T)
<1> DEFINE b == set_hash(n, size)
<1>1. b \in DOMAIN T BY BucketExists DEF IsTable
<1>2. DOMAIN T[b] = 1..Len(T[b]) /\ Len(T[b]) \in Nat BY <1>1, ChainType
<1>3. ASSUME NEW k \in Found(T[b], n) PROVE n \in NamesOf(T)
  <2>1. k \in DOMAIN T[b] /\ T[b][k].name = n BY DEF Found
  <2> HIDE DEF b
  <2>2. QED BY <1>1, <2>1, CellsByPosition
<1>4. ASSUME n \in NamesOf(T) PROVE Found(T[b], n) # {}
  <2>1. PICK e \in DOMAIN T : \E k \in DOMAIN T[e] : n = T[e][k].name BY <1>4, CellsByPosition
  <2>2. e = b BY <2>1 DEF IsPlaced
  <2> DEFINE S == {k \in DOMAIN T[b] : T[b][k].name = n}
  <2>3. S # {} BY <2>1, <2>2
  <2>4. S \in SUBSET Nat BY <1>2
  <2>5. PICK m \in S : \A k \in S : m <= k BY <2>3, <2>4, LeastExists
  <2>6. ASSUME NEW l \in 1..m - 1 PROVE T[b][l].name # n
    <3>1. m \in Nat /\ m \in 1..Len(T[b]) BY <1>2, <2>4, <2>5
    <3>2. l \in DOMAIN T[b] /\ ~(m <= l) BY <1>2, <3>1
    <3>3. QED BY <2>5, <3>2
  <2>7. m \in Found(T[b], n) BY <2>5, <2>6 DEF Found
  <2>8. QED BY <2>7
<1>5. QED BY <1>3, <1>4

(* set_add_noresize keeps every set well-formed. *)
LEMMA AddKeepsSets ==
  ASSUME SetsOK, NEW h \in Handle, Live(h), NEW n \in Name, NEW d \in Value,
         set_add_noresize(h, n, d), UNCHANGED hashsize
  PROVE  /\ SetsOK' /\ NamesOf(table'[h]) = NamesOf(table[h]) \union {n}
         /\ \A g \in Handle \ {h} : table'[g] = table[g] /\ members'[g] = members[g]
<1> DEFINE b == set_hash(n, hashsize[h])
<1>1. /\ hashsize[h] \in Nat \ {0} /\ members[h] \in Nat
      /\ IsTable(table[h], hashsize[h]) /\ IsPlaced(table[h], hashsize[h]) /\ IsDistinct(table[h])
      /\ IsFiniteSet(NamesOf(table[h])) /\ members[h] = Cardinality(NamesOf(table[h]))
  BY SizeTypes DEF WellFormed
<1>2. b \in DOMAIN table[h] BY <1>1, BucketExists DEF IsTable
<1>3. Chain(h, n) = table[h][b] BY DEF Chain
<1> HIDE DEF b
<1>4. SUFFICES WellFormed(table'[h], hashsize[h], members'[h]) /\ members'[h] \in Nat
               /\ table' = [table EXCEPT ![h] = table'[h]]
               /\ members' = [members EXCEPT ![h] = members'[h]]
               /\ NamesOf(table'[h]) = NamesOf(table[h]) \union {n}
  BY DEF SetsOK
<1>5. CASE \E k \in Found(Chain(h, n), n) : /\ table' = [table EXCEPT ![h] = Overwritten(@, b, k, d)]
                                            /\ UNCHANGED members
  <2>1. PICK k \in Found(Chain(h, n), n) : table' = [table EXCEPT ![h] = Overwritten(@, b, k, d)]
    BY <1>5
  <2>2. k \in DOMAIN table[h][b] BY <1>3 DEF Found
  <2>3. table'[h] = Overwritten(table[h], b, k, d) BY <2>1 DEF SetsOK
  <2>4. /\ IsTable(table'[h], hashsize[h]) /\ IsPlaced(table'[h], hashsize[h]) /\ IsDistinct(table'[h])
        /\ NamesOf(table'[h]) = NamesOf(table[h])
    BY <1>1, <1>2, <2>2, <2>3, OverwriteKeeps
  <2>7. n \in NamesOf(table[h])
    <3>1. table[h][b][k].name = n BY <1>3 DEF Found
    <3>2. QED BY <1>2, <2>2, <3>1, CellsByPosition
  <2>5. members'[h] = members[h] /\ members' = [members EXCEPT ![h] = members'[h]]
    BY <1>5 DEF SetsOK
  <2>6. QED BY <1>1, <2>1, <2>3, <2>4, <2>5, <2>7 DEF WellFormed
<1>6. CASE /\ ~set_get(h, n)
           /\ table' = [table EXCEPT ![h] = Prepended(@, b, [name |-> n, data |-> d])]
           /\ members' = [members EXCEPT ![h] = @ + 1]
  <2> DEFINE c == [name |-> n, data |-> d]
  <2>1. c \in Cell /\ c.name = n BY DEF Cell
  <2>2. table'[h] = Prepended(table[h], set_hash(c.name, hashsize[h]), c) BY <1>6 DEF SetsOK, b
  <2> HIDE DEF c
  <2>3. n \notin NamesOf(table[h])
    <3>1. Found(Chain(h, n), n) = {} BY <1>6 DEF set_get
    <3>2. QED BY <1>1, <3>1, FoundIsMember DEF Chain
  <2>4. /\ IsTable(table'[h], hashsize[h]) /\ IsPlaced(table'[h], hashsize[h]) /\ IsDistinct(table'[h])
        /\ NamesOf(table'[h]) = NamesOf(table[h]) \union {n}
    BY <1>1, <2>1, <2>2, <2>3, PrependKeeps
  <2>5. members'[h] = members[h] + 1 /\ members' = [members EXCEPT ![h] = members'[h]]
    BY <1>6 DEF SetsOK
  <2>6. /\ IsFiniteSet(NamesOf(table'[h])) /\ members'[h] = Cardinality(NamesOf(table'[h]))
    <3> DEFINE S == NamesOf(table[h])
    <3>1. n \notin S /\ IsFiniteSet(S) /\ members'[h] = Cardinality(S) + 1
          /\ NamesOf(table'[h]) = S \union {n}
      BY <1>1, <2>3, <2>4, <2>5
    <3> HIDE DEF S
    <3>2. IsFiniteSet(S \union {n}) /\ Cardinality(S \union {n}) = Cardinality(S) + 1
      BY <3>1, FS_AddElement
    <3>3. QED BY <3>1, <3>2
  <2>7. QED BY <1>1, <1>6, <2>2, <2>4, <2>5, <2>6 DEF WellFormed, SetsOK
<1>7. QED BY <1>5, <1>6 DEF set_add_noresize, b

(* Unlinking keeps every set well-formed. *)
LEMMA UnlinkKeepsSets ==
  ASSUME SetsOK, NEW h \in Handle, Live(h),
         NEW b \in DOMAIN table[h], NEW k \in DOMAIN table[h][b],
         Unlink(h, b, k), UNCHANGED hashsize
  PROVE  /\ SetsOK' /\ NamesOf(table'[h]) \subseteq NamesOf(table[h]) /\ members'[h] = members[h] - 1
         /\ \A g \in Handle \ {h} : table'[g] = table[g] /\ members'[g] = members[g]
<1>1. /\ hashsize[h] \in Nat \ {0} /\ members[h] \in Nat
      /\ IsTable(table[h], hashsize[h]) /\ IsPlaced(table[h], hashsize[h]) /\ IsDistinct(table[h])
      /\ IsFiniteSet(NamesOf(table[h])) /\ members[h] = Cardinality(NamesOf(table[h]))
  BY SizeTypes DEF WellFormed
<1>2. table'[h] = Unlinked(table[h], b, k) /\ table' = [table EXCEPT ![h] = table'[h]]
  BY DEF Unlink, SetsOK
<1>3. members'[h] = members[h] - 1 /\ members' = [members EXCEPT ![h] = members'[h]]
  BY DEF Unlink, SetsOK
<1>4. /\ IsTable(table'[h], hashsize[h]) /\ IsPlaced(table'[h], hashsize[h]) /\ IsDistinct(table'[h])
      /\ NamesOf(table'[h]) = NamesOf(table[h]) \ {table[h][b][k].name}
  BY <1>1, <1>2, UnlinkKeeps
<1>5. table[h][b][k].name \in NamesOf(table[h]) BY CellsByPosition
<1>6. /\ IsFiniteSet(NamesOf(table'[h])) /\ members'[h] = Cardinality(NamesOf(table'[h]))
  <2> DEFINE S == NamesOf(table[h])
             x == table[h][b][k].name
  <2>1. x \in S /\ IsFiniteSet(S) /\ members'[h] = Cardinality(S) - 1
        /\ NamesOf(table'[h]) = S \ {x}
    BY <1>1, <1>3, <1>4, <1>5
  <2> HIDE DEF S, x
  <2>2. IsFiniteSet(S \ {x}) /\ Cardinality(S \ {x}) = Cardinality(S) - 1
    BY <2>1, FS_RemoveElement
  <2>3. QED BY <2>1, <2>2
<1>7. members'[h] \in Nat BY <1>6, FS_CardinalityType
<1>8. SetsOK' BY <1>2, <1>3, <1>4, <1>6, <1>7 DEF SetsOK, WellFormed
<1>9. QED BY <1>2, <1>3, <1>4, <1>8 DEF SetsOK

(* A newly allocated set is well-formed and empty. *)
LEMMA AllocKeepsSets ==
  ASSUME SetsOK, NEW h \in Handle, NEW hint \in Nat, Alloc(h, hint)
  PROVE  /\ SetsOK' /\ ~Live(h) /\ Live(h)' /\ next_prime(hint) \in Primes
         /\ hashsize' = [hashsize EXCEPT ![h] = next_prime(hint)]
<1> DEFINE p == next_prime(hint)
<1>1. p \in Primes /\ p \in Nat \ {0} BY NextPrime DEF Alloc
<1>2. /\ hashsize' = [hashsize EXCEPT ![h] = p]
      /\ table' = [table EXCEPT ![h] = EmptyTable(p)]
      /\ members' = [members EXCEPT ![h] = 0]
  BY DEF Alloc
<1> HIDE DEF p
<1>3. WellFormed(EmptyTable(p), p, 0)
  BY <1>1, EmptyTableKeeps, FS_EmptySet DEF WellFormed
<1>4. SetsOK' BY <1>1, <1>2, <1>3 DEF SetsOK
<1>5. ~Live(h) /\ Live(h)' BY <1>1, <1>2 DEF Alloc, Live, SetsOK
<1>6. QED BY <1>1, <1>2, <1>4, <1>5 DEF p

(***************************************************************************)
(* The invariant holds initially, and every step keeps it.                 *)
(***************************************************************************)
LEMMA InitInv == Init => IInv
<1> SUFFICES ASSUME Init PROVE IInv OBVIOUS
<1>1. IsTable(<<>>, 0)
  BY DEF IsTable
<1>2. IsPlaced(<<>>, 0) /\ IsDistinct(<<>>)
  BY DEF IsPlaced, IsDistinct
<1>3. CellsOf(<<>>) = {} BY CellsByPosition
<1>4. NamesOf(<<>>) = {} BY <1>3 DEF NamesOf
<1>5. WellFormed(<<>>, 0, 0)
  BY <1>1, <1>2, <1>4, FS_EmptySet DEF WellFormed
<1>6. SetsOK BY <1>5 DEF SetsOK, Init
<1>7. CallOK BY DEF CallOK, Init, Calls, NoCall, CursorInBounds
<1>8. ResizeOK BY <1>1 DEF ResizeOK, Init, RehashExact
<1>9. QED BY <1>6, <1>7, <1>8 DEF IInv

(* While no resize runs, the part of the invariant about it is kept by a   *)
(* step that leaves its variables alone and starts none.                   *)
LEMMA NoResize ==
  ASSUME ResizeOK, pc # "resize", pc' # "resize", UNCHANGED <<new_n, new_table>>
  PROVE  ResizeOK'
BY DEF ResizeOK, RehashExact

(* A set that already has a listed size keeps it in next_prime. *)
LEMMA NextPrimeOfPrime ==
  ASSUME NEW p \in Primes, Fits(p)
  PROVE  next_prime(p) = p
<1>1. Primes \subseteq Nat \ {0} BY PrimesAssumption DEF PrimesAssumption
<1> DEFINE Least(m) == m \in Primes /\ m >= p /\ \A q \in Primes : q >= p => m <= q
<1>2. Least(p) BY <1>1
<1>3. \A m : Least(m) => m = p BY <1>1
<1>4. next_prime(p) = CHOOSE m \in Primes : m >= p /\ \A q \in Primes : q >= p => m <= q
  BY DEF next_prime
<1>5. Least(next_prime(p)) BY <1>2, <1>4
<1>6. QED BY <1>3, <1>5

(* The start of a resize, from a call that is then recorded. *)
LEMMA StartResizeKeeps ==
  ASSUME IInv, Idle, NEW h \in Handle, Live(h), NEW hint \in Nat, StartResize(h, hint),
         call'.op \in {"add", "union_inplace"}, call'.dst = h, call' \in Calls,
         call'.op # "add" => Live(call'.src) /\ Live(call'.other)
  PROVE  IInv'
<1> DEFINE p == next_prime(hint)
<1>1. p \in Primes /\ p \in Nat \ {0} BY NextPrime DEF StartResize
<1>2. /\ pc' = "resize" /\ new_n' = p /\ new_table' = EmptyTable(p)
      /\ i' = 0 /\ j' = 1 /\ UNCHANGED <<hashsize, table, members>>
  BY DEF StartResize
<1> HIDE DEF p
<1>3. SetsOK' BY <1>2 DEF IInv, SetsOK
<1>4. CallOK'
  BY <1>2 DEF CallOK, IInv, Live, NoCall, CursorInBounds
<1>5. Passed(table[h])' = {}
  <2>1. \A b \in DOMAIN table[h] : \A l \in DOMAIN table[h][b] : ~ Before(b, l)'
    <3>1. IsTable(table[h], hashsize[h]) /\ hashsize[h] \in Nat BY SizeTypes DEF IInv, WellFormed
    <3>2. TAKE b \in DOMAIN table[h]
    <3>3. TAKE l \in DOMAIN table[h][b]
    <3>4. l \in 1..Len(table[h][b]) /\ Len(table[h][b]) \in Nat /\ b \in 0..hashsize[h] - 1
      BY <3>1, ChainType
    <3>5. l \in Nat /\ b \in Nat /\ l >= 1 BY <3>1, <3>4
    <3>6. QED BY <1>2, <3>5 DEF Before
  <2>2. QED BY <1>2, <2>1 DEF Passed
<1>6. RehashExact'
  BY <1>1, <1>2, <1>5, EmptyTableKeeps DEF RehashExact
<1>7. IsTable(new_table, new_n)' BY <1>1, <1>2, EmptyTableKeeps
<1>8. ResizeOK' BY <1>1, <1>2, <1>6, <1>7 DEF ResizeOK
<1>9. QED BY <1>3, <1>4, <1>8 DEF IInv

LEMMA NewInv == ASSUME IInv, NEW h \in Handle, NEW hint \in Hints, set_new(h, hint) PROVE IInv'
<1>1. hint \in Nat BY HintsAssumption DEF HintsAssumption
<1>2. SetsOK' BY <1>1, AllocKeepsSets DEF IInv, set_new
<1>3. CallOK'
  BY DEF IInv, CallOK, set_new, Unmoved, Idle, CursorInBounds
<1>4. ResizeOK' BY NoResize DEF IInv, set_new, Unmoved, Idle
<1>5. QED BY <1>2, <1>3, <1>4 DEF IInv

LEMMA DestroyInv == ASSUME IInv, NEW h \in Handle, set_destroy(h) PROVE IInv'
<1>1. /\ hashsize' = [hashsize EXCEPT ![h] = 0] /\ table' = [table EXCEPT ![h] = <<>>]
      /\ members' = [members EXCEPT ![h] = 0]
  BY DEF set_destroy
<1>2. WellFormed(<<>>, 0, 0)
  <2>1. IsTable(<<>>, 0) BY DEF IsTable
  <2>2. IsPlaced(<<>>, 0) /\ IsDistinct(<<>>) BY DEF IsPlaced, IsDistinct
  <2>3. CellsOf(<<>>) = {} BY CellsByPosition
  <2>4. NamesOf(<<>>) = {} BY <2>3 DEF NamesOf
  <2>5. QED BY <2>1, <2>2, <2>4, FS_EmptySet DEF WellFormed
<1>3. SetsOK' BY <1>1, <1>2 DEF IInv, SetsOK
<1>4. CallOK' BY DEF IInv, CallOK, set_destroy, Unmoved, Idle, CursorInBounds
<1>5. ResizeOK' BY NoResize DEF IInv, set_destroy, Unmoved, Idle
<1>6. QED BY <1>3, <1>4, <1>5 DEF IInv

(* The bucket a lookup uses is one of the table's. *)
LEMMA FoundInTable ==
  ASSUME SetsOK, NEW h \in Handle, Live(h), NEW n \in Name, NEW k \in Found(Chain(h, n), n)
  PROVE  /\ set_hash(n, hashsize[h]) \in DOMAIN table[h]
         /\ k \in DOMAIN table[h][set_hash(n, hashsize[h])]
<1>1. hashsize[h] \in Nat \ {0} /\ IsTable(table[h], hashsize[h]) BY SizeTypes DEF WellFormed
<1>2. set_hash(n, hashsize[h]) \in DOMAIN table[h] BY <1>1, BucketExists DEF IsTable
<1>3. QED BY <1>2 DEF Found, Chain

LEMMA RemoveInv == ASSUME IInv, NEW h \in Handle, NEW n \in Name, set_remove(h, n) PROVE IInv'
<1>1. PICK k \in Found(Chain(h, n), n) : Unlink(h, set_hash(n, hashsize[h]), k)
  BY DEF set_remove
<1>2. Live(h) /\ SetsOK /\ UNCHANGED hashsize BY DEF set_remove, IInv
<1>3. SetsOK' BY <1>1, <1>2, FoundInTable, UnlinkKeepsSets
<1>4. CallOK' BY DEF IInv, CallOK, set_remove, Unmoved, Idle, Live, CursorInBounds
<1>5. ResizeOK' BY NoResize DEF IInv, set_remove, Unmoved, Idle
<1>6. QED BY <1>3, <1>4, <1>5 DEF IInv

LEMMA AddInv ==
  ASSUME IInv, NEW h \in Handle, NEW n \in Name, NEW d \in Value, set_add(h, n, d)
  PROVE  IInv'
<1>1. CASE ~Grows(h, members[h] + 1) /\ set_add_noresize(h, n, d)
           /\ UNCHANGED <<hashsize, pc, call>> /\ Unmoved
  <2>1. SetsOK' BY <1>1, AddKeepsSets DEF IInv, set_add
  <2>2. CallOK' BY <1>1 DEF IInv, CallOK, set_add, Unmoved, Idle, Live, CursorInBounds
  <2>3. ResizeOK' BY <1>1, NoResize DEF IInv, set_add, Unmoved, Idle
  <2>4. QED BY <2>1, <2>2, <2>3 DEF IInv
<1>2. CASE StartResize(h, members[h] + 1)
           /\ call' = [op |-> "add", dst |-> h, name |-> n, data |-> d]
  <2>1. members[h] + 1 \in Nat BY SizeTypes DEF IInv
  <2>2. call'.op = "add" /\ call'.dst = h /\ call' \in Calls BY <1>2 DEF Calls
  <2>3. QED BY <1>2, <2>1, <2>2, StartResizeKeeps DEF set_add
<1>3. QED BY <1>1, <1>2 DEF set_add

(* The start of a walk that finds its sets as they were. *)
LEMMA StartWalkKeeps ==
  ASSUME IInv, Idle, StartWalk, SetsOK', NEW op \in Ops \ {"add"},
         NEW h \in Handle, NEW s \in Handle, NEW o \in Handle,
         Walk(op, h, s, o), Live(h)', Live(s)', Live(o)',
         op = "diff_inplace" => s = h,
         op = "diff" => hashsize'[h] = hashsize'[s]
  PROVE  IInv'
<1>1. call' = [op |-> op, dst |-> h, src |-> s, other |-> o] BY DEF Walk
<1>2. call' \in Calls /\ call'.op # "add" /\ call' # NoCall BY <1>1 DEF Calls, Ops, NoCall
<1>3. CursorInBounds'
  <2>1. hashsize'[s] \in Nat
    <3>1. hashsize'[s] \in Primes \/ hashsize'[s] = 0 BY DEF SetsOK
    <3>2. QED BY <3>1, PrimesArePositive
  <2>2. CASE op = "diff" BY <1>1, <2>1, <2>2 DEF CursorInBounds, WalkBound
  <2>3. CASE op # "diff" BY <1>1, <2>1, <2>3 DEF CursorInBounds, WalkBound
  <2>4. QED BY <2>2, <2>3
<1>4. CallOK'
  BY <1>1, <1>2, <1>3 DEF CallOK, IInv, StartWalk, Unmoved
<1>5. ResizeOK' BY NoResize DEF IInv, StartWalk, Unmoved, Idle
<1>6. QED BY <1>4, <1>5 DEF IInv

LEMMA UnionInplaceInv ==
  ASSUME IInv, NEW h \in Handle, NEW g \in Handle, set_union_inplace(h, g)
  PROVE  IInv'
<1>1. Idle /\ Live(h) /\ Live(g) /\ Walk("union_inplace", h, g, g) BY DEF set_union_inplace
<1>2. CASE StartResize(h, members[h] + members[g])
  <2>1. members[h] + members[g] \in Nat BY SizeTypes DEF IInv
  <2>2. call' = [op |-> "union_inplace", dst |-> h, src |-> g, other |-> g] BY <1>1 DEF Walk
  <2>3. call' \in Calls BY <2>2 DEF Calls, Ops
  <2>4. QED BY <1>1, <1>2, <2>1, <2>2, <2>3, StartResizeKeeps
<1>3. CASE StartWalk /\ UNCHANGED <<hashsize, table, members>>
  <2>1. SetsOK' BY <1>3 DEF IInv, SetsOK
  <2>2. Live(h)' /\ Live(g)' BY <1>1, <1>3 DEF Live
  <2>3. "union_inplace" \in Ops \ {"add"} BY DEF Ops
  <2>4. QED BY <1>1, <1>3, <2>1, <2>2, <2>3, StartWalkKeeps
<1>4. QED BY <1>2, <1>3 DEF set_union_inplace

LEMMA DiffInplaceInv ==
  ASSUME IInv, NEW h \in Handle, NEW g \in Handle, set_diff_inplace(h, g)
  PROVE  IInv'
<1>1. /\ Idle /\ Live(h) /\ Live(g) /\ Walk("diff_inplace", h, h, g) /\ StartWalk
      /\ UNCHANGED <<hashsize, table, members>>
  BY DEF set_diff_inplace
<1>2. SetsOK' BY <1>1 DEF IInv, SetsOK
<1>3. Live(h)' /\ Live(g)' BY <1>1 DEF Live
<1>4. "diff_inplace" \in Ops \ {"add"} BY DEF Ops
<1>5. QED BY <1>1, <1>2, <1>3, <1>4, StartWalkKeeps

(* The three calls that build a new set from two others. *)
LEMMA BuildInv ==
  ASSUME IInv, Idle, StartWalk, NEW op \in {"union", "diff", "intersect"},
         NEW h \in Handle, NEW s \in Handle, NEW o \in Handle, NEW hint \in Nat,
         Live(s), Live(o), Alloc(h, hint), Walk(op, h, s, o),
         op = "diff" => hint = hashsize[s]
  PROVE  IInv'
<1>1. /\ SetsOK' /\ ~Live(h) /\ Live(h)' /\ next_prime(hint) \in Primes
      /\ hashsize' = [hashsize EXCEPT ![h] = next_prime(hint)]
  BY AllocKeepsSets DEF IInv
<1>2. h # s /\ h # o BY <1>1
<1>3. hashsize'[s] = hashsize[s] /\ hashsize'[o] = hashsize[o] /\ hashsize'[h] = next_prime(hint)
  BY <1>1, <1>2 DEF IInv, SetsOK
<1>4. Live(s)' /\ Live(o)' BY <1>3 DEF Live
<1>5. ASSUME op = "diff" PROVE hashsize'[h] = hashsize'[s]
  <2>1. hashsize[s] \in Primes /\ hint = hashsize[s] BY <1>5, SizeTypes DEF IInv
  <2>2. Fits(hint) BY DEF Alloc
  <2>3. QED BY <1>3, <2>1, <2>2, NextPrimeOfPrime
<1>6. op \in Ops \ {"add"} /\ op # "diff_inplace" BY DEF Ops
<1>7. QED BY <1>1, <1>4, <1>5, <1>6, StartWalkKeeps

LEMMA UnionInv ==
  ASSUME IInv, NEW h \in Handle, NEW g \in Handle, NEW o \in Handle, set_union(h, g, o)
  PROVE  IInv'
<1>1. members[g] + members[o] \in Nat BY SizeTypes DEF IInv
<1>2. QED BY <1>1, BuildInv DEF set_union

LEMMA DiffInv ==
  ASSUME IInv, NEW h \in Handle, NEW g \in Handle, NEW o \in Handle, set_diff(h, g, o)
  PROVE  IInv'
<1>1. hashsize[g] \in Nat BY SizeTypes DEF IInv
<1>2. QED BY <1>1, BuildInv DEF set_diff

LEMMA IntersectInv ==
  ASSUME IInv, NEW h \in Handle, NEW g \in Handle, NEW o \in Handle, set_intersect(h, g, o)
  PROVE  IInv'
<1> DEFINE large == IF members[g] < members[o] THEN o ELSE g
           small == IF members[g] < members[o] THEN g ELSE o
<1>1. /\ Idle /\ Live(large) /\ Live(small) /\ large \in Handle /\ small \in Handle
      /\ Alloc(h, hashsize[large]) /\ Walk("intersect", h, small, large) /\ StartWalk
  BY DEF set_intersect
<1> HIDE DEF large, small
<1>2. hashsize[large] \in Nat BY <1>1, SizeTypes DEF IInv
<1>3. QED BY <1>1, <1>2, BuildInv

(***************************************************************************)
(* The loops.                                                              *)
(***************************************************************************)
LEMMA RehashCellInv == ASSUME IInv, RehashCell PROVE IInv'
<1> DEFINE T == table[call.dst]
           c == T[i][j]
<1>1. /\ pc = "resize" /\ i < hashsize[call.dst] /\ j <= Len(T[i])
      /\ new_table' = Prepended(new_table, set_hash(c.name, new_n), c)
      /\ j' = j + 1 /\ UNCHANGED <<hashsize, table, members, pc, call, new_n, i>>
  BY DEF RehashCell, ResizeCall
<1>2. call.dst \in Handle /\ Live(call.dst) /\ i \in Nat /\ j \in Nat \ {0}
  BY <1>1, CallTypes DEF IInv, CallOK
<1>3. /\ IsTable(T, hashsize[call.dst]) /\ hashsize[call.dst] \in Nat /\ IsDistinct(T)
  BY <1>2, SizeTypes DEF IInv, WellFormed
<1>4. i \in DOMAIN T BY <1>1, <1>2, <1>3 DEF IsTable
<1>5. j \in DOMAIN T[i] /\ c \in Cell
  <2>1. Len(T[i]) \in Nat /\ DOMAIN T[i] = 1..Len(T[i]) /\ \A k \in DOMAIN T[i] : T[i][k] \in Cell
    BY <1>3, <1>4, ChainType
  <2>2. j \in DOMAIN T[i] BY <1>1, <1>2, <2>1
  <2>3. QED BY <2>1, <2>2
<1>6. /\ new_n \in Primes /\ new_n \in Nat \ {0}
      /\ IsTable(new_table, new_n) /\ IsPlaced(new_table, new_n) /\ IsDistinct(new_table)
      /\ CellsOf(new_table) = Passed(T)
  <2>1. new_n \in Primes BY <1>1 DEF IInv, ResizeOK
  <2>2. QED BY <1>1, <2>1, PrimesArePositive DEF IInv, ResizeOK, RehashExact
(* A cell before the cursor has another name than the one under it. *)
<1>7. c.name \notin NamesOf(new_table)
  <2> SUFFICES ASSUME NEW e \in Passed(T), e.name = c.name PROVE FALSE
    BY <1>6 DEF NamesOf
  <2>1. PICK b \in DOMAIN T : \E k \in DOMAIN T[b] : Before(b, k) /\ e = T[b][k] BY DEF Passed
  <2>2. PICK k \in DOMAIN T[b] : Before(b, k) /\ e = T[b][k] BY <2>1
  <2>3. b = i /\ k = j BY <1>3, <1>4, <1>5, <2>2 DEF IsDistinct
  <2>4. QED BY <1>2, <2>2, <2>3 DEF Before
<1>8. /\ IsTable(new_table', new_n) /\ IsPlaced(new_table', new_n) /\ IsDistinct(new_table')
      /\ CellsOf(new_table') = CellsOf(new_table) \union {c}
  <2> HIDE DEF c
  <2>1. new_table' = Prepended(new_table, set_hash(c.name, new_n), c) BY <1>1
  <2> DEFINE P == new_table'
  <2>2. P = Prepended(new_table, set_hash(c.name, new_n), c) BY <2>1
  <2> HIDE DEF P
  <2>3. /\ IsTable(P, new_n) /\ IsPlaced(P, new_n) /\ IsDistinct(P)
        /\ CellsOf(P) = CellsOf(new_table) \union {c}
    BY <1>5, <1>6, <1>7, <2>2, PrependKeeps
  <2>4. QED BY <2>3 DEF P
<1>9. Passed(T)' = Passed(T) \union {c}
  <2>1. T' = T BY <1>1
  <2>2. ASSUME NEW b \in DOMAIN T, NEW k \in DOMAIN T[b]
        PROVE  Before(b, k)' <=> Before(b, k) \/ (b = i /\ k = j)
    <3>1. k \in Nat /\ b \in Nat
      <4>1. k \in Nat /\ b \in 0..hashsize[call.dst] - 1 BY <1>3, ChainType
      <4>2. QED BY <1>3, <4>1
    <3>2. QED BY <1>1, <1>2, <3>1 DEF Before
  <2> HIDE DEF T
  <2>3. Passed(T)' = UNION {{T[b][k] : k \in {l \in DOMAIN T[b] : Before(b, l)'}} : b \in DOMAIN T}
    BY <2>1 DEF Passed
  <2>4. Passed(T)' \subseteq Passed(T) \union {c} BY <2>2, <2>3 DEF Passed
  <2>5. Passed(T) \subseteq Passed(T)' BY <2>2, <2>3 DEF Passed
  <2>6. c \in Passed(T)' BY <1>4, <1>5, <2>2, <2>3
  <2>7. QED BY <2>4, <2>5, <2>6
<1>10. ResizeOK' BY <1>1, <1>6, <1>8, <1>9 DEF ResizeOK, RehashExact
<1>11. SetsOK' BY <1>1 DEF IInv, SetsOK
<1>12. CallOK' BY <1>1, <1>2 DEF IInv, CallOK, Live, CursorInBounds
<1>13. QED BY <1>10, <1>11, <1>12 DEF IInv

LEMMA RehashBucketInv == ASSUME IInv, RehashBucket PROVE IInv'
<1> DEFINE T == table[call.dst]
<1>1. /\ pc = "resize" /\ i < hashsize[call.dst] /\ j > Len(T[i])
      /\ i' = i + 1 /\ j' = 1
      /\ UNCHANGED <<hashsize, table, members, pc, call, new_n, new_table>>
  BY DEF RehashBucket, ResizeCall
<1>2. call.dst \in Handle /\ i \in Nat /\ j \in Nat \ {0}
  BY <1>1, CallTypes DEF IInv, CallOK
<1>3. IsTable(T, hashsize[call.dst]) /\ hashsize[call.dst] \in Nat
  BY <1>2, SizeTypes DEF IInv, WellFormed
<1>4. T' = T BY <1>1
<1>5. ASSUME NEW b \in DOMAIN T, NEW k \in DOMAIN T[b]
      PROVE  Before(b, k)' <=> Before(b, k)
  <2>1. k \in 1..Len(T[b]) /\ Len(T[b]) \in Nat /\ b \in 0..hashsize[call.dst] - 1
    BY <1>3, ChainType
  <2>2. k \in Nat /\ k >= 1 /\ k <= Len(T[b]) /\ b \in Nat BY <1>3, <2>1
  <2>3. b = i => k < j BY <1>1, <1>2, <2>1, <2>2
  <2>4. QED BY <1>1, <1>2, <2>2, <2>3 DEF Before
<1> HIDE DEF T
<1>6. Passed(T)' = Passed(T) BY <1>4, <1>5 DEF Passed
<1>7. RehashExact' BY <1>1, <1>6 DEF IInv, ResizeOK, RehashExact, T
<1>8. ResizeOK' BY <1>1, <1>7 DEF IInv, ResizeOK
<1>9. SetsOK' BY <1>1 DEF IInv, SetsOK
<1>10. CallOK' BY <1>1, <1>2 DEF IInv, CallOK, Live, CursorInBounds
<1>11. QED BY <1>8, <1>9, <1>10 DEF IInv

(* At the end the new table holds the cells of the old one. *)
LEMMA RehashDoneInv ==
  ASSUME IInv, RehashDone
  PROVE  IInv' /\ \A g \in Handle : /\ CellsOf(table'[g]) = CellsOf(table[g])
                                    /\ NamesOf(table'[g]) = NamesOf(table[g])
<1> DEFINE h == call.dst
           T == table[h]
<1>1. /\ pc = "resize" /\ i = hashsize[h]
      /\ table' = [table EXCEPT ![h] = new_table]
      /\ hashsize' = [hashsize EXCEPT ![h] = new_n]
      /\ new_n' = 0 /\ new_table' = <<>>
      /\ pc' = IF call.op = "add" THEN "add" ELSE "walk"
      /\ i' = 0 /\ j' = 1 /\ UNCHANGED <<members, call>>
  BY DEF RehashDone
<1>2. h \in Handle /\ Live(h) /\ i \in Nat BY <1>1, CallTypes DEF IInv, CallOK
<1>3. WellFormed(T, hashsize[h], members[h]) /\ hashsize[h] \in Nat
  BY <1>2, SizeTypes DEF IInv
<1>4. /\ IsTable(new_table, new_n) /\ IsPlaced(new_table, new_n) /\ IsDistinct(new_table)
      /\ CellsOf(new_table) = Passed(T) /\ new_n \in Primes
  BY <1>1 DEF IInv, ResizeOK, RehashExact
<1>5. Passed(T) = CellsOf(T)
  <2>1. ASSUME NEW b \in DOMAIN T, NEW k \in DOMAIN T[b] PROVE Before(b, k)
    <3>1. b \in 0..hashsize[h] - 1 BY <1>3, ChainType DEF WellFormed
    <3>2. QED BY <1>1, <1>3, <3>1 DEF Before
  <2> HIDE DEF T
  <2>2. QED BY <2>1 DEF Passed, CellsOf
<1>6. NamesOf(new_table) = NamesOf(T) BY <1>4, <1>5 DEF NamesOf
<1>7. WellFormed(new_table, new_n, members[h]) BY <1>3, <1>4, <1>6 DEF WellFormed
<1>8. SetsOK' BY <1>1, <1>2, <1>4, <1>7 DEF IInv, SetsOK
<1>9. \A p \in Primes : p # 0 BY PrimesArePositive
<1>10. \A g \in Handle : Live(g) => Live(g)'
  BY <1>1, <1>2, <1>4, <1>9 DEF Live, IInv, SetsOK
<1>11. call.op \in {"add", "union_inplace"} BY <1>1 DEF IInv, CallOK
<1>12. CursorInBounds'
  <2>1. SUFFICES ASSUME call.op = "union_inplace" PROVE hashsize'[call.src] <= hashsize'[call.src]
    BY <1>1, <1>11 DEF CursorInBounds, WalkBound
  <2>2. call.src \in Handle BY <1>1, <2>1, CallTypes DEF IInv
  <2>3. hashsize'[call.src] \in Primes \/ hashsize'[call.src] = 0 BY <1>8, <2>2 DEF SetsOK
  <2>4. hashsize'[call.src] \in Nat BY <2>3, PrimesArePositive
  <2>5. QED BY <2>4
<1>13. CallOK'
  <2>1. call.op # "add" => call.src \in Handle /\ call.other \in Handle /\ Live(call.src) /\ Live(call.other)
    BY <1>1, CallTypes DEF IInv
  <2>2. Live(call.dst)' /\ (call.op # "add" => Live(call.src)' /\ Live(call.other)')
    BY <1>1, <1>2, <1>10, <2>1 DEF Live
  <2>3. call # NoCall BY <1>1 DEF IInv, CallOK
  <2>4. QED BY <1>1, <1>11, <1>12, <2>2, <2>3 DEF IInv, CallOK, Live
<1>14. IsTable(<<>>, 0) BY DEF IsTable
<1>15. ResizeOK' BY <1>1, <1>14 DEF ResizeOK, RehashExact
<1>16. \A g \in Handle : /\ CellsOf(table'[g]) = CellsOf(table[g])
                        /\ NamesOf(table'[g]) = NamesOf(table[g])
  BY <1>1, <1>2, <1>4, <1>5, <1>6 DEF IInv, SetsOK
<1>17. QED BY <1>8, <1>13, <1>15, <1>16 DEF IInv

LEMMA AddAfterResizeInv == ASSUME IInv, AddAfterResize PROVE IInv'
<1>1. /\ pc = "add" /\ set_add_noresize(call.dst, call.name, call.data)
      /\ pc' = "idle" /\ call' = NoCall /\ UNCHANGED <<hashsize, new_n, new_table, i, j>>
  BY DEF AddAfterResize, Unmoved
<1>2. call.op = "add" BY <1>1 DEF IInv, CallOK
<1>3. call.dst \in Handle /\ Live(call.dst) /\ call.name \in Name /\ call.data \in Value
  BY <1>1, <1>2, CallTypes DEF IInv
<1>4. SetsOK' BY <1>1, <1>3, AddKeepsSets DEF IInv
<1>5. CallOK' BY <1>1 DEF IInv, CallOK, Calls, NoCall, CursorInBounds
<1>6. ResizeOK' BY <1>1, NoResize DEF IInv
<1>7. QED BY <1>4, <1>5, <1>6 DEF IInv

(* The cursor of a walk that is not at the end of a chain is at a cell. *)
LEMMA AtCellTypes ==
  ASSUME IInv, AtCell
  PROVE  /\ call.src \in Handle /\ call.dst \in Handle /\ Live(call.dst)
         /\ i \in DOMAIN table[call.src] /\ j \in DOMAIN table[call.src][i]
         /\ Here \in Cell
<1>1. pc = "walk" /\ i < WalkBound /\ j <= Len(table[call.src][i]) BY DEF AtCell, Walking
<1>2. call.op # "add" BY <1>1 DEF IInv, CallOK
<1>3. call.src \in Handle /\ call.dst \in Handle /\ Live(call.dst) BY <1>1, <1>2, CallTypes DEF IInv
<1>4. IsTable(table[call.src], hashsize[call.src]) /\ hashsize[call.src] \in Nat
  BY <1>3, SizeTypes DEF IInv, WellFormed
<1>5. WalkBound <= hashsize[call.src] /\ i \in Nat /\ j \in Nat \ {0}
  BY <1>1 DEF IInv, CallOK, CursorInBounds
<1>6. WalkBound \in Nat BY <1>3, SizeTypes DEF IInv, WalkBound
<1>7. i \in DOMAIN table[call.src] BY <1>1, <1>4, <1>5, <1>6 DEF IsTable
<1>8. /\ DOMAIN table[call.src][i] = 1..Len(table[call.src][i]) /\ Len(table[call.src][i]) \in Nat
      /\ \A k \in DOMAIN table[call.src][i] : table[call.src][i][k] \in Cell
  BY <1>4, <1>7, ChainType
<1>9. j \in DOMAIN table[call.src][i] BY <1>1, <1>5, <1>8
<1>10. QED BY <1>3, <1>7, <1>8, <1>9 DEF Here

(* A step of a walk that changes neither the call nor the sizes. *)
LEMMA WalkStepKeeps ==
  ASSUME IInv, pc = "walk", SetsOK', UNCHANGED <<hashsize, pc, call, new_n, new_table>>,
         i' \in Nat, j' \in Nat \ {0}
  PROVE  IInv'
<1>1. CallOK' BY DEF IInv, CallOK, Live, CursorInBounds, WalkBound
<1>2. ResizeOK' BY NoResize DEF IInv
<1>3. QED BY <1>1, <1>2 DEF IInv

LEMMA WalkCopyInv == ASSUME IInv, WalkCopy PROVE IInv'
<1>1. /\ AtCell /\ set_add_noresize(call.dst, Here.name, Here.data)
      /\ j' = j + 1 /\ UNCHANGED <<hashsize, pc, call, new_n, new_table, i>>
  BY DEF WalkCopy
<1>2. call.dst \in Handle /\ Live(call.dst) /\ Here.name \in Name /\ Here.data \in Value
  BY <1>1, AtCellTypes DEF Cell
<1>3. SetsOK' BY <1>1, <1>2, AddKeepsSets DEF IInv
<1>4. pc = "walk" BY <1>1 DEF AtCell, Walking
<1>5. QED BY <1>1, <1>3, <1>4, WalkStepKeeps DEF IInv, CallOK

LEMMA WalkUnlinkInv == ASSUME IInv, WalkUnlink PROVE IInv'
<1>1. /\ AtCell /\ call.op = "diff_inplace" /\ Unlink(call.dst, i, j)
      /\ UNCHANGED <<hashsize, pc, call, new_n, new_table, i, j>>
  BY DEF WalkUnlink, Drops
<1>2. call.src = call.dst BY <1>1 DEF IInv, CallOK
<1>3. /\ call.dst \in Handle /\ Live(call.dst)
      /\ i \in DOMAIN table[call.dst] /\ j \in DOMAIN table[call.dst][i]
  BY <1>1, <1>2, AtCellTypes
<1>4. SetsOK' BY <1>1, <1>3, UnlinkKeepsSets DEF IInv
<1>5. pc = "walk" BY <1>1 DEF AtCell, Walking
<1>6. QED BY <1>1, <1>4, <1>5, WalkStepKeeps DEF IInv, CallOK

LEMMA WalkSkipInv == ASSUME IInv, WalkSkip PROVE IInv'
<1>1. SetsOK' BY DEF IInv, SetsOK, WalkSkip
<1>2. QED BY <1>1, WalkStepKeeps DEF IInv, CallOK, WalkSkip, AtCell, Walking

LEMMA WalkBucketInv == ASSUME IInv, WalkBucket PROVE IInv'
<1>1. SetsOK' BY DEF IInv, SetsOK, WalkBucket
<1>2. QED BY <1>1, WalkStepKeeps DEF IInv, CallOK, WalkBucket, Walking

LEMMA WalkDoneInv == ASSUME IInv, WalkDone PROVE IInv'
<1>1. /\ pc = "walk" /\ i' = 0 /\ j' = 1
      /\ UNCHANGED <<hashsize, table, members, new_n, new_table>>
  BY DEF WalkDone
<1>2. SetsOK' BY <1>1 DEF IInv, SetsOK
<1>3. pc' # "resize" BY <1>1 DEF WalkDone
<1>4. ResizeOK' BY <1>1, <1>3, NoResize DEF IInv
<1>5. CASE call.op = "union" /\ call' = [call EXCEPT !.op = "union2", !.src = call.other] /\ UNCHANGED pc
  <2>1. /\ call.dst \in Handle /\ call.src \in Handle /\ call.other \in Handle
        /\ Live(call.dst) /\ Live(call.other)
    BY <1>1, <1>5, CallTypes DEF IInv
  <2>2. call \in [op : Ops \ {"add"}, dst : Handle, src : Handle, other : Handle]
    BY <1>5 DEF IInv, CallOK, Calls, NoCall, Ops
  <2>3. call' = [op |-> "union2", dst |-> call.dst, src |-> call.other, other |-> call.other]
    BY <1>5, <2>2
  <2>4. call' \in Calls /\ call' # NoCall BY <2>1, <2>3 DEF Calls, Ops, NoCall
  <2>5. CursorInBounds'
    <3>1. hashsize[call.other] \in Nat BY <2>1, SizeTypes DEF IInv
    <3>2. QED BY <1>1, <2>3, <3>1 DEF CursorInBounds, WalkBound
  <2>6. CallOK' BY <1>1, <1>5, <2>1, <2>3, <2>4, <2>5 DEF CallOK, Live
  <2>7. QED BY <1>2, <1>4, <2>6 DEF IInv
<1>6. CASE call' = NoCall /\ pc' = "idle"
  <2>1. CallOK' BY <1>1, <1>6 DEF CallOK, Calls, NoCall, CursorInBounds
  <2>2. QED BY <1>2, <1>4, <2>1 DEF IInv
<1>7. QED BY <1>5, <1>6 DEF WalkDone

LEMMA StutterInv == ASSUME IInv, UNCHANGED vars PROVE IInv'
BY DEF IInv, SetsOK, CallOK, ResizeOK, RehashExact, Passed, Before, CursorInBounds, WalkBound,
       Live, vars

LEMMA NextInv == ASSUME IInv, [Next]_vars PROVE IInv'
<1>1. CASE Call BY <1>1, NewInv, DestroyInv, RemoveInv, AddInv, UnionInplaceInv, DiffInplaceInv,
                   UnionInv, DiffInv, IntersectInv DEF Call
<1>2. CASE Loop BY <1>2, RehashCellInv, RehashBucketInv, RehashDoneInv, AddAfterResizeInv,
                   WalkCopyInv, WalkUnlinkInv, WalkSkipInv, WalkBucketInv, WalkDoneInv DEF Loop
<1>3. CASE UNCHANGED vars BY <1>3, StutterInv
<1>4. QED BY <1>1, <1>2, <1>3 DEF Next

(* The inductive invariant holds in every state of every execution. *)
THEOREM Invariance == Spec => []IInv
<1>1. QED BY InitInv, NextInv, PTL DEF Spec

(***************************************************************************)
(* What follows from it, for any handles, names, data, hash and primes.    *)
(***************************************************************************)

(* Types of src/set.c's state: bucket arrays, counters, cursor, call. *)
THEOREM TypeCorrect == Spec => []TypeOK
<1>1. IInv => TypeOK
  BY DEF IInv, SetsOK, CallOK, ResizeOK, TypeOK, WellFormed
<1>2. QED BY <1>1, Invariance, PTL

(* Every element stays where a lookup of src/set.c searches for it. *)
THEOREM AlwaysPlaced == Spec => []Placed
<1>1. IInv => Placed BY DEF IInv, SetsOK, WellFormed, Placed
<1>2. QED BY <1>1, Invariance, PTL

(* No call of src/set.c, aliased arguments included, adds a name twice. *)
THEOREM AlwaysDistinct == Spec => []Distinct
<1>1. IInv => Distinct BY DEF IInv, SetsOK, WellFormed, Distinct
<1>2. QED BY <1>1, Invariance, PTL

(* The members counter is exact after every iteration of every loop. *)
THEOREM AlwaysCounted == Spec => []Counted
<1>1. IInv => Counted BY DEF IInv, SetsOK, WellFormed, Counted
<1>2. QED BY <1>1, Invariance, PTL

(* A resize loses and duplicates nothing. *)
THEOREM AlwaysRehashExact == Spec => []RehashExact
<1>1. IInv => RehashExact BY DEF IInv, ResizeOK
<1>2. QED BY <1>1, Invariance, PTL

(* No loop of src/set.c indexes a bucket its table does not have. *)
THEOREM AlwaysInBounds == Spec => []CursorInBounds
<1>1. IInv => CursorInBounds BY DEF IInv, CallOK
<1>2. QED BY <1>1, Invariance, PTL

(***************************************************************************)
(* Room.  What a set being written can come to have are its own names and  *)
(* those of the sets its loops walk: they fit before the loop begins.      *)
(***************************************************************************)
Reach ==
  NamesOf(table[call.dst]) \union NamesOf(table[call.src])
    \union (IF call.op = "union" THEN NamesOf(table[call.other]) ELSE {})

Roomy ==
  /\ LoadBounded
  /\ pc = "add" => members[call.dst] + 1 <= hashsize[call.dst]
  /\ pc = "resize" /\ call.op = "add" => members[call.dst] + 1 <= new_n
  /\ pc = "resize" /\ call.op = "union_inplace" => Cardinality(Reach) <= new_n
  /\ pc = "walk" => Cardinality(Reach) <= hashsize[call.dst]

LEMMA NamesAre ==
  ASSUME SetsOK, NEW h \in Handle
  PROVE  /\ IsFiniteSet(NamesOf(table[h])) /\ members[h] = Cardinality(NamesOf(table[h]))
         /\ members[h] \in Nat /\ hashsize[h] \in Nat
BY SizeTypes DEF WellFormed

(* Two sets together have at most the sum of what each has. *)
LEMMA SumBounds ==
  ASSUME NEW A, NEW B, IsFiniteSet(A), IsFiniteSet(B)
  PROVE  /\ IsFiniteSet(A \union B) /\ Cardinality(A \union B) \in Nat
         /\ Cardinality(A \union B) <= Cardinality(A) + Cardinality(B)
<1>1. /\ IsFiniteSet(A \union B)
      /\ Cardinality(A \union B) = Cardinality(A) + Cardinality(B) - Cardinality(A \intersect B)
  BY FS_Union
<1>2. IsFiniteSet(A \intersect B) BY FS_Intersection
<1>3. Cardinality(A) \in Nat /\ Cardinality(B) \in Nat /\ Cardinality(A \intersect B) \in Nat
      /\ Cardinality(A \union B) \in Nat
  BY <1>1, <1>2, FS_CardinalityType
<1>4. QED BY <1>1, <1>3

(* A set that need not grow has room for what it was asked to hold. *)
LEMMA HintFits ==
  ASSUME SetsOK, NEW h \in Handle, NEW hint \in Nat, ~Grows(h, hint)
  PROVE  hint <= hashsize[h]
<1>1. hashsize[h] \in Nat BY NamesAre
<1>2. CASE hashsize[h] < hint
  <2>1. Fits(hint) /\ ~(next_prime(hint) > hashsize[h]) BY <1>2 DEF Grows
  <2>2. next_prime(hint) >= hint /\ next_prime(hint) \in Nat BY <2>1, NextPrime
  <2>3. QED BY <1>1, <1>2, <2>1, <2>2
<1>3. QED BY <1>1, <1>2

LEMMA ReachIs ==
  ASSUME SetsOK, call.dst \in Handle, call.src \in Handle, call.op = "union" => call.other \in Handle
  PROVE  /\ IsFiniteSet(Reach) /\ Cardinality(Reach) \in Nat
         /\ members[call.dst] <= Cardinality(Reach)
<1>1. IsFiniteSet(NamesOf(table[call.dst])) /\ IsFiniteSet(NamesOf(table[call.src]))
      /\ members[call.dst] = Cardinality(NamesOf(table[call.dst]))
  BY NamesAre
<1>2. IsFiniteSet(IF call.op = "union" THEN NamesOf(table[call.other]) ELSE {}) BY NamesAre, FS_EmptySet
<1>3. IsFiniteSet(Reach) BY <1>1, <1>2, FS_Union DEF Reach
<1>4. NamesOf(table[call.dst]) \subseteq Reach BY DEF Reach
<1>5. QED BY <1>1, <1>3, <1>4, FS_Subset, FS_CardinalityType

(* A call of one step has only to leave its sets with room. *)
LEMMA IdleRoomy ==
  ASSUME pc' = "idle", LoadBounded'
  PROVE  Roomy'
BY DEF Roomy

LEMMA NewRoomy ==
  ASSUME IInv, Roomy, NEW h \in Handle, NEW hint \in Hints, set_new(h, hint)
  PROVE  Roomy'
<1>1. hint \in Nat BY HintsAssumption DEF HintsAssumption
<1>2. Fits(hint) /\ hashsize' = [hashsize EXCEPT ![h] = next_prime(hint)] /\ members' = [members EXCEPT ![h] = 0]
  BY DEF set_new, Alloc
<1>3. next_prime(hint) \in Nat BY <1>1, <1>2, NextPrime
<1>4. LoadBounded' BY <1>2, <1>3 DEF LoadBounded, Roomy, IInv, SetsOK
<1>5. QED BY <1>4, IdleRoomy DEF set_new, Idle

LEMMA DestroyRoomy ==
  ASSUME IInv, Roomy, NEW h \in Handle, set_destroy(h)
  PROVE  Roomy'
<1>1. LoadBounded' BY DEF set_destroy, LoadBounded, Roomy, IInv, SetsOK
<1>2. QED BY <1>1, IdleRoomy DEF set_destroy, Idle

LEMMA RemoveRoomy ==
  ASSUME IInv, Roomy, NEW h \in Handle, NEW n \in Name, set_remove(h, n)
  PROVE  Roomy'
<1>1. members' = [members EXCEPT ![h] = members[h] - 1] /\ UNCHANGED hashsize BY DEF set_remove, Unlink
<1>2. \A g \in Handle : members[g] \in Nat /\ hashsize[g] \in Nat BY NamesAre DEF IInv
<1>3. LoadBounded' BY <1>1, <1>2 DEF LoadBounded, Roomy, IInv, SetsOK
<1>4. QED BY <1>3, IdleRoomy DEF set_remove, Idle

(* One name more is at most one member more. *)
LEMMA AddBounds ==
  ASSUME SetsOK, SetsOK', NEW h \in Handle, NEW n, NamesOf(table'[h]) = NamesOf(table[h]) \union {n}
  PROVE  members'[h] <= members[h] + 1
<1> DEFINE A == NamesOf(table[h])
<1>1. IsFiniteSet(A) /\ members[h] = Cardinality(A) /\ members[h] \in Nat BY NamesAre
<1>2. members'[h] = Cardinality(NamesOf(table'[h])) BY DEF SetsOK, WellFormed
<1>3. NamesOf(table'[h]) = A \union {n} OBVIOUS
<1> HIDE DEF A
<1>4. IsFiniteSet({n}) /\ Cardinality({n}) = 1 BY FS_Singleton
<1>5. Cardinality(A \union {n}) <= Cardinality(A) + 1 BY <1>1, <1>4, SumBounds
<1>6. QED BY <1>1, <1>2, <1>3, <1>5

LEMMA AddRoomy ==
  ASSUME IInv, Roomy, SetsOK', NEW h \in Handle, NEW n \in Name, NEW d \in Value, set_add(h, n, d)
  PROVE  Roomy'
<1>1. members[h] \in Nat /\ Live(h) BY NamesAre DEF IInv, set_add
<1>2. CASE /\ ~Grows(h, members[h] + 1) /\ set_add_noresize(h, n, d) /\ UNCHANGED <<hashsize, pc, call>>
  <2>1. /\ NamesOf(table'[h]) = NamesOf(table[h]) \union {n}
        /\ \A g \in Handle \ {h} : members'[g] = members[g]
    BY <1>1, <1>2, AddKeepsSets DEF IInv
  <2>2. members'[h] <= members[h] + 1 BY <2>1, AddBounds DEF IInv
  <2>3. members[h] + 1 <= hashsize[h] BY <1>1, <1>2, HintFits DEF IInv
  <2>4. members'[h] \in Nat /\ hashsize[h] \in Nat BY NamesAre DEF IInv, SetsOK
  <2>5. members'[h] <= hashsize[h] BY <1>1, <2>2, <2>3, <2>4
  <2>6. LoadBounded' BY <1>2, <2>1, <2>5 DEF LoadBounded, Roomy
  <2>7. QED BY <1>2, <2>6, IdleRoomy DEF set_add, Idle
<1>3. CASE /\ StartResize(h, members[h] + 1)
           /\ call' = [op |-> "add", dst |-> h, name |-> n, data |-> d]
  <2>1. members[h] + 1 \in Nat /\ Fits(members[h] + 1) BY <1>1, <1>3 DEF StartResize
  <2>2. next_prime(members[h] + 1) >= members[h] + 1 BY <2>1, NextPrime
  <2>3. pc' = "resize" /\ new_n' = next_prime(members[h] + 1) /\ UNCHANGED <<hashsize, members>>
    BY <1>3 DEF StartResize
  <2>4. members'[call'.dst] + 1 <= new_n' BY <1>1, <1>3, <2>2, <2>3, NextPrime, <2>1
  <2>5. LoadBounded' BY <2>3 DEF LoadBounded, Roomy
  <2>6. QED BY <1>3, <2>3, <2>4, <2>5 DEF Roomy
<1>4. QED BY <1>2, <1>3 DEF set_add

LEMMA UnionInplaceRoomy ==
  ASSUME IInv, Roomy, NEW h \in Handle, NEW g \in Handle, set_union_inplace(h, g)
  PROVE  Roomy'
<1> DEFINE hint == members[h] + members[g]
<1>1. call' = [op |-> "union_inplace", dst |-> h, src |-> g, other |-> g] BY DEF set_union_inplace, Walk
<1>2. UNCHANGED <<hashsize, table, members>> BY DEF set_union_inplace, StartResize
<1>3. Reach' = NamesOf(table[h]) \union NamesOf(table[g]) BY <1>1, <1>2 DEF Reach
<1>4. hint \in Nat /\ Cardinality(Reach') <= hint /\ Cardinality(Reach') \in Nat
  BY <1>3, NamesAre, SumBounds DEF IInv
<1>5. LoadBounded' BY <1>2 DEF LoadBounded, Roomy
<1>6. CASE StartResize(h, hint)
  <2>1. Fits(hint) /\ pc' = "resize" /\ new_n' = next_prime(hint) BY <1>6 DEF StartResize
  <2> HIDE DEF hint
  <2>2. next_prime(hint) >= hint /\ next_prime(hint) \in Nat BY <1>4, <2>1, NextPrime
  <2>3. Cardinality(Reach') <= new_n' BY <1>4, <2>1, <2>2
  <2>4. QED BY <1>1, <1>5, <2>1, <2>3 DEF Roomy
<1>7. CASE ~Grows(h, hint) /\ StartWalk
  <2>1. hint <= hashsize[h] /\ hashsize[h] \in Nat BY <1>4, <1>7, HintFits, NamesAre DEF IInv
  <2>2. Cardinality(Reach') <= hashsize'[h]
    <3> HIDE DEF hint
    <3>1. QED BY <1>2, <1>4, <2>1
  <2>3. pc' = "walk" BY <1>7 DEF StartWalk
  <2>4. QED BY <1>1, <1>5, <2>2, <2>3 DEF Roomy
<1>8. QED BY <1>6, <1>7 DEF set_union_inplace

LEMMA DiffInplaceRoomy ==
  ASSUME IInv, Roomy, NEW h \in Handle, NEW g \in Handle, set_diff_inplace(h, g)
  PROVE  Roomy'
<1>1. /\ call' = [op |-> "diff_inplace", dst |-> h, src |-> h, other |-> g] /\ pc' = "walk"
      /\ UNCHANGED <<hashsize, table, members>>
  BY DEF set_diff_inplace, Walk, StartWalk
<1>2. Reach' = NamesOf(table[h]) BY <1>1 DEF Reach
<1>3. Cardinality(Reach') <= hashsize'[h] BY <1>1, <1>2, NamesAre DEF IInv, Roomy, LoadBounded
<1>4. LoadBounded' BY <1>1 DEF LoadBounded, Roomy
<1>5. QED BY <1>1, <1>3, <1>4 DEF Roomy

(* The three calls that build a new set begin with an empty one. *)
LEMMA BuildRoomy ==
  ASSUME IInv, Roomy, StartWalk, NEW op \in {"union", "diff", "intersect"},
         NEW h \in Handle, NEW s \in Handle, NEW o \in Handle, NEW hint \in Nat,
         Live(s), Live(o), Alloc(h, hint), Walk(op, h, s, o),
         IF op = "union" THEN hint = members[s] + members[o] ELSE members[s] <= hint
  PROVE  Roomy'
<1>1. /\ ~Live(h) /\ Fits(hint) /\ hashsize' = [hashsize EXCEPT ![h] = next_prime(hint)]
      /\ table' = [table EXCEPT ![h] = EmptyTable(next_prime(hint))]
      /\ members' = [members EXCEPT ![h] = 0]
  BY DEF Alloc
<1>2. h # s /\ h # o BY <1>1
<1>3. next_prime(hint) \in Nat /\ next_prime(hint) >= hint BY <1>1, NextPrime
<1>4. NamesOf(EmptyTable(next_prime(hint))) = {} BY <1>3, EmptyTableKeeps
<1>5. table'[h] = EmptyTable(next_prime(hint)) /\ table'[s] = table[s] /\ table'[o] = table[o]
      /\ hashsize'[h] = next_prime(hint)
  BY <1>1, <1>2 DEF IInv, SetsOK
<1>6. call' = [op |-> op, dst |-> h, src |-> s, other |-> o] /\ pc' = "walk" BY DEF Walk, StartWalk
<1>7. Reach' = IF op = "union" THEN NamesOf(table[s]) \union NamesOf(table[o]) ELSE NamesOf(table[s])
  BY <1>4, <1>5, <1>6 DEF Reach
<1>8. Cardinality(Reach') <= hint /\ Cardinality(Reach') \in Nat
  <2>1. CASE op = "union" BY <1>7, <2>1, NamesAre, SumBounds DEF IInv
  <2>2. CASE op # "union" BY <1>7, <2>2, NamesAre DEF IInv
  <2>3. QED BY <2>1, <2>2
<1>9. Cardinality(Reach') <= hashsize'[call'.dst] BY <1>3, <1>5, <1>6, <1>8
<1>10. LoadBounded' BY <1>1, <1>3 DEF LoadBounded, Roomy, IInv, SetsOK
<1>11. QED BY <1>6, <1>9, <1>10 DEF Roomy

LEMMA BuildingRoomy ==
  ASSUME IInv, Roomy, NEW h \in Handle, NEW g \in Handle, NEW o \in Handle,
         set_union(h, g, o) \/ set_diff(h, g, o) \/ set_intersect(h, g, o)
  PROVE  Roomy'
<1>1. /\ members[g] \in Nat /\ members[o] \in Nat /\ hashsize[g] \in Nat /\ hashsize[o] \in Nat
      /\ members[g] <= hashsize[g] /\ members[o] <= hashsize[o]
  BY NamesAre DEF IInv, Roomy, LoadBounded
<1>2. CASE set_union(h, g, o) BY <1>1, <1>2, BuildRoomy DEF set_union
<1>3. CASE set_diff(h, g, o) BY <1>1, <1>3, BuildRoomy DEF set_diff
<1>4. CASE set_intersect(h, g, o)
  <2> DEFINE large == IF members[g] < members[o] THEN o ELSE g
             small == IF members[g] < members[o] THEN g ELSE o
  <2>1. /\ Live(large) /\ Live(small) /\ large \in Handle /\ small \in Handle
        /\ Alloc(h, hashsize[large]) /\ Walk("intersect", h, small, large) /\ StartWalk
    BY <1>4 DEF set_intersect
  <2>2. members[small] <= hashsize[large] /\ hashsize[large] \in Nat BY <1>1
  <2> HIDE DEF large, small
  <2>3. QED BY <2>1, <2>2, BuildRoomy
<1>5. QED BY <1>2, <1>3, <1>4

(* A loop's step that changes no set and not the call. *)
LEMMA StillRoomy ==
  ASSUME Roomy, UNCHANGED <<hashsize, table, members, pc, call, new_n>>
  PROVE  Roomy'
BY DEF Roomy, LoadBounded, Reach

LEMMA RehashDoneRoomy ==
  ASSUME IInv, IInv', Roomy, RehashDone
  PROVE  Roomy'
<1>1. /\ pc = "resize" /\ hashsize' = [hashsize EXCEPT ![call.dst] = new_n]
      /\ pc' = (IF call.op = "add" THEN "add" ELSE "walk") /\ UNCHANGED <<members, call>>
  BY DEF RehashDone
<1>2. \A g \in Handle : NamesOf(table'[g]) = NamesOf(table[g]) BY RehashDoneInv
<1>3. call.op \in {"add", "union_inplace"} /\ call.dst \in Handle /\ new_n \in Nat
  BY <1>1, CallTypes, PrimesArePositive DEF IInv, CallOK, ResizeOK
<1>4. hashsize'[call.dst] = new_n /\ \A g \in Handle \ {call.dst} : hashsize'[g] = hashsize[g]
  BY <1>1, <1>3 DEF IInv, SetsOK
<1>5. members[call.dst] \in Nat BY <1>3, NamesAre DEF IInv
<1>6. CASE call.op = "add"
  <2>1. members[call.dst] + 1 <= new_n BY <1>1, <1>6 DEF Roomy
  <2>2. LoadBounded' BY <1>1, <1>3, <1>4, <1>5, <2>1 DEF LoadBounded, Roomy
  <2>3. QED BY <1>1, <1>4, <1>6, <2>1, <2>2 DEF Roomy
<1>7. CASE call.op = "union_inplace"
  <2>1. call.src \in Handle BY <1>1, <1>7, CallTypes DEF IInv
  <2>2. Cardinality(Reach) <= new_n BY <1>1, <1>7 DEF Roomy
  <2>3. Cardinality(Reach) \in Nat /\ members[call.dst] <= Cardinality(Reach)
    BY <1>3, <1>7, <2>1, ReachIs DEF IInv
  <2>4. Reach' = Reach BY <1>1, <1>2, <1>3, <1>7, <2>1 DEF Reach
  <2>5. LoadBounded' BY <1>1, <1>3, <1>4, <1>5, <2>2, <2>3 DEF LoadBounded, Roomy
  <2>6. pc' = "walk" /\ Cardinality(Reach') <= hashsize'[call'.dst] BY <1>1, <1>4, <1>7, <2>2, <2>4
  <2>7. QED BY <2>5, <2>6 DEF Roomy
<1>8. QED BY <1>3, <1>6, <1>7

LEMMA AddAfterResizeRoomy ==
  ASSUME IInv, IInv', Roomy, AddAfterResize
  PROVE  Roomy'
<1> DEFINE h == call.dst
<1>1. /\ pc = "add" /\ set_add_noresize(h, call.name, call.data) /\ pc' = "idle" /\ UNCHANGED hashsize
  BY DEF AddAfterResize
<1>2. h \in Handle /\ Live(h) /\ call.name \in Name /\ call.data \in Value
  BY <1>1, CallTypes DEF IInv, CallOK
<1>3. members[h] + 1 <= hashsize[h] BY <1>1 DEF Roomy
<1>4. PICK n : n = call.name OBVIOUS
<1> HIDE DEF h
<1>5. /\ NamesOf(table'[h]) = NamesOf(table[h]) \union {n}
      /\ \A g \in Handle \ {h} : members'[g] = members[g]
  BY <1>1, <1>2, <1>4, AddKeepsSets DEF IInv
<1>6. PICK k \in Handle : k = h BY <1>2
<1>7. members'[k] <= members[k] + 1 BY <1>5, <1>6, AddBounds DEF IInv
<1>8. members[k] \in Nat /\ members'[k] \in Nat /\ hashsize[k] \in Nat BY NamesAre DEF IInv, SetsOK
<1>9. members'[k] <= hashsize[k] BY <1>3, <1>6, <1>7, <1>8
<1>10. LoadBounded' BY <1>1, <1>5, <1>6, <1>9 DEF LoadBounded, Roomy
<1>11. QED BY <1>1, <1>10, IdleRoomy

(* A walk copies what is in reach, so that nothing more comes into it. *)
LEMMA WalkCopyRoomy ==
  ASSUME IInv, IInv', Roomy, WalkCopy
  PROVE  Roomy'
<1>1. /\ AtCell /\ pc = "walk" /\ set_add_noresize(call.dst, Here.name, Here.data)
      /\ UNCHANGED <<hashsize, pc, call>>
  BY DEF WalkCopy, AtCell, Walking
<1>2. /\ call.src \in Handle /\ call.dst \in Handle /\ Live(call.dst)
      /\ i \in DOMAIN table[call.src] /\ j \in DOMAIN table[call.src][i]
      /\ Here.name \in Name /\ Here.data \in Value
  BY <1>1, AtCellTypes DEF Cell
<1>3. PICK h \in Handle, n \in Name : h = call.dst /\ n = Here.name BY <1>2
<1>4. n \in NamesOf(table[call.src]) BY <1>2, <1>3, CellsByPosition DEF Here
<1>5. /\ NamesOf(table'[h]) = NamesOf(table[h]) \union {n}
      /\ \A g \in Handle \ {h} : table'[g] = table[g] /\ members'[g] = members[g]
  BY <1>1, <1>2, <1>3, AddKeepsSets DEF IInv
<1>6. call.op = "union" => call.other \in Handle BY <1>1, CallTypes DEF IInv
<1>7. Reach' = Reach
  <2>1. NamesOf(table'[h]) \union NamesOf(table'[call.src]) = NamesOf(table[h]) \union NamesOf(table[call.src])
    BY <1>2, <1>4, <1>5
  <2>2. \A g \in Handle : g # h => NamesOf(table'[g]) = NamesOf(table[g]) BY <1>5
  <2>3. QED BY <1>1, <1>3, <1>6, <2>1, <2>2, <1>4, <1>5 DEF Reach
<1>8. Cardinality(Reach) <= hashsize[h] BY <1>1, <1>3 DEF Roomy
<1>9. Cardinality(Reach') \in Nat /\ members'[h] <= Cardinality(Reach')
  <2>1. IsFiniteSet(Reach) /\ Cardinality(Reach) \in Nat BY <1>2, <1>6, ReachIs DEF IInv
  <2>2. NamesOf(table'[h]) \subseteq Reach' BY <1>1, <1>3 DEF Reach
  <2>3. members'[h] = Cardinality(NamesOf(table'[h]))
    <3>1. WellFormed(table'[h], hashsize'[h], members'[h]) BY DEF IInv, SetsOK
    <3>2. QED BY <3>1 DEF WellFormed
  <2>4. Cardinality(NamesOf(table'[h])) <= Cardinality(Reach)
    BY <1>7, <2>1, <2>2, FS_Subset
  <2>5. QED BY <1>7, <2>1, <2>3, <2>4
<1>10. members'[h] \in Nat /\ hashsize[h] \in Nat BY NamesAre DEF IInv, SetsOK
<1>11. members'[h] <= hashsize[h] BY <1>7, <1>8, <1>9, <1>10
<1>12. LoadBounded' BY <1>1, <1>5, <1>11 DEF LoadBounded, Roomy
<1>13. pc' = "walk" /\ Cardinality(Reach') <= hashsize'[call'.dst] BY <1>1, <1>3, <1>7, <1>8
<1>14. QED BY <1>12, <1>13 DEF Roomy

LEMMA WalkUnlinkRoomy ==
  ASSUME IInv, IInv', Roomy, WalkUnlink
  PROVE  Roomy'
<1>1. /\ AtCell /\ pc = "walk" /\ call.op = "diff_inplace" /\ Unlink(call.dst, i, j)
      /\ UNCHANGED <<hashsize, pc, call>>
  BY DEF WalkUnlink, Drops, AtCell, Walking
<1>2. call.src = call.dst BY <1>1 DEF IInv, CallOK
<1>3. /\ call.dst \in Handle /\ Live(call.dst)
      /\ i \in DOMAIN table[call.dst] /\ j \in DOMAIN table[call.dst][i]
  BY <1>1, <1>2, AtCellTypes
<1>4. PICK h \in Handle : h = call.dst BY <1>3
<1>5. /\ NamesOf(table'[h]) \subseteq NamesOf(table[h]) /\ members'[h] = members[h] - 1
      /\ \A g \in Handle \ {h} : members'[g] = members[g]
  BY <1>1, <1>3, <1>4, UnlinkKeepsSets DEF IInv
<1>6. Reach = NamesOf(table[h]) /\ Reach' = NamesOf(table'[h]) BY <1>1, <1>2, <1>4 DEF Reach
<1>7. IsFiniteSet(Reach) /\ Cardinality(Reach) \in Nat BY <1>6, NamesAre, FS_CardinalityType DEF IInv
<1>8. Cardinality(Reach') <= Cardinality(Reach) /\ Cardinality(Reach') \in Nat
  BY <1>5, <1>6, <1>7, FS_Subset, FS_CardinalityType
<1>9. members[h] \in Nat /\ hashsize[h] \in Nat BY NamesAre DEF IInv
<1>10. Cardinality(Reach) <= hashsize[h] /\ members[h] <= hashsize[h] BY <1>1, <1>4 DEF Roomy, LoadBounded
<1>11. LoadBounded' BY <1>1, <1>5, <1>9, <1>10 DEF LoadBounded, Roomy
<1>12. pc' = "walk" /\ Cardinality(Reach') <= hashsize'[call'.dst] BY <1>1, <1>4, <1>7, <1>8, <1>9, <1>10
<1>13. QED BY <1>11, <1>12 DEF Roomy

LEMMA WalkDoneRoomy ==
  ASSUME IInv, IInv', Roomy, WalkDone
  PROVE  Roomy'
<1>1. pc = "walk" /\ UNCHANGED <<hashsize, table, members>> BY DEF WalkDone
<1>2. LoadBounded' BY <1>1 DEF LoadBounded, Roomy
<1>3. CASE pc' = "idle" BY <1>2, <1>3, IdleRoomy
<1>4. CASE call.op = "union" /\ call' = [call EXCEPT !.op = "union2", !.src = call.other] /\ UNCHANGED pc
  <2>1. /\ call.dst \in Handle /\ call.src \in Handle /\ call.other \in Handle
        /\ call \in [op : Ops \ {"add"}, dst : Handle, src : Handle, other : Handle]
    BY <1>1, <1>4, CallTypes DEF IInv, CallOK, Calls, NoCall, Ops
  <2>2. call'.op = "union2" /\ call'.dst = call.dst /\ call'.src = call.other BY <1>4, <2>1
  <2>3. Reach' \subseteq Reach BY <1>1, <1>4, <2>2 DEF Reach
  <2>4. IsFiniteSet(Reach) /\ Cardinality(Reach) \in Nat BY <2>1, ReachIs DEF IInv
  <2>5. Cardinality(Reach') <= Cardinality(Reach) /\ Cardinality(Reach') \in Nat
    BY <2>3, <2>4, FS_Subset, FS_CardinalityType
  <2>6. Cardinality(Reach) <= hashsize[call.dst] /\ hashsize[call.dst] \in Nat
    BY <1>1, <2>1, NamesAre DEF Roomy, IInv
  <2>7. pc' = "walk" /\ Cardinality(Reach') <= hashsize'[call'.dst] BY <1>1, <1>4, <2>2, <2>4, <2>5, <2>6
  <2>8. QED BY <1>2, <2>7 DEF Roomy
<1>5. QED BY <1>3, <1>4 DEF WalkDone

LEMMA RoomyStep ==
  ASSUME IInv, IInv', Roomy, [Next]_vars
  PROVE  Roomy'
<1>1. CASE Call BY <1>1, NewRoomy, DestroyRoomy, RemoveRoomy, AddRoomy, UnionInplaceRoomy, DiffInplaceRoomy,
                   BuildingRoomy DEF Call, IInv
<1>2. CASE RehashCell \/ RehashBucket \/ WalkSkip \/ WalkBucket
  BY <1>2, StillRoomy DEF RehashCell, RehashBucket, WalkSkip, WalkBucket
<1>3. CASE RehashDone \/ AddAfterResize \/ WalkCopy \/ WalkUnlink \/ WalkDone
  BY <1>3, RehashDoneRoomy, AddAfterResizeRoomy, WalkCopyRoomy, WalkUnlinkRoomy, WalkDoneRoomy
<1>4. CASE UNCHANGED vars BY <1>4, StillRoomy DEF vars
<1>5. QED BY <1>1, <1>2, <1>3, <1>4 DEF Next, Loop

(* No set has more elements than buckets, whatever sizing rule made it and *)
(* however many resizes it has been through.                               *)
THEOREM AlwaysLoadBounded == Spec => []LoadBounded
<1>1. Init => Roomy BY DEF Init, Roomy, LoadBounded
<1>2. IInv /\ IInv' /\ Roomy /\ [Next]_vars => Roomy' BY RoomyStep
<1>3. Roomy => LoadBounded BY DEF Roomy
<1>4. QED BY <1>1, <1>2, <1>3, Invariance, PTL DEF Spec

(***************************************************************************)
(* Refinement.  First the maps that cells make, apart from any state.      *)
(***************************************************************************)
Functional(C) == \A c, e \in C : c.name = e.name => c = e
IsMap(f) == f = [x \in DOMAIN f |-> f[x]]

(* Two maps with the same names and the same data are one. *)
LEMMA SameMap ==
  ASSUME NEW f, NEW g, IsMap(f), IsMap(g), DOMAIN f = DOMAIN g,
         \A x \in DOMAIN f : f[x] = g[x]
  PROVE  f = g
<1>1. f = [x \in DOMAIN g |-> g[x]] BY DEF IsMap
<1>2. QED BY <1>1 DEF IsMap

(* The operators of Maps, name by name. *)
LEMMA OverIs ==
  ASSUME NEW f, NEW g
  PROVE  /\ IsMap(Over(f, g)) /\ DOMAIN Over(f, g) = DOMAIN f \union DOMAIN g
         /\ \A x \in DOMAIN f : Over(f, g)[x] = f[x]
         /\ \A x \in DOMAIN g \ DOMAIN f : Over(f, g)[x] = g[x]
BY DEF Over, IsMap

LEMMA RestrictedIs ==
  ASSUME NEW m, NEW S
  PROVE  /\ IsMap(Restricted(m, S)) /\ DOMAIN Restricted(m, S) = S
         /\ \A n \in S : Restricted(m, S)[n] = m[n]
BY DEF Restricted, IsMap

(* The map of some cells, where no two have one name. *)
LEMMA MapOfIs ==
  ASSUME NEW C
  PROVE  /\ IsMap(MapOf(C)) /\ DOMAIN MapOf(C) = {c.name : c \in C}
         /\ Functional(C) => \A c \in C : MapOf(C)[c.name] = c.data
<1>1. IsMap(MapOf(C)) /\ DOMAIN MapOf(C) = {c.name : c \in C} BY DEF MapOf, IsMap
<1>2. ASSUME Functional(C), NEW c \in C PROVE MapOf(C)[c.name] = c.data
  <2>1. (CHOOSE e \in C : e.name = c.name) = c BY <1>2 DEF Functional
  <2>2. QED BY <2>1 DEF MapOf
<1>3. QED BY <1>1, <1>2

(* A part of the cells makes a part of the map. *)
LEMMA PartOf ==
  ASSUME NEW C, Functional(C), NEW D \in SUBSET C
  PROVE  /\ Functional(D)
         /\ MapOf(D) = Restricted(MapOf(C), {c.name : c \in D})
<1>1. Functional(D) BY DEF Functional
<1>2. \A c \in D : MapOf(D)[c.name] = MapOf(C)[c.name]
  <2>1. \A c \in D : MapOf(D)[c.name] = c.data BY <1>1, MapOfIs
  <2>2. \A c \in C : MapOf(C)[c.name] = c.data BY MapOfIs
  <2>3. QED BY <2>1, <2>2
<1> DEFINE S == {c.name : c \in D}
           R == Restricted(MapOf(C), S)
<1>3. IsMap(R) /\ DOMAIN R = S /\ \A n \in S : R[n] = MapOf(C)[n] BY RestrictedIs
<1>4. \A n \in S : R[n] = MapOf(D)[n] BY <1>2, <1>3
<1>5. IsMap(MapOf(D)) /\ DOMAIN MapOf(D) = S BY MapOfIs
<1> HIDE DEF R
<1>6. R = MapOf(D) BY <1>3, <1>4, <1>5, SameMap
<1>7. QED BY <1>1, <1>6 DEF R

(* A cell put in place of the one of its name, if there was one. *)
LEMMA MapWith ==
  ASSUME NEW C, Functional(C), NEW c, NEW D, D = {e \in C : e.name # c.name} \union {c}
  PROVE  MapOf(D) = With(MapOf(C), c.name, c.data)
<1> DEFINE R == With(MapOf(C), c.name, c.data)
<1>1. Functional(D) BY DEF Functional
<1>2. /\ IsMap(R) /\ DOMAIN R = {c.name} \union {e.name : e \in C}
      /\ R[c.name] = c.data /\ \A e \in C : e.name # c.name => R[e.name] = e.data
  <2>1. DOMAIN MapOf(C) = {e.name : e \in C} /\ \A e \in C : MapOf(C)[e.name] = e.data BY MapOfIs
  <2>2. /\ IsMap(R) /\ DOMAIN R = DOMAIN MapOf(C) \union {c.name} /\ R[c.name] = c.data
        /\ \A x \in DOMAIN MapOf(C) \ {c.name} : R[x] = MapOf(C)[x]
    BY DEF With, IsMap
  <2> HIDE DEF R
  <2>3. QED BY <2>1, <2>2
<1> HIDE DEF R
<1>3. IsMap(MapOf(D)) /\ DOMAIN MapOf(D) = {e.name : e \in D} /\ \A e \in D : MapOf(D)[e.name] = e.data
  BY <1>1, MapOfIs
<1>4. DOMAIN R = DOMAIN MapOf(D) BY <1>2, <1>3
<1>5. ASSUME NEW n \in DOMAIN R PROVE R[n] = MapOf(D)[n]
  <2>1. PICK e \in D : e.name = n BY <1>3, <1>4
  <2>2. e = c \/ (e \in C /\ e.name # c.name) OBVIOUS
  <2>3. QED BY <1>2, <1>3, <2>1, <2>2
<1>6. QED BY <1>2, <1>3, <1>4, <1>5, SameMap DEF R

(* A cell moved from the cells that lie over a map into the map. *)
LEMMA MapMoves ==
  ASSUME NEW P, Functional(P), NEW c \in P, NEW m
  PROVE  Over(MapOf(P), m) = Over(MapOf(P \ {c}), With(m, c.name, c.data))
<1> DEFINE Q == P \ {c}
           w == With(m, c.name, c.data)
           L == Over(MapOf(P), m)
           R == Over(MapOf(Q), w)
<1>1. Functional(Q) /\ c.name \notin {e.name : e \in Q} BY DEF Functional
<1>2. /\ DOMAIN MapOf(P) = {e.name : e \in P} /\ \A e \in P : MapOf(P)[e.name] = e.data
      /\ DOMAIN MapOf(Q) = {e.name : e \in Q} /\ \A e \in Q : MapOf(Q)[e.name] = e.data
  BY <1>1, MapOfIs
<1> HIDE DEF Q
<1>4. /\ IsMap(L) /\ DOMAIN L = DOMAIN MapOf(P) \union DOMAIN m
      /\ \A n \in DOMAIN MapOf(P) : L[n] = MapOf(P)[n]
      /\ \A n \in DOMAIN m \ DOMAIN MapOf(P) : L[n] = m[n]
  BY OverIs
<1>5. /\ DOMAIN w = DOMAIN m \union {c.name} /\ w[c.name] = c.data
      /\ \A n \in DOMAIN m \ {c.name} : w[n] = m[n]
  BY DEF With, IsMap
<1> HIDE DEF w
<1>6. /\ IsMap(R) /\ DOMAIN R = DOMAIN MapOf(Q) \union DOMAIN w
      /\ \A n \in DOMAIN MapOf(Q) : R[n] = MapOf(Q)[n]
      /\ \A n \in DOMAIN w \ DOMAIN MapOf(Q) : R[n] = w[n]
  BY OverIs
<1> HIDE DEF L, R
<1>7. {e.name : e \in P} = {e.name : e \in Q} \union {c.name} BY DEF Q
<1>8. DOMAIN L = DOMAIN R BY <1>2, <1>4, <1>5, <1>6, <1>7
<1>9. ASSUME NEW n \in DOMAIN L PROVE L[n] = R[n]
  <2>1. CASE n = c.name BY <1>1, <1>2, <1>4, <1>5, <1>6, <2>1 DEF Q
  <2>2. CASE n \in {e.name : e \in Q}
    <3>1. PICK e \in Q : e.name = n BY <2>2
    <3>2. e \in P /\ n \in DOMAIN MapOf(P) /\ n \in DOMAIN MapOf(Q) BY <1>2, <3>1 DEF Q
    <3>3. QED BY <1>2, <1>4, <1>6, <3>1, <3>2
  <2>3. CASE n # c.name /\ n \notin {e.name : e \in Q}
    <3>1. n \notin DOMAIN MapOf(P) /\ n \in DOMAIN m /\ n \notin DOMAIN MapOf(Q) BY <1>2, <1>4, <1>7, <2>3
    <3>2. QED BY <1>4, <1>5, <1>6, <2>3, <3>1
  <2>4. QED BY <2>1, <2>2, <2>3
<1>10. QED BY <1>4, <1>6, <1>8, <1>9, SameMap DEF L, R, Q, w

(* No cells lie over a map, or under one. *)
LEMMA NoCells ==
  ASSUME NEW m, IsMap(m)
  PROVE  MapOf({}) = <<>> /\ Over(MapOf({}), m) = m /\ Over(m, MapOf({})) = m
<1>1. MapOf({}) = <<>> BY DEF MapOf
<1>2. DOMAIN MapOf({}) = {} BY DEF MapOf
<1>3. Over(MapOf({}), m) = m
  <2> DEFINE E == MapOf({})
             V == Over(E, m)
  <2>1. /\ IsMap(V) /\ DOMAIN V = DOMAIN E \union DOMAIN m
        /\ \A n \in DOMAIN E : V[n] = E[n]
        /\ \A n \in DOMAIN m \ DOMAIN E : V[n] = m[n]
    BY OverIs
  <2>2. DOMAIN E = {} BY <1>2
  <2> HIDE DEF V, E
  <2>3. DOMAIN V = DOMAIN m /\ \A n \in DOMAIN m : V[n] = m[n] BY <2>1, <2>2
  <2>4. V = m BY <2>1, <2>3, SameMap
  <2>5. QED BY <2>4 DEF V, E
<1>4. Over(m, MapOf({})) = m
  <2> DEFINE E == MapOf({})
             V == Over(m, E)
  <2>1. /\ IsMap(V) /\ DOMAIN V = DOMAIN m \union DOMAIN E
        /\ \A n \in DOMAIN m : V[n] = m[n]
        /\ \A n \in DOMAIN E \ DOMAIN m : V[n] = E[n]
    BY OverIs
  <2>2. DOMAIN E = {} BY <1>2
  <2> HIDE DEF V, E
  <2>3. DOMAIN V = DOMAIN m /\ \A n \in DOMAIN m : V[n] = m[n] BY <2>1, <2>2
  <2>4. V = m BY <2>1, <2>3, SameMap
  <2>5. QED BY <2>4 DEF V, E
<1>5. QED BY <1>1, <1>3, <1>4

(***************************************************************************)
(* Then the cells of tables, and those ahead of a cursor.                  *)
(***************************************************************************)
AheadAt(T, x, y) == UNION {{T[b][k] : k \in {l \in DOMAIN T[b] : ~(b < x \/ (b = x /\ l < y))}} : b \in DOMAIN T}

SameCells(P, T) ==
  /\ DOMAIN P = DOMAIN T
  /\ \A b \in DOMAIN T : DOMAIN P[b] = DOMAIN T[b] /\ \A k \in DOMAIN T[b] : P[b][k] = T[b][k]

LEMMA AheadIs ==
  ASSUME NEW T, NEW x, NEW y, NEW c
  PROVE  c \in AheadAt(T, x, y) <=>
           \E b \in DOMAIN T : \E k \in DOMAIN T[b] : ~(b < x \/ (b = x /\ k < y)) /\ c = T[b][k]
BY DEF AheadAt

LEMMA SameCellsAhead ==
  ASSUME NEW T, NEW P, SameCells(P, T), NEW x, NEW y
  PROVE  CellsOf(P) = CellsOf(T) /\ AheadAt(P, x, y) = AheadAt(T, x, y)
<1>1. \A c : c \in CellsOf(P) <=> c \in CellsOf(T)
  <2> TAKE c
  <2>1. c \in CellsOf(P) <=> \E b \in DOMAIN P : \E k \in DOMAIN P[b] : c = P[b][k] BY CellsByPosition
  <2>2. c \in CellsOf(T) <=> \E b \in DOMAIN T : \E k \in DOMAIN T[b] : c = T[b][k] BY CellsByPosition
  <2>3. QED BY <2>1, <2>2 DEF SameCells
<1>2. \A c : c \in AheadAt(P, x, y) <=> c \in AheadAt(T, x, y)
  <2> TAKE c
  <2>1. c \in AheadAt(P, x, y) <=>
          \E b \in DOMAIN P : \E k \in DOMAIN P[b] : ~(b < x \/ (b = x /\ k < y)) /\ c = P[b][k] BY AheadIs
  <2>2. c \in AheadAt(T, x, y) <=>
          \E b \in DOMAIN T : \E k \in DOMAIN T[b] : ~(b < x \/ (b = x /\ k < y)) /\ c = T[b][k] BY AheadIs
  <2>3. QED BY <2>1, <2>2 DEF SameCells
<1>3. QED BY <1>1, <1>2

LEMMA CellsFunctional ==
  ASSUME NEW T, IsDistinct(T)
  PROVE  Functional(CellsOf(T)) /\ \A x, y : AheadAt(T, x, y) \subseteq CellsOf(T)
<1>1. ASSUME NEW c \in CellsOf(T), NEW e \in CellsOf(T), c.name = e.name PROVE c = e
  <2>1. PICK b \in DOMAIN T : \E k \in DOMAIN T[b] : c = T[b][k] BY CellsByPosition
  <2>2. PICK k \in DOMAIN T[b] : c = T[b][k] BY <2>1
  <2>3. PICK d \in DOMAIN T : \E l \in DOMAIN T[d] : e = T[d][l] BY CellsByPosition
  <2>4. PICK l \in DOMAIN T[d] : e = T[d][l] BY <2>3
  <2>5. b = d /\ k = l BY <1>1, <2>2, <2>4 DEF IsDistinct
  <2>6. QED BY <2>2, <2>4, <2>5
<1>2. ASSUME NEW x, NEW y, NEW c \in AheadAt(T, x, y) PROVE c \in CellsOf(T)
  <2>1. PICK b \in DOMAIN T : \E k \in DOMAIN T[b] : c = T[b][k] BY AheadIs
  <2>2. QED BY <2>1, CellsByPosition
<1>3. QED BY <1>1, <1>2 DEF Functional

(* The cursor passes a cell, a bucket, the whole table. *)
LEMMA AheadPasses ==
  ASSUME NEW size \in Nat, NEW T, IsTable(T, size), IsDistinct(T),
         NEW x \in DOMAIN T, NEW y \in DOMAIN T[x]
  PROVE  /\ T[x][y] \in AheadAt(T, x, y)
         /\ AheadAt(T, x, y + 1) = AheadAt(T, x, y) \ {T[x][y]}
<1>1. x \in Nat /\ y \in Nat /\ \A b \in DOMAIN T : b \in Nat /\ \A k \in DOMAIN T[b] : k \in Nat
  BY ChainType
<1>2. T[x][y] \in AheadAt(T, x, y)
  <2>1. ~(x < x \/ (x = x /\ y < y)) BY <1>1
  <2>2. QED BY <2>1, AheadIs
<1>3. \A b \in DOMAIN T : \A k \in DOMAIN T[b] :
        ~(b < x \/ (b = x /\ k < y + 1)) <=> ~(b < x \/ (b = x /\ k < y)) /\ ~(b = x /\ k = y)
  BY <1>1
<1>4. \A b \in DOMAIN T : \A k \in DOMAIN T[b] : T[b][k] = T[x][y] <=> b = x /\ k = y
  BY DEF IsDistinct
<1>5. \A c : c \in AheadAt(T, x, y + 1) <=> c \in AheadAt(T, x, y) /\ c # T[x][y]
  <2> TAKE c
  <2>1. c \in AheadAt(T, x, y + 1) <=>
          \E b \in DOMAIN T : \E k \in DOMAIN T[b] : ~(b < x \/ (b = x /\ k < y + 1)) /\ c = T[b][k] BY AheadIs
  <2>2. c \in AheadAt(T, x, y) <=>
          \E b \in DOMAIN T : \E k \in DOMAIN T[b] : ~(b < x \/ (b = x /\ k < y)) /\ c = T[b][k] BY AheadIs
  <2>3. QED BY <1>3, <1>4, <2>1, <2>2
<1>6. QED BY <1>2, <1>5

LEMMA AheadPassesBucket ==
  ASSUME NEW size \in Nat, NEW T, IsTable(T, size), NEW x \in DOMAIN T, NEW y \in Nat, y > Len(T[x])
  PROVE  AheadAt(T, x + 1, 1) = AheadAt(T, x, y)
<1>1. x \in Nat /\ \A b \in DOMAIN T : b \in Nat /\ Len(T[b]) \in Nat /\ DOMAIN T[b] = 1..Len(T[b])
  BY ChainType
<1>2. \A b \in DOMAIN T : \A k \in DOMAIN T[b] :
        ~(b < x + 1 \/ (b = x + 1 /\ k < 1)) <=> ~(b < x \/ (b = x /\ k < y))
  <2> TAKE b \in DOMAIN T
  <2> TAKE k \in DOMAIN T[b]
  <2>1. k \in Nat /\ 1 <= k /\ (b = x => k < y) /\ b \in Nat BY <1>1
  <2>2. QED BY <1>1, <2>1
<1>3. \A c : c \in AheadAt(T, x + 1, 1) <=> c \in AheadAt(T, x, y)
  <2> TAKE c
  <2>1. c \in AheadAt(T, x + 1, 1) <=>
          \E b \in DOMAIN T : \E k \in DOMAIN T[b] : ~(b < x + 1 \/ (b = x + 1 /\ k < 1)) /\ c = T[b][k] BY AheadIs
  <2>2. c \in AheadAt(T, x, y) <=>
          \E b \in DOMAIN T : \E k \in DOMAIN T[b] : ~(b < x \/ (b = x /\ k < y)) /\ c = T[b][k] BY AheadIs
  <2>3. QED BY <1>2, <2>1, <2>2
<1>4. QED BY <1>3

LEMMA AheadEnds ==
  ASSUME NEW size \in Nat, NEW T, IsTable(T, size), NEW y
  PROVE  AheadAt(T, size, y) = {} /\ AheadAt(T, 0, 1) = CellsOf(T)
<1>1. \A b \in DOMAIN T : b \in 0..size - 1 /\ \A k \in DOMAIN T[b] : k \in Nat /\ 1 <= k
  <2> TAKE b \in DOMAIN T
  <2>1. b \in 0..size - 1 /\ DOMAIN T[b] = 1..Len(T[b]) /\ Len(T[b]) \in Nat BY ChainType
  <2>2. QED BY <2>1
<1>2. \A b \in DOMAIN T : b < size BY <1>1
<1>3. \A c : c \notin AheadAt(T, size, y) BY <1>2, AheadIs
<1>4. \A c : c \in AheadAt(T, 0, 1) <=> c \in CellsOf(T)
  <2> TAKE c
  <2>1. c \in AheadAt(T, 0, 1) <=>
          \E b \in DOMAIN T : \E k \in DOMAIN T[b] : ~(b < 0 \/ (b = 0 /\ k < 1)) /\ c = T[b][k] BY AheadIs
  <2>2. c \in CellsOf(T) <=> \E b \in DOMAIN T : \E k \in DOMAIN T[b] : c = T[b][k] BY CellsByPosition
  <2>3. \A b \in DOMAIN T : \A k \in DOMAIN T[b] : ~(b < 0 \/ (b = 0 /\ k < 1)) BY <1>1
  <2>4. QED BY <2>1, <2>2, <2>3
<1>5. QED BY <1>3, <1>4

(* Overwriting replaces the one cell of the name. *)
LEMMA OverwriteCells ==
  ASSUME NEW size \in Nat, NEW T, IsTable(T, size), IsDistinct(T),
         NEW b0 \in DOMAIN T, NEW k0 \in DOMAIN T[b0], NEW v,
         NEW e, e = [name |-> T[b0][k0].name, data |-> v],
         NEW P, P = Overwritten(T, b0, k0, v)
  PROVE  /\ CellsOf(P) = {c \in CellsOf(T) : c.name # e.name} \union {e}
         /\ e = T[b0][k0] => SameCells(P, T)
<1>1. /\ DOMAIN P = DOMAIN T /\ \A b \in DOMAIN T : DOMAIN P[b] = DOMAIN T[b]
      /\ \A b \in DOMAIN T : \A k \in DOMAIN T[b] : P[b][k] = IF b = b0 /\ k = k0 THEN e ELSE T[b][k]
  <2>1. /\ DOMAIN P = DOMAIN T /\ P[b0] = [T[b0] EXCEPT ![k0] = e]
        /\ \A b \in DOMAIN T : b # b0 => P[b] = T[b]
    BY DEF Overwritten
  <2>2. DOMAIN P[b0] = DOMAIN T[b0] /\ \A k \in DOMAIN T[b0] : P[b0][k] = IF k = k0 THEN e ELSE T[b0][k]
    BY <2>1
  <2>3. QED BY <2>1, <2>2
<1>2. e.name = T[b0][k0].name OBVIOUS
<1>3. \A b \in DOMAIN T : \A k \in DOMAIN T[b] : T[b][k].name = e.name <=> b = b0 /\ k = k0
  BY <1>2 DEF IsDistinct
<1>4. \A c : c \in CellsOf(P) <=> (c \in CellsOf(T) /\ c.name # e.name) \/ c = e
  <2> TAKE c
  <2>1. c \in CellsOf(P) <=> \E b \in DOMAIN P : \E k \in DOMAIN P[b] : c = P[b][k] BY CellsByPosition
  <2>2. c \in CellsOf(T) <=> \E b \in DOMAIN T : \E k \in DOMAIN T[b] : c = T[b][k] BY CellsByPosition
  <2>3. ASSUME c \in CellsOf(P), c # e PROVE c \in CellsOf(T) /\ c.name # e.name
    BY <1>1, <1>3, <2>1, <2>2, <2>3
  <2>4. ASSUME c \in CellsOf(T), c.name # e.name PROVE c \in CellsOf(P)
    BY <1>1, <1>3, <2>1, <2>2, <2>4
  <2>5. e \in CellsOf(P) BY <1>1, CellsByPosition
  <2>6. QED BY <2>3, <2>4, <2>5
<1>5. CellsOf(P) = {c \in CellsOf(T) : c.name # e.name} \union {e} BY <1>4
<1>6. e = T[b0][k0] => SameCells(P, T) BY <1>1 DEF SameCells
<1>7. QED BY <1>5, <1>6

(* Unlinking takes one cell out of the table, and out of those ahead. *)
LEMMA UnlinkCells ==
  ASSUME NEW size \in Nat, NEW T, IsTable(T, size), IsDistinct(T),
         NEW b0 \in DOMAIN T, NEW k0 \in DOMAIN T[b0],
         NEW P, P = Unlinked(T, b0, k0)
  PROVE  /\ CellsOf(P) = CellsOf(T) \ {T[b0][k0]}
         /\ AheadAt(P, b0, k0) = AheadAt(T, b0, k0) \ {T[b0][k0]}
<1>1. /\ T[b0] \in Seq(Cell) /\ Len(T[b0]) \in Nat /\ k0 \in 1..Len(T[b0])
      /\ DOMAIN T[b0] = 1..Len(T[b0]) /\ b0 \in Nat
  BY ChainType
<1>2. DOMAIN P = DOMAIN T /\ \A b \in DOMAIN T : b # b0 => P[b] = T[b] BY UnlinkPlaces
<1>3. /\ P[b0] \in Seq(Cell) /\ DOMAIN P[b0] = 1..Len(T[b0]) - 1
      /\ \A l \in 1..Len(T[b0]) - 1 : P[b0][l] = IF l < k0 THEN T[b0][l] ELSE T[b0][l + 1]
  BY UnlinkPlaces
(* Every cell but the one unlinked is still there, on its side of the cursor. *)
<1> DEFINE ahead(b, k) == ~(b < b0 \/ (b = b0 /\ k < k0))
<1>4. ASSUME NEW b \in DOMAIN T, NEW k \in DOMAIN T[b], ~(b = b0 /\ k = k0)
      PROVE  \E l \in DOMAIN P[b] : P[b][l] = T[b][k] /\ (ahead(b, l) <=> ahead(b, k))
  <2>1. CASE b # b0 BY <1>2, <2>1
  <2>2. CASE b = b0 /\ k < k0
    <3>1. k \in 1..Len(T[b0]) - 1 BY <1>1, <2>2
    <3>2. QED BY <1>3, <2>2, <3>1
  <2>3. CASE b = b0 /\ ~(k < k0)
    <3>1. k \in Nat /\ k0 \in Nat /\ k > k0 /\ k \in 1..Len(T[b0]) BY <1>1, <1>4, <2>3
    <3>2. k - 1 \in 1..Len(T[b0]) - 1 /\ ~(k - 1 < k0) /\ (k - 1) + 1 = k BY <1>1, <3>1
    <3>3. P[b0][k - 1] = T[b0][k] BY <1>3, <3>2
    <3>4. ahead(b, k - 1) <=> ahead(b, k) BY <1>1, <2>3, <3>2
    <3>5. QED BY <1>3, <2>3, <3>2, <3>3, <3>4
  <2>4. QED BY <2>1, <2>2, <2>3
<1>5. ASSUME NEW b \in DOMAIN P, NEW l \in DOMAIN P[b]
      PROVE  \E k \in DOMAIN T[b] : /\ P[b][l] = T[b][k] /\ (ahead(b, l) <=> ahead(b, k))
                                    /\ ~(b = b0 /\ k = k0)
  <2>1. CASE b # b0 BY <1>2, <2>1
  <2>2. CASE b = b0 /\ l < k0
    <3>1. l \in 1..Len(T[b0]) - 1 /\ l \in 1..Len(T[b0]) /\ l # k0 BY <1>1, <1>3, <2>2
    <3>2. QED BY <1>1, <1>3, <2>2, <3>1
  <2>3. CASE b = b0 /\ ~(l < k0)
    <3>1. l \in Nat /\ k0 \in Nat /\ l \in 1..Len(T[b0]) - 1 BY <1>1, <1>3, <2>3
    <3>2. l + 1 \in 1..Len(T[b0]) /\ ~(l + 1 < k0) /\ l + 1 # k0 BY <1>1, <2>3, <3>1
    <3>3. P[b0][l] = T[b0][l + 1] BY <1>3, <2>3, <3>1
    <3>4. ahead(b, l) <=> ahead(b, l + 1) BY <1>1, <2>3, <3>2
    <3>5. QED BY <1>1, <2>3, <3>2, <3>3, <3>4
  <2>4. QED BY <2>1, <2>2, <2>3
<1> HIDE DEF ahead
<1>6. \A b \in DOMAIN T : \A k \in DOMAIN T[b] : T[b][k] = T[b0][k0] <=> b = b0 /\ k = k0
  BY DEF IsDistinct
<1>7. \A c : c \in CellsOf(P) <=> c \in CellsOf(T) /\ c # T[b0][k0]
  <2> TAKE c
  <2>1. c \in CellsOf(P) <=> \E b \in DOMAIN P : \E k \in DOMAIN P[b] : c = P[b][k] BY CellsByPosition
  <2>2. c \in CellsOf(T) <=> \E b \in DOMAIN T : \E k \in DOMAIN T[b] : c = T[b][k] BY CellsByPosition
  <2>3. QED BY <1>2, <1>4, <1>5, <1>6, <2>1, <2>2
<1>8. \A c : c \in AheadAt(P, b0, k0) <=> c \in AheadAt(T, b0, k0) /\ c # T[b0][k0]
  <2> TAKE c
  <2>1. c \in AheadAt(P, b0, k0) <=> \E b \in DOMAIN P : \E k \in DOMAIN P[b] : ahead(b, k) /\ c = P[b][k]
    BY AheadIs DEF ahead
  <2>2. c \in AheadAt(T, b0, k0) <=> \E b \in DOMAIN T : \E k \in DOMAIN T[b] : ahead(b, k) /\ c = T[b][k]
    BY AheadIs DEF ahead
  <2>3. QED BY <1>2, <1>4, <1>5, <1>6, <2>1, <2>2
<1>9. QED BY <1>7, <1>8

(***************************************************************************)
(* Then the state: what set_get, set_add_noresize and Unlink do to the map *)
(* a table stands for.                                                     *)
(***************************************************************************)
Get(h) == MapOf(CellsOf(table[h]))

LEMMA GetIsMember ==
  ASSUME SetsOK, NEW h \in Handle, Live(h), NEW n \in Name
  PROVE  set_get(h, n) <=> n \in DOMAIN Get(h)
<1>1. /\ hashsize[h] \in Nat \ {0}
      /\ IsTable(table[h], hashsize[h]) /\ IsPlaced(table[h], hashsize[h])
  BY SizeTypes DEF WellFormed
<1>2. set_get(h, n) <=> n \in NamesOf(table[h]) BY <1>1, FoundIsMember DEF set_get, Chain
<1>3. DOMAIN Get(h) = NamesOf(table[h]) BY MapOfIs DEF Get, NamesOf
<1>4. QED BY <1>2, <1>3

(* set_add_noresize binds the name, wherever in the table it is or goes. *)
LEMMA AddToMap ==
  ASSUME SetsOK, NEW h \in Handle, Live(h), NEW n \in Name, NEW d \in Value,
         set_add_noresize(h, n, d)
  PROVE  /\ MapOf(CellsOf(table'[h])) = With(Get(h), n, d)
         /\ [name |-> n, data |-> d] \in CellsOf(table[h]) => SameCells(table'[h], table[h])
         /\ \A g \in Handle \ {h} : table'[g] = table[g]
<1> DEFINE b == set_hash(n, hashsize[h])
           T == table[h]
           P == table'[h]
           e == [name |-> n, data |-> d]
<1>1. /\ hashsize[h] \in Nat \ {0} /\ IsTable(T, hashsize[h]) /\ IsPlaced(T, hashsize[h])
      /\ IsDistinct(T)
  BY SizeTypes DEF WellFormed
<1>2. b \in DOMAIN T /\ Chain(h, n) = T[b] BY <1>1, BucketExists DEF IsTable, Chain
<1>3. Functional(CellsOf(T)) BY <1>1, CellsFunctional
<1>4. set_get(h, n) <=> n \in NamesOf(T) BY <1>1, FoundIsMember DEF set_get, Chain
<1>5. e.name = n /\ e.data = d /\ e \in Cell BY DEF Cell
<1>6. e \in CellsOf(T) => set_get(h, n) BY <1>4, <1>5 DEF NamesOf
<1> HIDE DEF b, e
<1>7. /\ CellsOf(P) = {c \in CellsOf(T) : c.name # n} \union {e}
      /\ e \in CellsOf(T) => SameCells(P, T)
      /\ \A g \in Handle \ {h} : table'[g] = table[g]
  <2>1. CASE \E k \in Found(T[b], n) : table' = [table EXCEPT ![h] = Overwritten(@, b, k, d)]
    <3>1. PICK k \in Found(T[b], n) : table' = [table EXCEPT ![h] = Overwritten(@, b, k, d)] BY <2>1
    <3>2. k \in DOMAIN T[b] /\ T[b][k].name = n BY DEF Found
    <3>3. P = Overwritten(T, b, k, d) /\ \A g \in Handle \ {h} : table'[g] = table[g]
      BY <3>1 DEF SetsOK
    <3>4. e = [name |-> T[b][k].name, data |-> d] BY <3>2 DEF e
    <3>5. /\ CellsOf(P) = {c \in CellsOf(T) : c.name # e.name} \union {e}
          /\ e = T[b][k] => SameCells(P, T)
      <4> HIDE DEF T, P
      <4>1. QED BY <1>1, <1>2, <3>2, <3>3, <3>4, OverwriteCells DEF T, P
    <3>6. e \in CellsOf(T) => e = T[b][k]
      <4>1. T[b][k] \in CellsOf(T) BY <1>2, <3>2, CellsByPosition
      <4>2. QED BY <1>3, <1>5, <3>2, <4>1 DEF Functional
    <3>7. QED BY <1>5, <3>3, <3>5, <3>6
  <2>2. CASE ~set_get(h, n) /\ table' = [table EXCEPT ![h] = Prepended(@, b, e)]
    <3>1. P = Prepended(T, set_hash(e.name, hashsize[h]), e) /\ \A g \in Handle \ {h} : table'[g] = table[g]
      BY <1>5, <2>2 DEF SetsOK, b
    <3>2. e.name \notin NamesOf(T) BY <1>4, <1>5, <2>2
    <3>3. CellsOf(P) = CellsOf(T) \union {e}
      <4> HIDE DEF T, P
      <4>1. QED BY <1>1, <1>5, <3>1, <3>2, PrependKeeps
    <3>4. \A c \in CellsOf(T) : c.name # n BY <1>5, <3>2 DEF NamesOf
    <3>5. QED BY <1>6, <2>2, <3>1, <3>3, <3>4
  <2>3. QED BY <1>2, <2>1, <2>2 DEF set_add_noresize, b, e
<1>8. MapOf(CellsOf(P)) = With(MapOf(CellsOf(T)), e.name, e.data) BY <1>3, <1>5, <1>7, MapWith
<1>9. QED BY <1>5, <1>7, <1>8 DEF Get, e

(* Unlinking a cell unbinds its name. *)
LEMMA UnlinkFromMap ==
  ASSUME SetsOK, NEW h \in Handle, NEW b \in DOMAIN table[h], NEW k \in DOMAIN table[h][b],
         Live(h), Unlink(h, b, k)
  PROVE  /\ MapOf(CellsOf(table'[h])) = Restricted(Get(h), DOMAIN Get(h) \ {table[h][b][k].name})
         /\ AheadAt(table'[h], b, k) = AheadAt(table[h], b, k) \ {table[h][b][k]}
         /\ \A g \in Handle \ {h} : table'[g] = table[g]
<1> DEFINE T == table[h]
           P == table'[h]
           c == table[h][b][k]
<1>1. hashsize[h] \in Nat /\ IsTable(T, hashsize[h]) /\ IsDistinct(T) BY SizeTypes DEF WellFormed
<1>2. P = Unlinked(T, b, k) /\ \A g \in Handle \ {h} : table'[g] = table[g] BY DEF Unlink, SetsOK
<1>3. CellsOf(P) = CellsOf(T) \ {c} /\ AheadAt(P, b, k) = AheadAt(T, b, k) \ {c}
  <2> HIDE DEF P
  <2>1. QED BY <1>1, <1>2, UnlinkCells
<1>4. Functional(CellsOf(T)) /\ c \in CellsOf(T) BY <1>1, CellsFunctional, CellsByPosition
<1> HIDE DEF T, P, c
<1>5. {e.name : e \in CellsOf(P)} = {e.name : e \in CellsOf(T)} \ {c.name}
  BY <1>3, <1>4 DEF Functional
<1>6. DOMAIN MapOf(CellsOf(T)) = {e.name : e \in CellsOf(T)} BY MapOfIs
<1>7. MapOf(CellsOf(P)) = Restricted(MapOf(CellsOf(T)), {e.name : e \in CellsOf(P)})
  BY <1>3, <1>4, PartOf
<1>8. QED BY <1>2, <1>3, <1>5, <1>6, <1>7 DEF Get, T, P, c

(***************************************************************************)
(* What the refinement needs beyond IInv: where an idle cursor stands, that *)
(* a new set is not one of those it is made of, and that set_diff walks all *)
(* of its first set.                                                       *)
(***************************************************************************)
WalkOK ==
  /\ pc \in {"idle", "add"} => i = 0 /\ j = 1
  /\ pc # "idle" /\ call.op \in {"union", "union2", "diff", "intersect"} =>
       call.dst # call.src /\ call.dst # call.other
  /\ pc = "walk" /\ call.op = "diff" => hashsize[call.src] <= hashsize[call.dst]

(* WalkOK holds from the start and through every step. *)
LEMMA WalkOKInit == Init => WalkOK
BY DEF Init, WalkOK

LEMMA WalkOKStep == ASSUME IInv, WalkOK, [Next]_vars PROVE WalkOK'
<1>1. ASSUME NEW h \in Handle,
             \/ \E hint \in Hints : set_new(h, hint)
             \/ set_destroy(h)
             \/ \E n \in Name : set_remove(h, n)
      PROVE  WalkOK'
  BY <1>1 DEF set_new, set_destroy, set_remove, WalkOK, Idle, Unmoved
<1>2. ASSUME NEW h \in Handle, NEW n \in Name, NEW d \in Value, set_add(h, n, d) PROVE WalkOK'
  BY <1>2 DEF set_add, WalkOK, Idle, Unmoved, StartResize
<1>3. ASSUME NEW h \in Handle, NEW g \in Handle, set_union_inplace(h, g) \/ set_diff_inplace(h, g)
      PROVE  WalkOK'
  BY <1>3 DEF set_union_inplace, set_diff_inplace, Walk, StartWalk, StartResize, WalkOK, Idle, Unmoved
<1>4. ASSUME NEW h \in Handle, NEW a \in Handle, NEW b \in Handle,
             set_union(h, a, b) \/ set_intersect(h, a, b)
      PROVE  WalkOK'
  BY <1>4 DEF set_union, set_intersect, Walk, StartWalk, Alloc, Live, WalkOK, Idle, Unmoved
<1>5. ASSUME NEW h \in Handle, NEW a \in Handle, NEW b \in Handle, set_diff(h, a, b) PROVE WalkOK'
  <2>1. /\ h # a /\ h # b /\ Fits(hashsize[a])
        /\ call' = [op |-> "diff", dst |-> h, src |-> a, other |-> b] /\ pc' = "walk"
        /\ hashsize' = [hashsize EXCEPT ![h] = next_prime(hashsize[a])]
    BY <1>5 DEF set_diff, Walk, StartWalk, Alloc, Live
  <2>2. hashsize[a] \in Nat BY SizeTypes DEF IInv
  <2>3. next_prime(hashsize[a]) >= hashsize[a] /\ next_prime(hashsize[a]) \in Nat BY <2>1, <2>2, NextPrime
  <2>4. hashsize'[a] <= hashsize'[h] BY <2>1, <2>2, <2>3 DEF IInv, SetsOK
  <2>5. QED BY <2>1, <2>4 DEF WalkOK
<1>6. CASE RehashCell \/ RehashBucket \/ RehashDone
  <2>1. pc = "resize" /\ call.op \in {"add", "union_inplace"} /\ call' = call
    BY <1>6 DEF RehashCell, RehashBucket, RehashDone, ResizeCall, IInv, CallOK
  <2>2. QED BY <1>6, <2>1 DEF RehashCell, RehashBucket, RehashDone, WalkOK
<1>7. CASE AddAfterResize BY <1>7 DEF AddAfterResize, WalkOK, Unmoved
<1>8. CASE WalkCopy \/ WalkUnlink \/ WalkSkip \/ WalkBucket
  BY <1>8 DEF WalkCopy, WalkUnlink, WalkSkip, WalkBucket, AtCell, Walking, WalkOK
<1>9. CASE WalkDone
  <2>1. CASE call.op = "union" BY <1>9, <2>1 DEF WalkDone, WalkOK, IInv, CallOK, Calls
  <2>2. CASE call.op # "union" BY <1>9, <2>2 DEF WalkDone, WalkOK
  <2>3. QED BY <2>1, <2>2
<1>10. CASE UNCHANGED vars BY <1>10 DEF vars, WalkOK
<1>11. QED BY <1>1, <1>2, <1>3, <1>4, <1>5, <1>6, <1>7, <1>8, <1>9, <1>10 DEF Next, Call, Loop

(***************************************************************************)
(* What a set will be when the call that writes it returns, from what it   *)
(* is (m), the cells still to come (P) and the call's other set (o).       *)
(***************************************************************************)
Taken(P, o) == {c \in P : c.name \in DOMAIN o}
Left(P, o)  == {c \in P : c.name \notin DOMAIN o}

Final(op, m, P, o) ==
  CASE op \in {"union_inplace", "union2"} -> Over(MapOf(P), m)
    [] op = "union" -> Over(o, Over(MapOf(P), m))
    [] op = "diff" -> Over(MapOf(Left(P, o)), m)
    [] op = "intersect" -> Over(MapOf(Taken(P, o)), m)
    [] op = "diff_inplace" -> Restricted(m, DOMAIN m \ {c.name : c \in Taken(P, o)})

ContentsRead ==
  /\ contents = [h \in Handle |-> contents[h]]
  /\ \A h \in Handle : pc = "idle" \/ h # call.dst => contents[h] = Get(h)
  /\ pc # "idle" => call.dst \in Handle
  /\ pc # "idle" /\ call.op = "add" =>
       contents[call.dst] = With(Get(call.dst), call.name, call.data)
  /\ pc # "idle" /\ call.op # "add" =>
       contents[call.dst] = Final(call.op, Get(call.dst), Pending, Get(call.other))

(* The cells still to come after a step to a walk. *)
LEMMA PendingNext == ASSUME pc' = "walk" PROVE Pending' = AheadAt(table'[call'.src], i', j')
BY DEF Pending, Ahead, Before, AheadAt

LEMMA PendingIs ==
  ASSUME SetsOK, CallOK, pc # "idle", call.op # "add"
  PROVE  /\ Pending \subseteq CellsOf(table[call.src]) /\ Functional(Pending)
         /\ \A c \in Pending : c.name \in Name
         /\ Pending = IF pc = "walk" THEN AheadAt(table[call.src], i, j) ELSE CellsOf(table[call.src])
<1>1. call.src \in Handle BY CallTypes
<1>2. hashsize[call.src] \in Nat /\ IsTable(table[call.src], hashsize[call.src]) /\ IsDistinct(table[call.src])
  BY <1>1, SizeTypes DEF WellFormed
<1>3. Pending = IF pc = "walk" THEN AheadAt(table[call.src], i, j) ELSE CellsOf(table[call.src])
  BY DEF Pending, Ahead, Before, AheadAt
<1>4. Pending \subseteq CellsOf(table[call.src]) BY <1>2, <1>3, CellsFunctional
<1>5. Functional(Pending) BY <1>2, <1>4, CellsFunctional, PartOf
<1>6. \A c \in CellsOf(table[call.src]) : c.name \in Name
  <2> TAKE c \in CellsOf(table[call.src])
  <2>1. PICK b \in DOMAIN table[call.src] : \E k \in DOMAIN table[call.src][b] : c = table[call.src][b][k]
    BY CellsByPosition
  <2>2. c \in Cell BY <1>2, <2>1, ChainType
  <2>3. QED BY <2>2 DEF Cell
<1>7. QED BY <1>3, <1>4, <1>5, <1>6

(* contents in terms of Final, before a step and, primed, after it. *)
LEMMA ContentsAre == IInv => ContentsRead
<1> SUFFICES ASSUME IInv PROVE ContentsRead OBVIOUS
<1>1. contents = [h \in Handle |-> contents[h]] /\ \A h \in Handle : contents[h] = Contents(h)
  BY DEF contents
<1>2. pc # "idle" => call.dst \in Handle BY CallTypes DEF IInv
<1>3. \A h \in Handle : pc = "idle" \/ h # call.dst => contents[h] = Get(h) BY <1>1 DEF Contents, Get
<1>4. pc # "idle" /\ call.op = "add" =>
        contents[call.dst] = With(Get(call.dst), call.name, call.data)
  BY <1>1, <1>2 DEF Contents, Get
<1>5. ASSUME pc # "idle", call.op # "add"
      PROVE  contents[call.dst] = Final(call.op, Get(call.dst), Pending, Get(call.other))
  <2>1. call.op \in Ops /\ call.other \in Handle /\ Live(call.other) BY <1>5, CallTypes DEF IInv
  <2>2. \A c \in Pending : set_get(call.other, c.name) <=> c.name \in DOMAIN Get(call.other)
    BY <1>5, <2>1, PendingIs, GetIsMember DEF IInv
  <2>3. Shared(Pending) = Taken(Pending, Get(call.other)) BY <2>2 DEF Shared, Taken
  <2>4. Pending \ Shared(Pending) = Left(Pending, Get(call.other)) BY <2>3 DEF Taken, Left
  <2>5. QED BY <1>1, <1>2, <1>5, <2>1, <2>3, <2>4 DEF Contents, Final, Get, Ops
<1>6. QED BY <1>1, <1>2, <1>3, <1>4, <1>5 DEF ContentsRead

LEMMA ContentsAreNext == IInv' => ContentsRead'
BY ContentsAre, PTL

(* A cell is copied, skipped or dropped: the result to come is the same.   *)
(* The calls that would copy cell c, when o is the other set. *)
CopiesCell(op, c, o) ==
  \/ op \in {"union_inplace", "union2", "union"}
  \/ op = "diff" /\ c.name \notin DOMAIN o
  \/ op = "intersect" /\ c.name \in DOMAIN o

LEMMA FinalCopies ==
  ASSUME NEW op, NEW P, NEW c \in P, NEW m, NEW v, NEW o,
         Functional(P), v = With(m, c.name, c.data), CopiesCell(op, c, o)
  PROVE  Final(op, v, P \ {c}, o) = Final(op, m, P, o)
<1>1. CASE op \in {"union_inplace", "union2", "union"}
  <2>1. Over(MapOf(P), m) = Over(MapOf(P \ {c}), v) BY MapMoves
  <2>2. QED BY <1>1, <2>1 DEF Final
<1>2. CASE op = "diff"
  <2> DEFINE Q == Left(P, o)
  <2>1. Functional(Q) /\ c \in Q /\ Left(P \ {c}, o) = Q \ {c}
    BY <1>2 DEF Left, Functional, CopiesCell
  <2> HIDE DEF Q
  <2>2. Over(MapOf(Q), m) = Over(MapOf(Q \ {c}), v) BY <2>1, MapMoves
  <2>3. QED BY <1>2, <2>1, <2>2 DEF Final, Q
<1>3. CASE op = "intersect"
  <2> DEFINE Q == Taken(P, o)
  <2>1. Functional(Q) /\ c \in Q /\ Taken(P \ {c}, o) = Q \ {c}
    BY <1>3 DEF Taken, Functional, CopiesCell
  <2> HIDE DEF Q
  <2>2. Over(MapOf(Q), m) = Over(MapOf(Q \ {c}), v) BY <2>1, MapMoves
  <2>3. QED BY <1>3, <2>1, <2>2 DEF Final, Q
<1>4. QED BY <1>1, <1>2, <1>3 DEF CopiesCell

LEMMA FinalSkips ==
  ASSUME NEW op \in {"diff", "intersect", "diff_inplace"}, NEW P, NEW c \in P, NEW m, NEW o,
         op = "diff" => c.name \in DOMAIN o, op # "diff" => c.name \notin DOMAIN o
  PROVE  Final(op, m, P \ {c}, o) = Final(op, m, P, o)
<1>1. CASE op = "diff"
  <2>1. Left(P \ {c}, o) = Left(P, o) BY <1>1 DEF Left
  <2>2. QED BY <1>1, <2>1 DEF Final
<1>2. CASE op # "diff"
  <2>1. Taken(P \ {c}, o) = Taken(P, o) BY <1>2 DEF Taken
  <2>2. QED BY <1>2, <2>1 DEF Final
<1>3. QED BY <1>1, <1>2

LEMMA FinalDrops ==
  ASSUME NEW P, Functional(P), NEW c \in P, NEW m, NEW o, c.name \in DOMAIN o,
         NEW v, v = Restricted(m, DOMAIN m \ {c.name}),
         NEW u, u = o \/ DOMAIN u = DOMAIN o \ {c.name}
  PROVE  Final("diff_inplace", v, P \ {c}, u) = Final("diff_inplace", m, P, o)
<1> DEFINE S == DOMAIN m \ {e.name : e \in Taken(P, o)}
           R == DOMAIN v \ {e.name : e \in Taken(P \ {c}, u)}
<1>1. DOMAIN v = DOMAIN m \ {c.name} /\ \A n \in DOMAIN v : v[n] = m[n] BY RestrictedIs
<1>2. \A e \in P \ {c} : e.name # c.name BY DEF Functional
<1>3. {e.name : e \in Taken(P, o)} = {e.name : e \in Taken(P \ {c}, u)} \union {c.name}
  BY <1>2 DEF Taken
<1>4. R = S BY <1>1, <1>3
<1>5. \A n \in S : v[n] = m[n] BY <1>1, <1>3
<1> HIDE DEF S, R
<1>6. Restricted(v, S) = Restricted(m, S)
  <2>1. /\ IsMap(Restricted(v, S)) /\ DOMAIN Restricted(v, S) = S /\ \A n \in S : Restricted(v, S)[n] = v[n]
        /\ IsMap(Restricted(m, S)) /\ DOMAIN Restricted(m, S) = S /\ \A n \in S : Restricted(m, S)[n] = m[n]
    BY RestrictedIs
  <2>2. QED BY <1>5, <2>1, SameMap
<1>7. QED BY <1>4, <1>6 DEF Final, S, R

(* With no cell to come the set is what it will be. *)
LEMMA FinalEnds ==
  ASSUME NEW op \in Ops \ {"add"}, NEW m, IsMap(m), NEW o
  PROVE  Final(op, m, {}, o) = IF op = "union" THEN Over(o, m) ELSE m
<1>1. Over(MapOf({}), m) = m BY NoCells
<1>2. Taken({}, o) = {} /\ Left({}, o) = {} BY DEF Taken, Left
<1>3. Restricted(m, DOMAIN m) = m
  <2>1. /\ IsMap(Restricted(m, DOMAIN m)) /\ DOMAIN Restricted(m, DOMAIN m) = DOMAIN m
        /\ \A n \in DOMAIN m : Restricted(m, DOMAIN m)[n] = m[n]
    BY RestrictedIs
  <2>2. QED BY <2>1, SameMap
<1>4. DOMAIN m \ {c.name : c \in {}} = DOMAIN m OBVIOUS
<1>5. QED BY <1>1, <1>2, <1>3, <1>4 DEF Final, Ops

(***************************************************************************)
(* No step of a loop shows.                                                *)
(***************************************************************************)
(* A step that leaves what the set written will be leaves all contents. *)
LEMMA SameContents ==
  ASSUME IInv, IInv', pc # "idle", pc' = "idle" \/ call'.dst = call.dst,
         \A h \in Handle \ {call.dst} : table'[h] = table[h],
         contents'[call.dst] = contents[call.dst]
  PROVE  contents' = contents
<1>1. ContentsRead /\ ContentsRead' BY ContentsAre, ContentsAreNext
<1>2. ASSUME NEW h \in Handle PROVE contents'[h] = contents[h]
  <2>1. CASE h = call.dst BY <2>1
  <2>2. CASE h # call.dst
    <3>1. contents[h] = MapOf(CellsOf(table[h])) BY <1>1, <2>2 DEF ContentsRead, Get
    <3>2. contents'[h] = MapOf(CellsOf(table'[h])) BY <1>1, <2>2 DEF ContentsRead, Get
    <3>3. QED BY <2>2, <3>1, <3>2
  <2>3. QED BY <2>1, <2>2
<1>3. contents = [h \in Handle |-> contents[h]] /\ contents' = [h \in Handle |-> contents'[h]]
  BY <1>1 DEF ContentsRead
<1>4. QED BY <1>2, <1>3

LEMMA RehashShowsNothing ==
  ASSUME IInv, IInv', RehashCell \/ RehashBucket
  PROVE  UNCHANGED <<live, contents>>
<1>1. pc = "resize" /\ UNCHANGED <<hashsize, table, pc, call>>
  BY DEF RehashCell, RehashBucket, ResizeCall
<1>2. call.dst \in Handle BY <1>1, CallTypes DEF IInv
<1>3. ContentsRead /\ ContentsRead' BY ContentsAre, ContentsAreNext
<1>4. contents'[call.dst] = contents[call.dst]
  <2>1. CASE call.op = "add" BY <1>1, <1>2, <1>3, <2>1 DEF ContentsRead, Get
  <2>2. CASE call.op # "add"
    <3>1. Pending' = Pending BY <1>1 DEF Pending
    <3>2. QED BY <1>1, <1>2, <1>3, <2>2, <3>1 DEF ContentsRead, Get
  <2>3. QED BY <2>1, <2>2
<1>5. contents' = contents BY <1>1, <1>4, SameContents
<1>6. live' = live BY <1>1 DEF live, Live
<1>7. QED BY <1>5, <1>6

LEMMA RehashDoneShowsNothing ==
  ASSUME IInv, IInv', RehashDone
  PROVE  UNCHANGED <<live, contents>>
<1>1. /\ pc = "resize" /\ call' = call /\ i' = 0 /\ j' = 1
      /\ pc' = IF call.op = "add" THEN "add" ELSE "walk"
      /\ hashsize' = [hashsize EXCEPT ![call.dst] = new_n] /\ table' = [table EXCEPT ![call.dst] = new_table]
  BY DEF RehashDone
<1>2. call.dst \in Handle /\ Live(call.dst) BY <1>1, CallTypes DEF IInv
<1>3. \A g \in Handle : CellsOf(table'[g]) = CellsOf(table[g]) BY RehashDoneInv
<1>4. ContentsRead /\ ContentsRead' BY ContentsAre, ContentsAreNext
<1>5. \A h \in Handle : MapOf(CellsOf(table'[h])) = MapOf(CellsOf(table[h])) BY <1>3
<1>6. contents'[call.dst] = contents[call.dst]
  <2>1. CASE call.op = "add" BY <1>1, <1>2, <1>4, <1>5, <2>1 DEF ContentsRead, Get
  <2>2. CASE call.op # "add"
    <3>1. call.src \in Handle /\ call.other \in Handle BY <1>1, <2>2, CallTypes DEF IInv
    <3>2. Pending = CellsOf(table[call.src]) BY <1>1 DEF Pending
    <3>3. Pending' = AheadAt(table'[call.src], 0, 1)
      BY <1>1, <2>2, PendingNext
    <3>4. IsTable(table'[call.src], hashsize'[call.src]) /\ hashsize'[call.src] \in Nat
      BY <3>1, PrimesArePositive DEF IInv, SetsOK, WellFormed
    <3>5. Pending' = Pending BY <1>3, <3>1, <3>2, <3>3, <3>4, AheadEnds
    <3>6. QED BY <1>1, <1>2, <1>4, <1>5, <2>2, <3>1, <3>5 DEF ContentsRead, Get
  <2>3. QED BY <2>1, <2>2
<1>7. \A h \in Handle \ {call.dst} : table'[h] = table[h] BY <1>1 DEF IInv, SetsOK
<1>8. contents' = contents BY <1>1, <1>6, <1>7, SameContents
<1>9. new_n # 0 BY <1>1, PrimesArePositive DEF IInv, ResizeOK
<1>10. live' = live BY <1>1, <1>2, <1>9 DEF live, Live, IInv, SetsOK
<1>11. QED BY <1>8, <1>10

LEMMA AddAfterResizeShowsNothing ==
  ASSUME IInv, IInv', AddAfterResize
  PROVE  UNCHANGED <<live, contents>>
<1>1. /\ pc = "add" /\ pc' = "idle" /\ call' = NoCall /\ UNCHANGED hashsize
      /\ set_add_noresize(call.dst, call.name, call.data)
  BY DEF AddAfterResize
<1>2. call.op = "add" /\ call.dst \in Handle /\ Live(call.dst) /\ call.name \in Name /\ call.data \in Value
  BY <1>1, CallTypes DEF IInv, CallOK
<1>3. ContentsRead /\ ContentsRead' BY ContentsAre, ContentsAreNext
<1>4. /\ MapOf(CellsOf(table'[call.dst])) = With(Get(call.dst), call.name, call.data)
      /\ \A g \in Handle \ {call.dst} : table'[g] = table[g]
  <2>1. PICK h \in Handle, n \in Name, d \in Value : h = call.dst /\ n = call.name /\ d = call.data BY <1>2
  <2>2. set_add_noresize(h, n, d) /\ Live(h) BY <1>1, <1>2, <2>1
  <2>3. MapOf(CellsOf(table'[h])) = With(Get(h), n, d) /\ \A g \in Handle \ {h} : table'[g] = table[g]
    BY <2>2, AddToMap DEF IInv
  <2>4. QED BY <2>1, <2>3
<1>5. contents[call.dst] = With(Get(call.dst), call.name, call.data) BY <1>1, <1>2, <1>3 DEF ContentsRead
<1>6. contents'[call.dst] = MapOf(CellsOf(table'[call.dst])) BY <1>1, <1>2, <1>3 DEF ContentsRead, Get
<1>7. contents' = contents BY <1>1, <1>4, <1>5, <1>6, SameContents
<1>8. live' = live BY <1>1 DEF live, Live
<1>9. QED BY <1>7, <1>8

(* What a walk's step works on. *)
LEMMA HereIs ==
  ASSUME IInv, AtCell
  PROVE  /\ pc = "walk" /\ call.op \in Ops \ {"add"} /\ call.other \in Handle /\ Live(call.other)
         /\ call.src \in Handle /\ call.dst \in Handle /\ Live(call.dst)
         /\ Pending = AheadAt(table[call.src], i, j)
         /\ Here \in Pending /\ Functional(Pending)
         /\ i \in DOMAIN table[call.src] /\ j \in DOMAIN table[call.src][i]
         /\ Here \in CellsOf(table[call.src])
         /\ AheadAt(table[call.src], i, j + 1) = Pending \ {Here}
         /\ Here.name \in Name /\ Here.data \in Value /\ Here = [name |-> Here.name, data |-> Here.data]
         /\ InOther <=> Here.name \in DOMAIN Get(call.other)
<1>1. pc = "walk" BY DEF AtCell, Walking
<1>2. call.op # "add" BY <1>1 DEF IInv, CallOK
<1>3. /\ call.op \in Ops \ {"add"} /\ call.other \in Handle /\ Live(call.other)
      /\ call.dst \in Handle /\ Live(call.dst)
  BY <1>1, <1>2, CallTypes DEF IInv
<1>4. /\ call.src \in Handle /\ i \in DOMAIN table[call.src] /\ j \in DOMAIN table[call.src][i]
      /\ Here \in Cell
  BY AtCellTypes
<1>5. Pending = AheadAt(table[call.src], i, j) /\ Functional(Pending)
  BY <1>1, <1>2, PendingIs DEF IInv
<1>6. /\ hashsize[call.src] \in Nat /\ IsTable(table[call.src], hashsize[call.src])
      /\ IsDistinct(table[call.src])
  BY <1>4, SizeTypes DEF IInv, WellFormed
<1>7. Here = table[call.src][i][j] BY DEF Here
<1>8. Here \in Pending /\ AheadAt(table[call.src], i, j + 1) = Pending \ {Here}
  BY <1>4, <1>5, <1>6, <1>7, AheadPasses
<1>9. Here \in CellsOf(table[call.src]) BY <1>4, <1>7, CellsByPosition
<1>10. Here.name \in Name /\ Here.data \in Value /\ Here = [name |-> Here.name, data |-> Here.data]
  BY <1>4 DEF Cell
<1>11. InOther <=> Here.name \in DOMAIN Get(call.other)
  BY <1>3, <1>10, GetIsMember DEF IInv, InOther
<1>12. QED BY <1>1, <1>3, <1>4, <1>5, <1>8, <1>9, <1>10, <1>11

LEMMA WalkCopyShowsNothing ==
  ASSUME IInv, IInv', WalkOK, WalkCopy
  PROVE  UNCHANGED <<live, contents>>
<1>1. /\ AtCell /\ Copies /\ set_add_noresize(call.dst, Here.name, Here.data)
      /\ j' = j + 1 /\ UNCHANGED <<hashsize, pc, call, i>>
  BY DEF WalkCopy
<1>2. /\ pc = "walk" /\ call.op \in Ops \ {"add"} /\ call.other \in Handle
      /\ call.src \in Handle /\ call.dst \in Handle /\ Live(call.dst)
      /\ Here \in Pending /\ Functional(Pending) /\ Here \in CellsOf(table[call.src])
      /\ AheadAt(table[call.src], i, j + 1) = Pending \ {Here}
      /\ Here.name \in Name /\ Here.data \in Value /\ Here = [name |-> Here.name, data |-> Here.data]
      /\ InOther <=> Here.name \in DOMAIN Get(call.other)
  BY <1>1, HereIs
<1>3. PICK h \in Handle, n \in Name, d \in Value : h = call.dst /\ n = Here.name /\ d = Here.data BY <1>2
<1>4. /\ MapOf(CellsOf(table'[h])) = With(Get(h), n, d)
      /\ Here \in CellsOf(table[h]) => SameCells(table'[h], table[h])
      /\ \A g \in Handle \ {h} : table'[g] = table[g]
  BY <1>1, <1>2, <1>3, AddToMap DEF IInv
<1>5. Pending' = Pending \ {Here}
  <2>1. Pending' = AheadAt(table'[call.src], i, j + 1)
    BY <1>1, <1>2, PendingNext
  <2>2. CASE call.src = h BY <1>2, <1>4, <2>1, <2>2, SameCellsAhead
  <2>3. CASE call.src # h BY <1>2, <1>4, <2>1, <2>3
  <2>4. QED BY <2>2, <2>3
<1>6. /\ call.op \in {"union_inplace", "union2", "union", "diff", "intersect"}
      /\ call.op = "diff" => Here.name \notin DOMAIN Get(call.other)
      /\ call.op = "intersect" => Here.name \in DOMAIN Get(call.other)
  BY <1>1, <1>2 DEF Copies, Ops
<1>7. ContentsRead /\ ContentsRead' BY ContentsAre, ContentsAreNext
<1> DEFINE o == Get(call.other)
           p == MapOf(CellsOf(table'[call.other]))
<1>8. contents[h] = Final(call.op, Get(h), Pending, o) BY <1>2, <1>3, <1>7 DEF ContentsRead
<1>9. contents'[h] = Final(call.op, With(Get(h), Here.name, Here.data), Pending \ {Here}, p)
  BY <1>1, <1>2, <1>3, <1>4, <1>5, <1>7 DEF ContentsRead, Get
<1>10. call.op # "union_inplace" => p = o BY <1>2, <1>3, <1>4, <1>6 DEF WalkOK, Get
<1> HIDE DEF o, p
<1>11. Final(call.op, With(Get(h), Here.name, Here.data), Pending \ {Here}, p)
       = Final(call.op, With(Get(h), Here.name, Here.data), Pending \ {Here}, o)
  BY <1>6, <1>10 DEF Final
<1>12. Final(call.op, With(Get(h), Here.name, Here.data), Pending \ {Here}, o)
       = Final(call.op, Get(h), Pending, o)
  <2> DEFINE P == Pending
             c == Here
             op == call.op
             m == Get(h)
             v == With(Get(h), Here.name, Here.data)
  <2>1. v = With(m, c.name, c.data) /\ CopiesCell(op, c, o) /\ Functional(P) /\ c \in P
    BY <1>2, <1>6 DEF CopiesCell, o
  <2> HIDE DEF P, c, op, m, v
  <2>2. Final(op, v, P \ {c}, o) = Final(op, m, P, o) BY <2>1, FinalCopies
  <2>3. QED BY <2>2 DEF P, c, op, m, v
<1>13. contents' = contents
  BY <1>1, <1>2, <1>3, <1>4, <1>8, <1>9, <1>11, <1>12, SameContents
<1>14. live' = live BY <1>1 DEF live, Live
<1>15. QED BY <1>13, <1>14

LEMMA WalkUnlinkShowsNothing ==
  ASSUME IInv, IInv', WalkUnlink
  PROVE  UNCHANGED <<live, contents>>
<1>1. /\ AtCell /\ call.op = "diff_inplace" /\ InOther /\ Unlink(call.dst, i, j)
      /\ UNCHANGED <<hashsize, pc, call, i, j>>
  BY DEF WalkUnlink, Drops
<1>2. /\ pc = "walk" /\ call.other \in Handle /\ call.dst \in Handle /\ Live(call.dst)
      /\ Pending = AheadAt(table[call.src], i, j)
      /\ Here \in Pending /\ Functional(Pending)
      /\ i \in DOMAIN table[call.src] /\ j \in DOMAIN table[call.src][i]
      /\ Here.name \in DOMAIN Get(call.other)
  BY <1>1, HereIs
<1>3. call.src = call.dst BY <1>1 DEF IInv, CallOK
<1>4. PICK h \in Handle : h = call.dst BY <1>2
<1>5. Here = table[h][i][j] BY <1>3, <1>4 DEF Here
<1>6. /\ MapOf(CellsOf(table'[h])) = Restricted(Get(h), DOMAIN Get(h) \ {Here.name})
      /\ AheadAt(table'[h], i, j) = Pending \ {Here}
      /\ \A g \in Handle \ {h} : table'[g] = table[g]
  <2>1. /\ SetsOK /\ Live(h) /\ Unlink(h, i, j)
        /\ i \in DOMAIN table[h] /\ j \in DOMAIN table[h][i]
    BY <1>1, <1>2, <1>3, <1>4 DEF IInv
  <2>2. /\ MapOf(CellsOf(table'[h])) = Restricted(Get(h), DOMAIN Get(h) \ {table[h][i][j].name})
        /\ AheadAt(table'[h], i, j) = AheadAt(table[h], i, j) \ {table[h][i][j]}
        /\ \A g \in Handle \ {h} : table'[g] = table[g]
    BY <2>1, UnlinkFromMap
  <2>3. QED BY <1>2, <1>3, <1>4, <1>5, <2>2
<1>7. Pending' = Pending \ {Here}
  <2>1. Pending' = AheadAt(table'[h], i, j) BY <1>1, <1>2, <1>3, <1>4, PendingNext
  <2>2. QED BY <1>6, <2>1
<1>8. ContentsRead /\ ContentsRead' BY ContentsAre, ContentsAreNext
<1> DEFINE o == Get(call.other)
           p == MapOf(CellsOf(table'[call.other]))
           v == MapOf(CellsOf(table'[h]))
<1>9. contents[h] = Final("diff_inplace", Get(h), Pending, o) BY <1>1, <1>2, <1>4, <1>8 DEF ContentsRead
<1>10. contents'[h] = Final("diff_inplace", v, Pending \ {Here}, p)
  BY <1>1, <1>2, <1>4, <1>7, <1>8 DEF ContentsRead, Get
<1>11. p = o \/ DOMAIN p = DOMAIN o \ {Here.name}
  <2>1. CASE call.other = h
    <3>1. p = Restricted(Get(h), DOMAIN Get(h) \ {Here.name}) BY <1>6, <2>1
    <3>2. DOMAIN p = DOMAIN Get(h) \ {Here.name} BY <3>1, RestrictedIs
    <3>3. QED BY <2>1, <3>2
  <2>2. CASE call.other # h BY <1>2, <1>6, <2>2 DEF Get
  <2>3. QED BY <2>1, <2>2
<1>12. v = Restricted(Get(h), DOMAIN Get(h) \ {Here.name}) /\ Here.name \in DOMAIN o BY <1>2, <1>6
<1> HIDE DEF o, p, v
<1>13. Final("diff_inplace", v, Pending \ {Here}, p) = Final("diff_inplace", Get(h), Pending, o)
  <2> DEFINE P == Pending
             c == Here
             m == Get(h)
  <2>1. /\ Functional(P) /\ c \in P /\ c.name \in DOMAIN o
        /\ v = Restricted(m, DOMAIN m \ {c.name}) /\ (p = o \/ DOMAIN p = DOMAIN o \ {c.name})
    BY <1>2, <1>11, <1>12
  <2> HIDE DEF P, c, m
  <2>2. Final("diff_inplace", v, P \ {c}, p) = Final("diff_inplace", m, P, o) BY <2>1, FinalDrops
  <2>3. QED BY <2>2 DEF P, c, m
<1>14. contents' = contents BY <1>1, <1>2, <1>4, <1>6, <1>9, <1>10, <1>13, SameContents
<1>15. live' = live BY <1>1 DEF live, Live
<1>16. QED BY <1>14, <1>15

LEMMA WalkSkipShowsNothing ==
  ASSUME IInv, IInv', WalkSkip
  PROVE  UNCHANGED <<live, contents>>
<1>1. AtCell /\ ~Copies /\ ~Drops /\ j' = j + 1 /\ UNCHANGED <<hashsize, table, pc, call, i>>
  BY DEF WalkSkip
<1>2. /\ pc = "walk" /\ call.op \in Ops \ {"add"} /\ call.dst \in Handle
      /\ Here \in Pending
      /\ AheadAt(table[call.src], i, j + 1) = Pending \ {Here}
      /\ InOther <=> Here.name \in DOMAIN Get(call.other)
  BY <1>1, HereIs
<1>3. Pending' = Pending \ {Here}
  BY <1>1, <1>2, PendingNext
<1>4. /\ call.op \in {"diff", "intersect", "diff_inplace"}
      /\ call.op = "diff" => Here.name \in DOMAIN Get(call.other)
      /\ call.op # "diff" => Here.name \notin DOMAIN Get(call.other)
  BY <1>1, <1>2 DEF Copies, Drops, Ops
<1>5. ContentsRead /\ ContentsRead' BY ContentsAre, ContentsAreNext
<1>6. contents[call.dst] = Final(call.op, Get(call.dst), Pending, Get(call.other))
  BY <1>2, <1>5 DEF ContentsRead
<1>7. contents'[call.dst] = Final(call.op, Get(call.dst), Pending \ {Here}, Get(call.other))
  BY <1>1, <1>2, <1>3, <1>5 DEF ContentsRead, Get
<1>8. contents'[call.dst] = contents[call.dst] BY <1>2, <1>4, <1>6, <1>7, FinalSkips
<1>9. contents' = contents BY <1>1, <1>2, <1>8, SameContents
<1>10. live' = live BY <1>1 DEF live, Live
<1>11. QED BY <1>9, <1>10

(* The set a walk reads, and the bound of the walk, which is its size. *)
LEMMA WalkReads ==
  ASSUME IInv, WalkOK, pc = "walk"
  PROVE  /\ call.op \in Ops \ {"add"} /\ call.src \in Handle /\ call.dst \in Handle /\ call.other \in Handle
         /\ IsTable(table[call.src], hashsize[call.src]) /\ hashsize[call.src] \in Nat
         /\ WalkBound = hashsize[call.src]
         /\ Pending = AheadAt(table[call.src], i, j)
<1>1. call.op # "add" BY DEF IInv, CallOK
<1>2. call.op \in Ops \ {"add"} /\ call.src \in Handle /\ call.dst \in Handle /\ call.other \in Handle
  BY <1>1, CallTypes DEF IInv
<1>3. IsTable(table[call.src], hashsize[call.src]) /\ hashsize[call.src] \in Nat /\ hashsize[call.dst] \in Nat
  BY <1>2, SizeTypes DEF IInv, WellFormed
<1>4. WalkBound = hashsize[call.src]
  BY <1>3 DEF WalkBound, IInv, CallOK, CursorInBounds, WalkOK
<1>5. QED BY <1>1, <1>2, <1>3, <1>4, PendingIs DEF IInv

LEMMA WalkBucketShowsNothing ==
  ASSUME IInv, IInv', WalkOK, WalkBucket
  PROVE  UNCHANGED <<live, contents>>
<1>1. /\ pc = "walk" /\ i < WalkBound /\ j > Len(table[call.src][i]) /\ i' = i + 1 /\ j' = 1
      /\ UNCHANGED <<hashsize, table, pc, call>>
  BY DEF WalkBucket, Walking
<1>2. /\ call.op # "add" /\ call.src \in Handle /\ call.dst \in Handle
      /\ IsTable(table[call.src], hashsize[call.src]) /\ hashsize[call.src] \in Nat
      /\ WalkBound = hashsize[call.src] /\ Pending = AheadAt(table[call.src], i, j)
  BY <1>1, WalkReads
<1>3. i \in DOMAIN table[call.src] /\ j \in Nat BY <1>1, <1>2 DEF IsTable, IInv, CallOK
<1>4. Pending' = AheadAt(table[call.src], i + 1, 1) BY <1>1, <1>2, PendingNext
<1>5. Pending' = Pending BY <1>1, <1>2, <1>3, <1>4, AheadPassesBucket
<1>6. ContentsRead /\ ContentsRead' BY ContentsAre, ContentsAreNext
<1>7. contents'[call.dst] = contents[call.dst] BY <1>1, <1>2, <1>5, <1>6 DEF ContentsRead, Get
<1>8. contents' = contents BY <1>1, <1>2, <1>7, SameContents
<1>9. live' = live BY <1>1 DEF live, Live
<1>10. QED BY <1>8, <1>9

LEMMA WalkDoneShowsNothing ==
  ASSUME IInv, IInv', WalkOK, WalkDone
  PROVE  UNCHANGED <<live, contents>>
<1>1. pc = "walk" /\ i = WalkBound /\ i' = 0 /\ j' = 1 /\ UNCHANGED <<hashsize, table>>
  BY DEF WalkDone
<1>2. /\ call.op \in Ops \ {"add"} /\ call.src \in Handle /\ call.dst \in Handle /\ call.other \in Handle
      /\ IsTable(table[call.src], hashsize[call.src]) /\ hashsize[call.src] \in Nat
      /\ WalkBound = hashsize[call.src] /\ Pending = AheadAt(table[call.src], i, j)
  BY <1>1, WalkReads
<1>3. Pending = {} BY <1>1, <1>2, AheadEnds
<1>4. ContentsRead /\ ContentsRead' BY ContentsAre, ContentsAreNext
<1>5. IsMap(Get(call.dst)) BY MapOfIs DEF Get
<1>6. contents[call.dst] = IF call.op = "union" THEN Over(Get(call.other), Get(call.dst)) ELSE Get(call.dst)
  BY <1>1, <1>2, <1>3, <1>4, <1>5, FinalEnds DEF ContentsRead
<1>7. ASSUME call.op # "union" PROVE contents' = contents
  <2>1. pc' = "idle" BY <1>7 DEF WalkDone
  <2>2. contents'[call.dst] = contents[call.dst] BY <1>1, <1>2, <1>4, <1>6, <1>7, <2>1 DEF ContentsRead, Get
  <2>3. QED BY <1>1, <1>2, <2>1, <2>2, SameContents
<1>8. ASSUME call.op = "union" PROVE contents' = contents
  <2>1. pc' = "walk" /\ call' = [call EXCEPT !.op = "union2", !.src = call.other]
    BY <1>1, <1>8 DEF WalkDone
  <2>2. call'.op = "union2" /\ call'.src = call.other /\ call'.dst = call.dst
    BY <1>8, <2>1 DEF IInv, CallOK, Calls, NoCall
  <2>3. Pending' = AheadAt(table[call.other], 0, 1)
    BY <1>1, <2>1, <2>2, PendingNext
  <2>4. hashsize[call.other] \in Nat /\ IsTable(table[call.other], hashsize[call.other])
    BY <1>2, SizeTypes DEF IInv, WellFormed
  <2>5. Pending' = CellsOf(table[call.other]) BY <2>3, <2>4, AheadEnds
  <2>6. contents'[call.dst] = Over(MapOf(CellsOf(table[call.other])), Get(call.dst))
    BY <1>1, <2>1, <2>2, <2>5, <1>4 DEF ContentsRead, Get, Final
  <2>7. contents'[call.dst] = contents[call.dst] BY <1>6, <1>8, <2>6 DEF Get
  <2>8. QED BY <1>1, <1>2, <2>2, <2>7, SameContents
<1>9. contents' = contents BY <1>7, <1>8
<1>10. live' = live BY <1>1 DEF live, Live
<1>11. QED BY <1>9, <1>10

(***************************************************************************)
(* The step that starts a call is the abstract call.                       *)
(***************************************************************************)
LEMMA CallUpdates ==
  ASSUME IInv, IInv', pc = "idle", NEW h \in Handle,
         pc' = "idle" \/ call'.dst = h, \A g \in Handle \ {h} : table'[g] = table[g]
  PROVE  /\ contents' = [contents EXCEPT ![h] = contents'[h]]
         /\ \A g \in Handle : contents[g] = Get(g)
<1>1. ContentsRead /\ ContentsRead' BY ContentsAre, ContentsAreNext
<1>2. \A g \in Handle : contents[g] = Get(g) BY <1>1 DEF ContentsRead
<1>3. ASSUME NEW g \in Handle, g # h PROVE contents'[g] = contents[g]
  <2>1. contents'[g] = MapOf(CellsOf(table'[g])) BY <1>1, <1>3 DEF ContentsRead, Get
  <2>2. QED BY <1>2, <1>3, <2>1 DEF Get
<1>4. contents = [g \in Handle |-> contents[g]] /\ contents' = [g \in Handle |-> contents'[g]]
  BY <1>1 DEF ContentsRead
<1>5. QED BY <1>2, <1>3, <1>4

(* What the set written by a call will be, read right after its start.     *)
LEMMA CallReads ==
  ASSUME IInv, IInv', NEW h \in Handle
  PROVE  /\ pc' = "idle" => contents'[h] = MapOf(CellsOf(table'[h]))
         /\ pc' # "idle" /\ call'.dst = h /\ call'.op = "add" =>
              contents'[h] = With(MapOf(CellsOf(table'[h])), call'.name, call'.data)
         /\ pc' # "idle" /\ call'.dst = h /\ call'.op # "add" =>
              contents'[h] = Final(call'.op, MapOf(CellsOf(table'[h])), Pending',
                                   MapOf(CellsOf(table'[call'.other])))
<1>1. ContentsRead' BY ContentsAreNext
<1>2. QED BY <1>1 DEF ContentsRead, Get

LEMMA NewRefines ==
  ASSUME IInv, IInv', NEW h \in Handle, NEW hint \in Hints, set_new(h, hint)
  PROVE  Abstract!New(h)
<1>1. /\ pc = "idle" /\ pc' = "idle" /\ ~Live(h) /\ Fits(hint)
      /\ hashsize' = [hashsize EXCEPT ![h] = next_prime(hint)]
      /\ table' = [table EXCEPT ![h] = EmptyTable(next_prime(hint))]
  BY DEF set_new, Idle, Alloc
<1>2. next_prime(hint) \in Nat \ {0} BY <1>1, HintsAssumption, NextPrime DEF HintsAssumption
<1>3. CellsOf(table'[h]) = {} BY <1>1, <1>2, EmptyTableKeeps DEF IInv, SetsOK
<1>4. contents'[h] = <<>> BY <1>1, <1>3, CallReads, NoCells DEF IsMap
<1>5. contents' = [contents EXCEPT ![h] = contents'[h]]
  BY <1>1, CallUpdates DEF IInv, SetsOK
<1>6. h \notin live /\ live' = live \union {h} BY <1>1, <1>2 DEF live, Live, IInv, SetsOK
<1>7. QED BY <1>4, <1>5, <1>6 DEF Abstract!New

LEMMA DestroyRefines ==
  ASSUME IInv, IInv', NEW h \in Handle, set_destroy(h)
  PROVE  Abstract!Destroy(h)
<1>1. /\ pc = "idle" /\ pc' = "idle" /\ Live(h)
      /\ hashsize' = [hashsize EXCEPT ![h] = 0] /\ table' = [table EXCEPT ![h] = <<>>]
  BY DEF set_destroy, Idle
<1>2. table'[h] = <<>> BY <1>1 DEF IInv, SetsOK
<1>3. CellsOf(table'[h]) = {} BY <1>2 DEF CellsOf
<1>4. contents'[h] = <<>> BY <1>1, <1>3, CallReads, NoCells DEF IsMap
<1>5. contents' = [contents EXCEPT ![h] = contents'[h]]
  BY <1>1, CallUpdates DEF IInv, SetsOK
<1>6. h \in live /\ live' = live \ {h} BY <1>1 DEF live, Live, IInv, SetsOK
<1>7. QED BY <1>4, <1>5, <1>6 DEF Abstract!Destroy

LEMMA DeleteRefines ==
  ASSUME IInv, IInv', NEW h \in Handle, NEW n \in Name, set_remove(h, n)
  PROVE  Abstract!Delete(h, n)
<1> DEFINE b == set_hash(n, hashsize[h])
<1>1. pc = "idle" /\ pc' = "idle" /\ Live(h) /\ hashsize' = hashsize BY DEF set_remove, Idle
<1>2. PICK k \in Found(Chain(h, n), n) : Unlink(h, b, k) BY DEF set_remove
<1>3. b \in DOMAIN table[h] /\ k \in DOMAIN table[h][b] BY <1>1, FoundInTable DEF IInv
<1>4. table[h][b][k].name = n BY DEF Found, Chain
<1> HIDE DEF b
<1>5. /\ MapOf(CellsOf(table'[h])) = Restricted(Get(h), DOMAIN Get(h) \ {n})
      /\ \A g \in Handle \ {h} : table'[g] = table[g]
  BY <1>1, <1>2, <1>3, <1>4, UnlinkFromMap DEF IInv
<1>6. contents'[h] = Restricted(Get(h), DOMAIN Get(h) \ {n}) BY <1>1, <1>5, CallReads
<1>7. contents' = [contents EXCEPT ![h] = contents'[h]] /\ contents[h] = Get(h)
  BY <1>1, <1>5, CallUpdates
<1>8. h \in live /\ live' = live BY <1>1 DEF live, Live
<1>9. QED BY <1>6, <1>7, <1>8 DEF Abstract!Delete, Abstract!Update, Abstract!Restricted, Restricted

LEMMA PutRefines ==
  ASSUME IInv, IInv', NEW h \in Handle, NEW n \in Name, NEW d \in Value, set_add(h, n, d)
  PROVE  Abstract!Put(h, n, d)
<1>1. pc = "idle" /\ Live(h) /\ hashsize' = hashsize BY DEF set_add, Idle, StartResize
<1>2. /\ contents'[h] = With(Get(h), n, d) /\ (pc' = "idle" \/ call'.dst = h)
      /\ \A g \in Handle \ {h} : table'[g] = table[g]
  <2>1. CASE /\ StartResize(h, members[h] + 1)
             /\ call' = [op |-> "add", dst |-> h, name |-> n, data |-> d]
    <3>1. pc' = "resize" /\ table' = table BY <2>1 DEF StartResize
    <3>2. QED BY <2>1, <3>1, CallReads DEF Get
  <2>2. CASE set_add_noresize(h, n, d) /\ pc' = pc
    <3>1. pc' = "idle" BY <1>1, <2>2
    <3>2. /\ MapOf(CellsOf(table'[h])) = With(Get(h), n, d)
          /\ \A g \in Handle \ {h} : table'[g] = table[g]
      BY <1>1, <2>2, AddToMap DEF IInv
    <3>3. QED BY <3>1, <3>2, CallReads
  <2>3. QED BY <2>1, <2>2 DEF set_add
<1>3. contents' = [contents EXCEPT ![h] = contents'[h]] /\ contents[h] = Get(h)
  BY <1>1, <1>2, CallUpdates
<1>4. h \in live /\ live' = live BY <1>1 DEF live, Live
<1>5. QED BY <1>2, <1>3, <1>4 DEF Abstract!Put, Abstract!Update, Abstract!With, With

(* A walk that begins has every cell of its first set ahead. *)
LEMMA AllPending ==
  ASSUME IInv, IInv', WalkOK, pc = "idle", NEW g \in Handle,
         pc' = "resize" \/ (pc' = "walk" /\ i' = i /\ j' = j),
         call'.src = g
  PROVE  Pending' = CellsOf(table'[g])
<1>1. hashsize'[g] \in Nat /\ IsTable(table'[g], hashsize'[g])
  BY PrimesArePositive DEF IInv, SetsOK, WellFormed
<1>2. i = 0 /\ j = 1 BY DEF WalkOK
<1>3. CASE pc' = "resize" BY <1>3 DEF Pending
<1>4. CASE pc' = "walk" /\ i' = i /\ j' = j
  <2>1. Pending' = AheadAt(table'[g], 0, 1) BY <1>2, <1>4, PendingNext
  <2>2. QED BY <1>1, <2>1, AheadEnds
<1>5. QED BY <1>3, <1>4

LEMMA UnionIntoRefines ==
  ASSUME IInv, IInv', WalkOK, NEW h \in Handle, NEW g \in Handle, set_union_inplace(h, g)
  PROVE  Abstract!UnionInto(h, g)
<1>1. /\ pc = "idle" /\ Live(h) /\ Live(g) /\ hashsize' = hashsize /\ table' = table
      /\ call' = [op |-> "union_inplace", dst |-> h, src |-> g, other |-> g]
      /\ pc' = "resize" \/ (pc' = "walk" /\ i' = i /\ j' = j)
  BY DEF set_union_inplace, Idle, StartResize, StartWalk, Unmoved, Walk
<1>2. Pending' = CellsOf(table[g]) BY <1>1, AllPending
<1>3. contents'[h] = Final("union_inplace", Get(h), Pending', Get(g)) BY <1>1, CallReads DEF Get
<1>4. contents'[h] = Over(Get(g), Get(h)) BY <1>2, <1>3 DEF Final, Get
<1>5. contents' = [contents EXCEPT ![h] = contents'[h]] /\ contents[h] = Get(h) /\ contents[g] = Get(g)
  BY <1>1, CallUpdates
<1>6. h \in live /\ g \in live /\ live' = live BY <1>1 DEF live, Live
<1>7. QED BY <1>4, <1>5, <1>6 DEF Abstract!UnionInto, Abstract!Update, Abstract!Over, Over

LEMMA TakenNames ==
  ASSUME NEW C, NEW o
  PROVE  /\ {c.name : c \in Taken(C, o)} = DOMAIN MapOf(C) \intersect DOMAIN o
         /\ {c.name : c \in Left(C, o)} = DOMAIN MapOf(C) \ DOMAIN o
<1>1. DOMAIN MapOf(C) = {c.name : c \in C} BY MapOfIs
<1>2. QED BY <1>1 DEF Taken, Left

LEMMA DiffIntoRefines ==
  ASSUME IInv, IInv', WalkOK, NEW h \in Handle, NEW g \in Handle, set_diff_inplace(h, g)
  PROVE  Abstract!DiffInto(h, g)
<1>1. /\ pc = "idle" /\ Live(h) /\ Live(g) /\ hashsize' = hashsize /\ table' = table
      /\ call' = [op |-> "diff_inplace", dst |-> h, src |-> h, other |-> g]
      /\ pc' = "walk" /\ i' = i /\ j' = j
  BY DEF set_diff_inplace, Idle, StartWalk, Unmoved, Walk
<1>2. Pending' = CellsOf(table[h]) BY <1>1, AllPending
<1>3. contents'[h] = Final("diff_inplace", Get(h), CellsOf(table[h]), Get(g))
  BY <1>1, <1>2, CallReads DEF Get
<1>4. {c.name : c \in Taken(CellsOf(table[h]), Get(g))} = DOMAIN Get(h) \intersect DOMAIN Get(g)
  BY TakenNames DEF Get
<1>5. DOMAIN Get(h) \ (DOMAIN Get(h) \intersect DOMAIN Get(g)) = DOMAIN Get(h) \ DOMAIN Get(g) OBVIOUS
<1>6. contents'[h] = Restricted(Get(h), DOMAIN Get(h) \ DOMAIN Get(g)) BY <1>3, <1>4, <1>5 DEF Final
<1>7. contents' = [contents EXCEPT ![h] = contents'[h]] /\ contents[h] = Get(h) /\ contents[g] = Get(g)
  BY <1>1, CallUpdates
<1>8. h \in live /\ g \in live /\ live' = live BY <1>1 DEF live, Live
<1>9. QED BY <1>6, <1>7, <1>8 DEF Abstract!DiffInto, Abstract!Update, Abstract!Restricted, Restricted

(* The three calls that build their result in a new set. *)
LEMMA BuildUpdates ==
  ASSUME IInv, IInv', WalkOK, NEW h \in Handle, NEW a \in Handle, NEW b \in Handle,
         NEW op \in {"union", "diff", "intersect"}, NEW hint \in Nat,
         pc = "idle", Live(a), Live(b), Alloc(h, hint), Walk(op, h, a, b), StartWalk
  PROVE  /\ a \in live /\ b \in live /\ h \notin live /\ live' = live \union {h}
         /\ contents' = [contents EXCEPT ![h] = contents'[h]]
         /\ contents[a] = Get(a) /\ contents[b] = Get(b)
         /\ contents'[h] = Final(op, MapOf({}), CellsOf(table[a]), Get(b))
<1>1. /\ ~Live(h) /\ Fits(hint) /\ pc' = "walk" /\ i' = i /\ j' = j
      /\ hashsize' = [hashsize EXCEPT ![h] = next_prime(hint)]
      /\ table' = [table EXCEPT ![h] = EmptyTable(next_prime(hint))]
      /\ call' = [op |-> op, dst |-> h, src |-> a, other |-> b]
  BY DEF Alloc, Walk, StartWalk, Unmoved
<1>2. next_prime(hint) \in Nat \ {0} BY <1>1, NextPrime
<1>3. CellsOf(table'[h]) = {} BY <1>1, <1>2, EmptyTableKeeps DEF IInv, SetsOK
<1>4. \A g \in Handle \ {h} : table'[g] = table[g] BY <1>1 DEF IInv, SetsOK
<1>5. a # h /\ b # h BY <1>1
<1>6. Pending' = CellsOf(table[a]) BY <1>1, <1>4, <1>5, AllPending
<1>7. contents'[h] = Final(op, MapOf({}), CellsOf(table[a]), Get(b))
  <2>1. contents'[h] = Final(op, MapOf(CellsOf(table'[h])), Pending', MapOf(CellsOf(table'[b])))
    BY <1>1, CallReads
  <2>2. QED BY <1>3, <1>4, <1>5, <1>6, <2>1 DEF Get
<1>8. /\ contents' = [contents EXCEPT ![h] = contents'[h]]
      /\ contents[a] = Get(a) /\ contents[b] = Get(b)
  BY <1>1, <1>4, CallUpdates
<1>9. a \in live /\ b \in live /\ h \notin live /\ live' = live \union {h}
  BY <1>1, <1>2 DEF live, Live, IInv, SetsOK
<1>10. QED BY <1>7, <1>8, <1>9

LEMMA UnionRefines ==
  ASSUME IInv, IInv', WalkOK, NEW h \in Handle, NEW a \in Handle, NEW b \in Handle, set_union(h, a, b)
  PROVE  Abstract!Union(h, a, b)
<1>1. /\ pc = "idle" /\ Live(a) /\ Live(b) /\ Alloc(h, members[a] + members[b])
      /\ Walk("union", h, a, b) /\ StartWalk /\ members[a] + members[b] \in Nat
  BY SizeTypes DEF set_union, Idle, IInv
<1>2. /\ a \in live /\ b \in live /\ h \notin live /\ live' = live \union {h}
      /\ contents' = [contents EXCEPT ![h] = contents'[h]]
      /\ contents[a] = Get(a) /\ contents[b] = Get(b)
      /\ contents'[h] = Final("union", MapOf({}), CellsOf(table[a]), Get(b))
  BY <1>1, BuildUpdates
<1>3. IsMap(Get(a)) BY MapOfIs DEF Get
<1>4. Over(Get(a), MapOf({})) = Get(a) BY <1>3, NoCells
<1>5. contents'[h] = Over(Get(b), Get(a)) BY <1>2, <1>4 DEF Final, Get
<1>6. QED BY <1>2, <1>5 DEF Abstract!Union, Abstract!Result, Abstract!Over, Over

(* A part of a table, over nothing, is a part of its map. *)
LEMMA PartOverNone ==
  ASSUME IInv, NEW a \in Handle, NEW D \in SUBSET CellsOf(table[a])
  PROVE  Over(MapOf(D), MapOf({})) = Restricted(Get(a), {c.name : c \in D})
<1>1. Functional(CellsOf(table[a])) BY SizeTypes, CellsFunctional DEF IInv, WellFormed
<1>2. IsMap(MapOf(D)) /\ MapOf(D) = Restricted(Get(a), {c.name : c \in D})
  BY <1>1, MapOfIs, PartOf DEF Get
<1>3. Over(MapOf(D), MapOf({})) = MapOf(D) BY <1>2, NoCells
<1>4. QED BY <1>2, <1>3

LEMMA DiffRefines ==
  ASSUME IInv, IInv', WalkOK, NEW h \in Handle, NEW a \in Handle, NEW b \in Handle, set_diff(h, a, b)
  PROVE  Abstract!Diff(h, a, b)
<1>1. /\ pc = "idle" /\ Live(a) /\ Live(b) /\ Alloc(h, hashsize[a])
      /\ Walk("diff", h, a, b) /\ StartWalk /\ hashsize[a] \in Nat
  BY SizeTypes DEF set_diff, Idle, IInv
<1>2. /\ a \in live /\ b \in live /\ h \notin live /\ live' = live \union {h}
      /\ contents' = [contents EXCEPT ![h] = contents'[h]]
      /\ contents[a] = Get(a) /\ contents[b] = Get(b)
      /\ contents'[h] = Final("diff", MapOf({}), CellsOf(table[a]), Get(b))
  BY <1>1, BuildUpdates
<1> DEFINE D == Left(CellsOf(table[a]), Get(b))
<1>3. D \in SUBSET CellsOf(table[a]) BY DEF Left
<1>4. {c.name : c \in D} = DOMAIN Get(a) \ DOMAIN Get(b) BY TakenNames DEF Get
<1>5. contents'[h] = Over(MapOf(D), MapOf({})) BY <1>2 DEF Final
<1> HIDE DEF D
<1>6. contents'[h] = Restricted(Get(a), DOMAIN Get(a) \ DOMAIN Get(b))
  BY <1>3, <1>4, <1>5, PartOverNone
<1>7. QED BY <1>2, <1>6 DEF Abstract!Diff, Abstract!Result, Abstract!Restricted, Restricted

LEMMA IntersectRefines ==
  ASSUME IInv, IInv', WalkOK, NEW h \in Handle, NEW a \in Handle, NEW b \in Handle, set_intersect(h, a, b)
  PROVE  Abstract!Intersect(h, a, b)
<1>1. PICK s \in Handle, l \in Handle :
        /\ {s, l} = {a, b} /\ pc = "idle" /\ Live(s) /\ Live(l) /\ Alloc(h, hashsize[l])
        /\ Walk("intersect", h, s, l) /\ StartWalk /\ hashsize[l] \in Nat
  <2> DEFINE s == IF members[a] < members[b] THEN a ELSE b
             l == IF members[a] < members[b] THEN b ELSE a
  <2>1. /\ {s, l} = {a, b} /\ pc = "idle" /\ Live(s) /\ Live(l) /\ Alloc(h, hashsize[l])
        /\ Walk("intersect", h, s, l) /\ StartWalk /\ s \in Handle /\ l \in Handle
    BY DEF set_intersect, Idle
  <2> HIDE DEF s, l
  <2>2. hashsize[l] \in Nat BY <2>1, SizeTypes DEF IInv
  <2>3. QED BY <2>1, <2>2
<1>2. /\ s \in live /\ l \in live /\ h \notin live /\ live' = live \union {h}
      /\ contents' = [contents EXCEPT ![h] = contents'[h]]
      /\ contents[s] = Get(s) /\ contents[l] = Get(l)
      /\ contents'[h] = Final("intersect", MapOf({}), CellsOf(table[s]), Get(l))
  BY <1>1, BuildUpdates
<1> DEFINE D == Taken(CellsOf(table[s]), Get(l))
<1>3. D \in SUBSET CellsOf(table[s]) BY DEF Taken
<1>4. {c.name : c \in D} = DOMAIN Get(s) \intersect DOMAIN Get(l) BY TakenNames DEF Get
<1>5. contents'[h] = Over(MapOf(D), MapOf({})) BY <1>2 DEF Final
<1> HIDE DEF D
<1>6. contents'[h] = Restricted(contents[s], DOMAIN contents[s] \intersect DOMAIN contents[l])
  BY <1>2, <1>3, <1>4, <1>5, PartOverNone
<1>7. DOMAIN contents[s] \intersect DOMAIN contents[l] = DOMAIN contents[a] \intersect DOMAIN contents[b]
  BY <1>1
<1>8. s \in {a, b} /\ {a, b} \subseteq live BY <1>1, <1>2
<1>9. QED BY <1>2, <1>6, <1>7, <1>8 DEF Abstract!Intersect, Abstract!Result, Abstract!Restricted, Restricted

LEMMA LoopShowsNothing == ASSUME IInv, IInv', WalkOK, Loop PROVE UNCHANGED <<live, contents>>
BY RehashShowsNothing, RehashDoneShowsNothing, AddAfterResizeShowsNothing, WalkCopyShowsNothing,
   WalkUnlinkShowsNothing, WalkSkipShowsNothing, WalkBucketShowsNothing, WalkDoneShowsNothing DEF Loop

(* Every step is a step of the map, or none. *)
LEMMA StepRefines ==
  ASSUME IInv, IInv', WalkOK, [Next]_vars
  PROVE  [Abstract!Next]_<<live, contents>> /\ StepsAsNamed
<1>1. StepsAsNamed
  BY LoopShowsNothing, DeleteRefines, PutRefines, UnionIntoRefines, DiffIntoRefines, UnionRefines,
     DiffRefines, IntersectRefines DEF StepsAsNamed
<1> DEFINE Mapped == Abstract!Next \/ UNCHANGED <<live, contents>>
<1>2. ASSUME Loop PROVE Mapped BY <1>2, LoopShowsNothing
<1>3. ASSUME UNCHANGED vars PROVE Mapped
  <2>1. contents' = contents
    BY <1>3 DEF vars, contents, Contents, Pending, Ahead, Before, Shared, set_get, Chain
  <2>2. QED BY <1>3, <2>1 DEF vars, live, Live
<1>4. ASSUME Call PROVE Mapped
  <2>1. PICK h \in Handle :
          \/ \E hint \in Hints : set_new(h, hint)
          \/ set_destroy(h)
          \/ \E n \in Name : set_remove(h, n) \/ \E d \in Value : set_add(h, n, d)
          \/ \E g \in Handle : set_union_inplace(h, g) \/ set_diff_inplace(h, g)
          \/ \E a, b \in Handle : set_union(h, a, b) \/ set_diff(h, a, b) \/ set_intersect(h, a, b)
    BY <1>4 DEF Call
  <2>2. \/ Abstract!New(h) \/ Abstract!Destroy(h)
        \/ \E n \in Name : Abstract!Delete(h, n) \/ \E d \in Value : Abstract!Put(h, n, d)
        \/ \E g \in Handle : Abstract!UnionInto(h, g) \/ Abstract!DiffInto(h, g)
        \/ \E a, b \in Handle : Abstract!Union(h, a, b) \/ Abstract!Diff(h, a, b) \/ Abstract!Intersect(h, a, b)
    BY <1>1, <2>1, NewRefines, DestroyRefines DEF StepsAsNamed
  <2>3. QED BY <2>2 DEF Abstract!Next
<1>5. QED BY <1>1, <1>2, <1>3, <1>4 DEF Next

LEMMA InitRefines == Init => Abstract!Init
<1> SUFFICES ASSUME Init PROVE Abstract!Init OBVIOUS
<1>1. live = {} BY DEF Init, live, Live
<1>2. contents = [h \in Handle |-> <<>>]
  <2>1. \A h \in Handle : Contents(h) = <<>>
    <3> TAKE h \in Handle
    <3>1. CellsOf(table[h]) = {} BY DEF Init, CellsOf
    <3>2. Contents(h) = MapOf({}) BY <3>1 DEF Init, Contents
    <3>3. QED BY <3>2, NoCells DEF IsMap
  <2>2. QED BY <2>1 DEF contents
<1>3. QED BY <1>1, <1>2 DEF Abstract!Init

(* set.c implements the map of set.h: seen through contents, every call is *)
(* the map update it is named for at the step that starts it, in-place     *)
(* calls on aliased sets and resizes included, and its loops do not show.  *)
THEOREM RefinesMap == Spec => ImplementsMap
<1>1. Init => WalkOK BY WalkOKInit
<1>2. IInv /\ WalkOK /\ [Next]_vars => WalkOK' BY WalkOKStep
<1>3. Init => Abstract!Init BY InitRefines
<1>4. IInv /\ IInv' /\ WalkOK /\ [Next]_vars => [Abstract!Next]_<<live, contents>> /\ StepsAsNamed
  BY StepRefines
<1>5. QED BY <1>1, <1>2, <1>3, <1>4, Invariance, PTL DEF Spec, ImplementsMap, Abstract!Spec

(***************************************************************************)
(* Packing: first sums of sizes, and chains strung together.               *)
(***************************************************************************)

(* A set that has 0 and with each number the next has all of them. *)
LEMMA Induct ==
  ASSUME NEW S, 0 \in S, \A n \in Nat : n \in S => n + 1 \in S
  PROVE  Nat \subseteq S
<1> DEFINE Out == Nat \ S
<1>1. SUFFICES ASSUME Out # {} PROVE FALSE OBVIOUS
<1>2. Out \in SUBSET Nat OBVIOUS
<1>3. PICK m \in Out : \A n \in Out : m <= n BY <1>1, <1>2, LeastExists
<1>4. m \in Nat /\ m # 0 BY <1>3
<1>5. m - 1 \in Nat /\ ~(m <= m - 1) /\ (m - 1) + 1 = m BY <1>4
<1>6. m - 1 \in S BY <1>3, <1>5
<1>7. m \in S BY <1>5, <1>6
<1>8. QED BY <1>3, <1>7

(* There is a function that each step is taken of the value before. *)
IsRecursive(f, S, base, step) ==
  f \in [Nat -> S] /\ f[0] = base /\ \A n \in Nat : f[n + 1] = step[<<n, f[n]>>]

LEMMA Recursion ==
  ASSUME NEW S, NEW base \in S, NEW step \in [Nat \X S -> S]
  PROVE  \E f : IsRecursive(f, S, base, step)
<1> DEFINE Upto(n, f) == f \in [0..n -> S] /\ f[0] = base /\ \A k \in 0..n - 1 : f[k + 1] = step[<<k, f[k]>>]
           Some == {n \in Nat : \E f : Upto(n, f)}
<1>1. Nat \subseteq Some
  <2>1. 0 \in Some
    <3>1. Upto(0, [k \in 0..0 |-> base]) OBVIOUS
    <3>2. QED BY <3>1
  <2>2. ASSUME NEW n \in Nat, n \in Some PROVE n + 1 \in Some
    <3>1. PICK f : Upto(n, f) BY <2>2
    <3> DEFINE g == [k \in 0..n + 1 |-> IF k = n + 1 THEN step[<<n, f[n]>>] ELSE f[k]]
    <3>2. f[n] \in S BY <3>1
    <3>3. <<n, f[n]>> \in Nat \X S BY <3>2
    <3>4. step[<<n, f[n]>>] \in S BY <3>3
    <3>5. g \in [0..n + 1 -> S] BY <3>1, <3>4
    <3>6. g[0] = base BY <3>1
    <3>7. ASSUME NEW k \in 0..n PROVE g[k + 1] = step[<<k, g[k]>>]
      <4>0. k \in 0..n + 1 /\ k # n + 1 /\ k + 1 \in 0..n + 1 OBVIOUS
      <4>1. CASE k = n
        <5>1. g[k + 1] = step[<<n, f[n]>>] /\ g[k] = f[n] BY <4>0, <4>1
        <5>2. QED BY <4>1, <5>1
      <4>2. CASE k # n
        <5>1. k \in 0..n - 1 /\ k + 1 \in 0..n + 1 /\ k + 1 # n + 1 /\ k \in 0..n + 1 /\ k # n + 1 BY <4>2
        <5>2. QED BY <3>1, <5>1
      <4>3. QED BY <4>1, <4>2
    <3>8. (n + 1) - 1 = n BY <2>2
    <3>9. Upto(n + 1, g) BY <3>5, <3>6, <3>7, <3>8
    <3> HIDE DEF Upto
    <3>10. QED BY <3>9
  <2> HIDE DEF Some
  <2>3. QED BY <2>1, <2>2, Induct
<1>2. ASSUME NEW n \in Nat, NEW m \in Nat, n <= m, NEW f, NEW g, Upto(n, f), Upto(m, g)
      PROVE  \A k \in 0..n : f[k] = g[k]
  <2> DEFINE Same == {k \in Nat : k <= n => f[k] = g[k]}
  <2>1. 0 \in Same BY <1>2
  <2>2. ASSUME NEW k \in Nat, k \in Same PROVE k + 1 \in Same
    <3>1. SUFFICES ASSUME k + 1 <= n PROVE f[k + 1] = g[k + 1] OBVIOUS
    <3>2. k \in 0..n - 1 /\ k \in 0..m - 1 /\ k <= n BY <1>2, <3>1
    <3>3. f[k] = g[k] BY <2>2, <3>2
    <3>4. QED BY <1>2, <3>2, <3>3
  <2>3. Nat \subseteq Same
    <3> HIDE DEF Same
    <3>1. QED BY <2>1, <2>2, Induct
  <2>4. QED BY <2>3
<1> DEFINE F(n) == CHOOSE f : Upto(n, f)
           f == [n \in Nat |-> F(n)[n]]
<1>3. ASSUME NEW n \in Nat PROVE Upto(n, F(n))
  <2>1. \E g : Upto(n, g) BY <1>1
  <2> HIDE DEF Upto
  <2>2. QED BY <2>1
<1>4. ASSUME NEW n \in Nat PROVE f[n] \in S
  <2> HIDE DEF F
  <2>1. F(n) \in [0..n -> S] /\ n \in 0..n BY <1>3
  <2>2. QED BY <2>1
<1>5. f[0] = base
  <2>1. F(0)[0] = base BY <1>3
  <2> HIDE DEF F
  <2>2. QED BY <2>1
<1>6. ASSUME NEW n \in Nat PROVE f[n + 1] = step[<<n, f[n]>>]
  <2>1. n \in 0..(n + 1) - 1 /\ n \in 0..n /\ n <= n + 1 /\ n + 1 \in Nat OBVIOUS
  <2>2. F(n + 1)[n + 1] = step[<<n, F(n + 1)[n]>>] BY <1>3, <2>1
  <2>3. F(n)[n] = F(n + 1)[n]
    <3>1. Upto(n, F(n)) /\ Upto(n + 1, F(n + 1)) BY <1>3, <2>1
    <3> HIDE DEF Upto, F
    <3>2. QED BY <1>2, <2>1, <3>1
  <2> HIDE DEF F
  <2>4. QED BY <2>1, <2>2, <2>3
<1>7. f \in [Nat -> S]
  <2> HIDE DEF F
  <2>1. QED BY <1>4
<1> HIDE DEF f
<1>8. QED BY <1>5, <1>6, <1>7 DEF IsRecursive

(* The running total of some sizes. *)
LEMMA TotalIs ==
  ASSUME NEW w \in Seq(Nat)
  PROVE  /\ Total(w)[0] = Word
         /\ \A k \in 1..Len(w) : Total(w)[k] = Total(w)[k - 1] + w[k]
         /\ \A k \in 0..Len(w) : Total(w)[k] \in Nat
<1> DEFINE n == Len(w)
           step == [p \in Nat \X Nat |-> IF p[1] + 1 <= n THEN p[2] + w[p[1] + 1] ELSE 0]
           Def(f) == [k \in 0..n |-> IF k = 0 THEN Word ELSE f[k - 1] + w[k]]
           total == Total(w)
<1>0. n \in Nat /\ Word \in Nat /\ \A k \in 1..n : w[k] \in Nat BY DEF Word
<1>1. step \in [Nat \X Nat -> Nat]
  <2>1. ASSUME NEW p \in Nat \X Nat
        PROVE  (IF p[1] + 1 <= n THEN p[2] + w[p[1] + 1] ELSE 0) \in Nat
    <3>1. CASE p[1] + 1 <= n
      <4>1. p[1] + 1 \in 1..n BY <1>0, <3>1
      <4>2. QED BY <1>0, <3>1, <4>1
    <3>2. QED BY <3>1
  <2>2. QED BY <2>1
<1>2. PICK f : IsRecursive(f, Nat, Word, step)
  <2> HIDE DEF step
  <2>1. QED BY <1>0, <1>1, Recursion
<1> DEFINE v == [k \in 0..n |-> f[k]]
<1>3. ASSUME NEW k \in 1..n PROVE f[k] = f[k - 1] + w[k]
  <2>1. k - 1 \in Nat /\ (k - 1) + 1 = k /\ k <= n BY <1>0
  <2>2. f[k] = step[<<k - 1, f[k - 1]>>] BY <1>2, <2>1 DEF IsRecursive
  <2>3. <<k - 1, f[k - 1]>> \in Nat \X Nat BY <1>2, <2>1 DEF IsRecursive
  <2>4. QED BY <2>1, <2>2, <2>3
<1>4. v = Def(v)
  <2>1. ASSUME NEW k \in 0..n PROVE v[k] = IF k = 0 THEN Word ELSE v[k - 1] + w[k]
    <3>1. CASE k = 0 BY <1>2, <3>1 DEF IsRecursive
    <3>2. CASE k # 0
      <4>1. k \in 1..n /\ k - 1 \in 0..n BY <1>0, <3>2
      <4>2. QED BY <1>3, <3>2, <4>1
    <3>3. QED BY <3>1, <3>2
  <2>2. QED BY <2>1
<1>5. total = CHOOSE g : g = Def(g) BY DEF Total
<1>6. total = Def(total)
  <2> HIDE DEF Def, v
  <2>1. QED BY <1>4, <1>5
<1>7. total[0] = Word BY <1>0, <1>6
<1>8. ASSUME NEW k \in 1..n PROVE total[k] = total[k - 1] + w[k]
  <2>1. k \in 0..n /\ k # 0 BY <1>0
  <2> HIDE DEF total
  <2>2. QED BY <1>6, <2>1
<1> HIDE DEF total
<1>9. \A k \in 0..n : total[k] \in Nat
  <2> DEFINE T == {k \in Nat : k <= n => total[k] \in Nat}
  <2>1. 0 \in T BY <1>0, <1>7
  <2>2. ASSUME NEW k \in Nat, k \in T PROVE k + 1 \in T
    <3>1. SUFFICES ASSUME k + 1 <= n PROVE total[k + 1] \in Nat OBVIOUS
    <3>2. k + 1 \in 1..n /\ (k + 1) - 1 = k /\ k <= n BY <1>0, <3>1
    <3>3. total[k + 1] = total[k] + w[k + 1] BY <1>8, <3>2
    <3>4. QED BY <1>0, <2>2, <3>2, <3>3
  <2> HIDE DEF T
  <2>3. Nat \subseteq T BY <2>1, <2>2, Induct
  <2>4. QED BY <1>0, <2>3 DEF T
<1>10. QED BY <1>7, <1>8, <1>9 DEF total

(* Where no size is 0, it rises. *)
LEMMA TotalRises ==
  ASSUME NEW w \in Seq(Nat \ {0}), NEW k \in 0..Len(w), NEW l \in 0..Len(w), k < l
  PROVE  Total(w)[k] < Total(w)[l]
<1> DEFINE t == Total(w)
           n == Len(w)
           T == {m \in Nat : k < m /\ m <= n => t[k] < t[m]}
<1>0. w \in Seq(Nat) /\ n \in Nat /\ \A m \in 1..n : w[m] \in Nat \ {0} OBVIOUS
<1>1. (\A m \in 1..n : t[m] = t[m - 1] + w[m]) /\ \A m \in 0..n : t[m] \in Nat BY <1>0, TotalIs
<1> HIDE DEF t
<1>2. 0 \in T OBVIOUS
<1>3. ASSUME NEW m \in Nat, m \in T PROVE m + 1 \in T
  <2>1. SUFFICES ASSUME k < m + 1, m + 1 <= n PROVE t[k] < t[m + 1] OBVIOUS
  <2>2. m + 1 \in 1..n /\ (m + 1) - 1 = m /\ m \in 0..n BY <1>0, <2>1
  <2>3. t[m + 1] = t[m] + w[m + 1] /\ t[m] \in Nat /\ t[k] \in Nat /\ w[m + 1] \in Nat \ {0} BY <1>0, <1>1, <2>2
  <2>4. k = m \/ t[k] < t[m] BY <1>3, <2>1, <2>2
  <2>5. CASE k = m
    <3>1. t[k] = t[m] BY <2>5
    <3>2. QED BY <2>3, <3>1
  <2>6. CASE t[k] < t[m] BY <2>3, <2>6
  <2>7. QED BY <2>4, <2>5, <2>6
<1> HIDE DEF T
<1>4. Nat \subseteq T BY <1>2, <1>3, Induct
<1>5. l \in T /\ l <= n BY <1>0, <1>4
<1>6. QED BY <1>5 DEF T, t

(* What the first k places of a sequence hold. *)
Firsts(es, k) == {es[m] : m \in 1..k}

(* FlattenSeq has the members of all sequences, and no others. *)
LEMMA FlattenIs ==
  ASSUME NEW S, NEW seqs, NEW n \in Nat \ {0}, Len(seqs) = n, \A b \in 1..n : seqs[b] \in Seq(S)
  PROVE  /\ FlattenSeq(seqs) \in Seq(S)
         /\ \A e : e \in Firsts(FlattenSeq(seqs), Len(FlattenSeq(seqs))) <=> \E b \in 1..n : e \in Firsts(seqs[b], Len(seqs[b]))
<1> DEFINE step == [p \in Nat \X Seq(S) |-> IF p[1] + 2 <= n THEN p[2] \o seqs[p[1] + 2] ELSE <<>>]
           Def(f) == [b \in 1..n |-> IF b = 1 THEN seqs[b] ELSE f[b - 1] \o seqs[b]]
           flat == CHOOSE g : g = Def(g)
           In(s) == {s[k] : k \in 1..Len(s)}
<1>1. step \in [Nat \X Seq(S) -> Seq(S)]
  <2>1. ASSUME NEW p \in Nat \X Seq(S)
        PROVE  (IF p[1] + 2 <= n THEN p[2] \o seqs[p[1] + 2] ELSE <<>>) \in Seq(S)
    <3>1. CASE p[1] + 2 <= n
      <4>1. p[1] + 2 \in 1..n /\ p[2] \in Seq(S) BY <3>1
      <4>2. seqs[p[1] + 2] \in Seq(S) BY <4>1
      <4>3. p[2] \o seqs[p[1] + 2] \in Seq(S) BY <4>1, <4>2
      <4>4. QED BY <3>1, <4>3
    <3>2. QED BY <3>1
  <2>2. QED BY <2>1
<1>2. 1 \in 1..n /\ seqs[1] \in Seq(S) OBVIOUS
<1>3. PICK f : IsRecursive(f, Seq(S), seqs[1], step)
  <2> HIDE DEF step
  <2>1. QED BY <1>1, <1>2, Recursion
<1> DEFINE v == [b \in 1..n |-> f[b - 1]]
<1>4. v = Def(v)
  <2>1. ASSUME NEW b \in 1..n PROVE v[b] = IF b = 1 THEN seqs[b] ELSE v[b - 1] \o seqs[b]
    <3>1. CASE b = 1 BY <1>3, <3>1 DEF IsRecursive
    <3>2. CASE b # 1
      <4>1. b - 2 \in Nat /\ (b - 2) + 1 = b - 1 /\ (b - 2) + 2 = b /\ b <= n /\ b - 1 \in 1..n /\ (b - 1) - 1 = b - 2 BY <3>2
      <4>2. f[b - 1] = step[<<b - 2, f[b - 2]>>] /\ f[b - 2] \in Seq(S) BY <1>3, <4>1 DEF IsRecursive
      <4>3. <<b - 2, f[b - 2]>> \in Nat \X Seq(S) BY <4>1, <4>2
      <4>4. f[b - 1] = f[b - 2] \o seqs[b] BY <4>1, <4>2, <4>3
      <4>5. v[b] = f[b - 1] /\ v[b - 1] = f[b - 2] BY <4>1
      <4>6. QED BY <3>2, <4>4, <4>5
    <3>3. QED BY <3>1, <3>2
  <2>2. QED BY <2>1
<1>5. flat = Def(flat)
  <2> HIDE DEF Def, v
  <2>1. QED BY <1>4
<1>6. FlattenSeq(seqs) = flat[n] BY DEF FlattenSeq
<1>7. flat[1] = seqs[1] BY <1>2, <1>5
<1>8. ASSUME NEW b \in 1..n, b # 1 PROVE flat[b] = flat[b - 1] \o seqs[b]
  <2> HIDE DEF flat
  <2>1. QED BY <1>5, <1>8
<1> HIDE DEF flat
<1> DEFINE T == {b \in Nat : b + 1 <= n => flat[b + 1] \in Seq(S) /\ In(flat[b + 1]) = UNION {In(seqs[c]) : c \in 1..b + 1}}
<1>9. 0 \in T
  <2>1. UNION {In(seqs[c]) : c \in 1..0 + 1} = In(seqs[1])
    <3>1. 1..0 + 1 = {1} OBVIOUS
    <3> HIDE DEF In
    <3>2. QED BY <3>1
  <2> HIDE DEF In
  <2>2. QED BY <1>2, <1>7, <2>1
<1>10. ASSUME NEW b \in Nat, b \in T PROVE b + 1 \in T
  <2>1. SUFFICES ASSUME (b + 1) + 1 <= n
                 PROVE  flat[b + 2] \in Seq(S) /\ In(flat[b + 2]) = UNION {In(seqs[c]) : c \in 1..b + 2}
    <3>1. (b + 1) + 1 = b + 2 OBVIOUS
    <3> HIDE DEF In
    <3>2. QED BY <3>1
  <2>2. b + 2 \in 1..n /\ b + 2 # 1 /\ (b + 2) - 1 = b + 1 /\ b + 1 <= n BY <2>1
  <2>3. flat[b + 2] = flat[b + 1] \o seqs[b + 2] /\ seqs[b + 2] \in Seq(S) BY <1>8, <2>2
  <2>4. flat[b + 1] \in Seq(S) /\ In(flat[b + 1]) = UNION {In(seqs[c]) : c \in 1..b + 1}
    <3> HIDE DEF In
    <3>1. QED BY <1>10, <2>2
  <2>5. flat[b + 2] \in Seq(S) BY <2>3, <2>4
  <2>6. In(flat[b + 2]) = In(flat[b + 1]) \union In(seqs[b + 2])
    <3> DEFINE s == flat[b + 1]
               t == seqs[b + 2]
    <3>1. s \in Seq(S) /\ t \in Seq(S) /\ flat[b + 2] = s \o t BY <2>3, <2>4
    <3> HIDE DEF s, t
    <3>2. Len(s \o t) = Len(s) + Len(t) /\ Len(s) \in Nat /\ Len(t) \in Nat BY <3>1
    <3>3. \A k \in 1..Len(s) : k \in 1..Len(s \o t) /\ (s \o t)[k] = s[k] BY <3>1, <3>2
    <3>4. \A k \in 1..Len(t) : k + Len(s) \in 1..Len(s \o t) /\ (s \o t)[k + Len(s)] = t[k] BY <3>1, <3>2
    <3>5. \A k \in 1..Len(s \o t) : k \in 1..Len(s) \/ (k - Len(s) \in 1..Len(t) /\ (s \o t)[k] = t[k - Len(s)]) BY <3>1, <3>2
    <3>6. In(s \o t) \subseteq In(s) \union In(t) BY <3>3, <3>5
    <3>8. In(s) \subseteq In(s \o t) BY <3>3
    <3>9. In(t) \subseteq In(s \o t) BY <3>4
    <3> HIDE DEF In
    <3>7. In(s \o t) = In(s) \union In(t) BY <3>6, <3>8, <3>9
    <3>10. QED BY <3>1, <3>7 DEF s, t
  <2>7. UNION {In(seqs[c]) : c \in 1..b + 2} = (UNION {In(seqs[c]) : c \in 1..b + 1}) \union In(seqs[b + 2])
    <3>1. 1..b + 2 = (1..b + 1) \union {b + 2} OBVIOUS
    <3> HIDE DEF In
    <3>2. QED BY <3>1
  <2> HIDE DEF In
  <2>8. QED BY <2>4, <2>5, <2>6, <2>7
<1>11. Nat \subseteq T
  <2> HIDE DEF T
  <2>1. QED BY <1>9, <1>10, Induct
<1>12. n - 1 \in T /\ (n - 1) + 1 = n /\ n <= n
  <2> HIDE DEF T
  <2>1. n - 1 \in Nat OBVIOUS
  <2>2. QED BY <1>11, <2>1
<1>13. flat[n] \in Seq(S) /\ In(flat[n]) = UNION {In(seqs[c]) : c \in 1..n}
  <2> HIDE DEF In
  <2>1. QED BY <1>12
<1>14. \A s : In(s) = Firsts(s, Len(s)) BY DEF Firsts
<1> HIDE DEF In
<1>15. QED BY <1>6, <1>13, <1>14

(***************************************************************************)
(* What is packed.                                                         *)
(***************************************************************************)

(* The sizes of the members as set_pack_size counts and set_pack writes    *)
(* them.                                                                   *)
Counts(es) == [k \in 1..Len(es) |-> MemberSize(es[k])]
Writes(es) == [k \in 1..Len(es) |-> Written(es[k])]

LEMMA SizesAgree ==
  ASSUME NEW es \in Seq(Cell)
  PROVE  /\ Counts(es) = Writes(es)
         /\ Writes(es) \in Seq(Nat \ {0}) /\ Writes(es) \in Seq(Nat) /\ Len(Writes(es)) = Len(es)
<1>0. Len(es) \in Nat OBVIOUS
<1>1. ASSUME NEW k \in 1..Len(es) PROVE MemberSize(es[k]) = Written(es[k]) /\ Written(es[k]) \in Nat \ {0}
  <2> DEFINE c == es[k]
  <2>1. c \in Cell OBVIOUS
  <2> HIDE DEF c
  <2>2. c.name \in Name /\ c.data \in Value BY <2>1 DEF Cell
  <2>3. Bytes[c.name] \in Nat BY <2>2, BytesAssumption DEF BytesAssumption
  <2>4. c.data # Null => Bytes[c.data] \in Nat BY <2>2, BytesAssumption DEF BytesAssumption
  <2>5. MemberSize(c) = Written(c) /\ Written(c) \in Nat \ {0}
    <3>1. CASE c.data = Null BY <2>3, <3>1 DEF MemberSize, Written, Word
    <3>2. CASE c.data # Null
      <4> DEFINE a == Bytes[c.name]
                 d == Bytes[c.data]
      <4>1. MemberSize(c) = 4 + a + 1 + 4 + (d + 1) /\ Written(c) = 2 * 4 + a + 1 + (d + 1)
        BY <3>2 DEF MemberSize, Written, Word
      <4>2. a \in Nat /\ d \in Nat BY <2>3, <2>4, <3>2
      <4> HIDE DEF a, d
      <4>3. QED BY <4>1, <4>2
    <3>3. QED BY <3>1, <3>2
  <2>6. QED BY <2>5 DEF c
<1>2. Counts(es) = Writes(es) BY <1>1 DEF Counts, Writes
<1>3. Writes(es) = [k \in 1..Len(es) |-> Written(es[k])] BY DEF Writes
<1>4. Writes(es) \in [1..Len(es) -> Nat \ {0}] BY <1>1, <1>3
<1>5. Writes(es) \in Seq(Nat \ {0}) /\ Writes(es) \in Seq(Nat) /\ Len(Writes(es)) = Len(es) BY <1>0, <1>4
<1>6. QED BY <1>2, <1>5

(* Offsets rise from member to member.                                     *)
LEMMA OffsetsRise ==
  ASSUME NEW es \in Seq(Cell)
  PROVE  /\ Offset(es, 1) = Word
         /\ \A k \in 1..Len(es) + 1 : Offset(es, k) \in Nat
         /\ \A k, l \in 1..Len(es) + 1 : k < l => Offset(es, k) < Offset(es, l)
<1> DEFINE w == Writes(es)
<1>1. Len(es) \in Nat OBVIOUS
<1>2. \A k : Offset(es, k) = Total(w)[k - 1] BY DEF Offset, Writes
<1>3. w \in Seq(Nat \ {0}) /\ w \in Seq(Nat) /\ Len(w) = Len(es) BY SizesAgree
<1> HIDE DEF w
<1>4. Offset(es, 1) = Word
  <2>1. 1 - 1 = 0 OBVIOUS
  <2>2. Total(w)[0] = Word BY <1>3, TotalIs
  <2>3. QED BY <1>2, <2>1, <2>2
<1>5. ASSUME NEW k \in 1..Len(es) + 1 PROVE Offset(es, k) \in Nat
  <2>1. k - 1 \in 0..Len(w) BY <1>1, <1>3
  <2>2. Total(w)[k - 1] \in Nat BY <1>3, <2>1, TotalIs
  <2>3. QED BY <1>2, <2>2
<1>6. ASSUME NEW k \in 1..Len(es) + 1, NEW l \in 1..Len(es) + 1, k < l PROVE Offset(es, k) < Offset(es, l)
  <2>1. k - 1 \in 0..Len(w) /\ l - 1 \in 0..Len(w) /\ k - 1 < l - 1 BY <1>1, <1>3, <1>6
  <2>2. Total(w)[k - 1] < Total(w)[l - 1] BY <1>3, <2>1, TotalRises
  <2>3. QED BY <1>2, <2>2
<1>7. QED BY <1>4, <1>5, <1>6

(* set_pack writes every member of the set, and nothing else.              *)
LEMMA ListedIs ==
  ASSUME SetsOK, NEW h \in Handle, Live(h)
  PROVE  Listed(table[h]) \in Seq(Cell) /\ Firsts(Listed(table[h]), Len(Listed(table[h]))) = CellsOf(table[h])
<1> DEFINE T == table[h]
           n == hashsize[h]
           seqs == [b \in 1..n |-> T[b - 1]]
<1>1. n \in Nat \ {0} /\ IsTable(T, n) BY SizeTypes DEF WellFormed
<1> HIDE DEF T, n
<1>2. DOMAIN T = 0..n - 1 /\ Cardinality(0..n - 1) = n
  <2>1. n - 1 \in Int /\ ~(0 > n - 1) /\ (n - 1) - 0 + 1 = n BY <1>1
  <2>2. Cardinality(0..n - 1) = (n - 1) - 0 + 1 BY <2>1, FS_Interval
  <2>3. QED BY <1>1, <2>1, <2>2 DEF IsTable
<1>3. \A b \in DOMAIN T : T[b] \in Seq(Cell) BY <1>1 DEF IsTable
<1>4. Listed(T) = FlattenSeq(seqs) BY <1>2 DEF Listed
<1>5. Len(seqs) = n BY <1>1
<1>6. ASSUME NEW b \in 1..n PROVE b - 1 \in DOMAIN T /\ seqs[b] = T[b - 1] /\ seqs[b] \in Seq(Cell)
  BY <1>1, <1>2, <1>3
<1>7. /\ FlattenSeq(seqs) \in Seq(Cell)
      /\ \A e : e \in Firsts(FlattenSeq(seqs), Len(FlattenSeq(seqs))) <=> \E b \in 1..n : e \in Firsts(seqs[b], Len(seqs[b]))
  <2> HIDE DEF seqs
  <2>1. \A b \in 1..n : seqs[b] \in Seq(Cell) BY <1>6
  <2>2. QED BY <1>1, <1>5, <2>1, FlattenIs
<1>8. ASSUME NEW c PROVE c \in CellsOf(T) <=> \E b \in 1..n : c \in Firsts(seqs[b], Len(seqs[b]))
  <2>1. ASSUME NEW b \in DOMAIN T PROVE b + 1 \in 1..n /\ (b + 1) - 1 = b /\ DOMAIN T[b] = 1..Len(T[b])
    <3>1. b \in 0..n - 1 /\ b + 1 \in 1..n /\ (b + 1) - 1 = b BY <1>1, <1>2
    <3>2. T[b] \in Seq(Cell) BY <1>3
    <3>3. QED BY <3>1, <3>2
  <2>2. c \in CellsOf(T) <=> \E b \in DOMAIN T : \E k \in DOMAIN T[b] : c = T[b][k] BY CellsByPosition
  <2> HIDE DEF seqs
  <2>3. ASSUME NEW b \in DOMAIN T, NEW k \in DOMAIN T[b], c = T[b][k]
        PROVE  \E d \in 1..n : c \in Firsts(seqs[d], Len(seqs[d]))
    <3>1. b + 1 \in 1..n /\ seqs[b + 1] = T[b] /\ k \in 1..Len(T[b]) BY <1>6, <2>1, <2>3
    <3>2. c \in Firsts(seqs[b + 1], Len(seqs[b + 1])) BY <2>3, <3>1 DEF Firsts
    <3>3. QED BY <3>1, <3>2
  <2>4. ASSUME NEW b \in 1..n, c \in Firsts(seqs[b], Len(seqs[b]))
        PROVE  \E d \in DOMAIN T : \E k \in DOMAIN T[d] : c = T[d][k]
    <3>1. b - 1 \in DOMAIN T /\ seqs[b] = T[b - 1] BY <1>6
    <3>2. PICK k \in 1..Len(T[b - 1]) : c = T[b - 1][k] BY <2>4, <3>1 DEF Firsts
    <3>3. k \in DOMAIN T[b - 1] BY <2>1, <3>1, <3>2
    <3>4. QED BY <3>1, <3>2, <3>3
  <2>5. QED BY <2>2, <2>3, <2>4
<1>9. Listed(T) \in Seq(Cell) /\ \A c : c \in Firsts(Listed(T), Len(Listed(T))) <=> c \in CellsOf(T)
  <2> HIDE DEF seqs
  <2>1. QED BY <1>4, <1>7, <1>8
<1>10. Firsts(Listed(T), Len(Listed(T))) = CellsOf(T) BY <1>9
<1>11. QED BY <1>9, <1>10 DEF T

(***************************************************************************)
(* The invariant: what is in the mdbm, and what of it has been unpacked.   *)
(***************************************************************************)
PackedOK ==
  packed # Nothing =>
    /\ packed.entries \in Seq(Cell) /\ Len(packed.entries) # 0
    /\ Functional(Firsts(packed.entries, Len(packed.entries)))
    /\ packed.size = Offset(packed.entries, Len(packed.entries) + 1)
    /\ packed.of = MapOf(Firsts(packed.entries, Len(packed.entries)))

UnpackOK ==
  Unpacking =>
    /\ packed # Nothing
    /\ unpacking = [ret |-> unpacking.ret, p |-> unpacking.p, size |-> packed.size]
    /\ unpacking.ret \in Handle
    /\ \E k \in 0..Len(packed.entries) :
         /\ unpacking.p = Offset(packed.entries, k + 1)
         /\ contents[unpacking.ret] = MapOf(Firsts(packed.entries, k))

PackInv == IInv /\ WalkOK /\ PackedOK /\ UnpackOK

(* The next member to be read is the one p stands at.                      *)
LEMMA NextMember ==
  ASSUME IInv, PackedOK, UnpackOK, UnpackMember
  PROVE  \E k \in 0..Len(packed.entries) :
           /\ k + 1 \in DOMAIN packed.entries /\ packed.entries[k + 1] \in Cell
           /\ contents[unpacking.ret] = MapOf(Firsts(packed.entries, k))
           /\ set_add(unpacking.ret, packed.entries[k + 1].name, packed.entries[k + 1].data)
           /\ unpacking' = [unpacking EXCEPT !.p = Offset(packed.entries, k + 2)]
<1> DEFINE es == packed.entries
<1>1. Unpacking /\ packed # Nothing /\ es \in Seq(Cell) BY DEF UnpackMember, UnpackOK, PackedOK
<1>2. PICK m \in DOMAIN es :
        /\ Offset(es, m) = unpacking.p
        /\ set_add(unpacking.ret, es[m].name, es[m].data)
        /\ unpacking' = [unpacking EXCEPT !.p = Offset(es, m + 1)]
  BY DEF UnpackMember
<1>3. PICK k \in 0..Len(es) : unpacking.p = Offset(es, k + 1) /\ contents[unpacking.ret] = MapOf(Firsts(es, k))
  BY <1>1 DEF UnpackOK
<1> HIDE DEF es
<1>4. DOMAIN es = 1..Len(es) /\ Len(es) \in Nat BY <1>1
<1>5. m \in 1..Len(es) + 1 /\ k + 1 \in 1..Len(es) + 1 /\ m \in Nat /\ k + 1 \in Nat BY <1>4
<1>6. m = k + 1
  <2>1. ASSUME NEW x \in 1..Len(es) + 1, NEW y \in 1..Len(es) + 1, Offset(es, x) = Offset(es, y) PROVE ~(x < y)
    <3>1. Offset(es, x) \in Nat /\ (x < y => Offset(es, x) < Offset(es, y)) BY <1>1, OffsetsRise
    <3>2. QED BY <2>1, <3>1
  <2>2. ~(m < k + 1) /\ ~(k + 1 < m) BY <1>2, <1>3, <1>5, <2>1
  <2>3. QED BY <1>5, <2>2
<1>7. es[m] \in Cell BY <1>1, <1>2
<1>8. (k + 1) + 1 = k + 2 OBVIOUS
<1>9. QED BY <1>2, <1>3, <1>6, <1>7, <1>8 DEF es

(* Every step is one of the sets, or none.                                 *)
LEMMA PackSteps == ASSUME PackInv, [PackNext]_allVars PROVE [Next]_vars
<1>1. CASE Call \/ Loop BY <1>1 DEF Next
<1>2. CASE UnpackMember
  <2>1. PICK k : /\ packed.entries[k + 1] \in Cell
                 /\ set_add(unpacking.ret, packed.entries[k + 1].name, packed.entries[k + 1].data)
    BY <1>2, NextMember DEF PackInv
  <2>2. packed.entries[k + 1].name \in Name /\ packed.entries[k + 1].data \in Value BY <2>1 DEF Cell
  <2>3. unpacking.ret \in Handle BY <1>2 DEF UnpackMember, PackInv, UnpackOK
  <2>4. QED BY <2>1, <2>2, <2>3 DEF Next, Call
<1>3. CASE \E h \in Handle : _expand_cluster(h)
  <2>1. PICK h \in Handle : set_new(h, 0) BY <1>3 DEF _expand_cluster
  <2>2. 0 \in Hints BY UnpackHintAssumption DEF UnpackHintAssumption
  <2>3. QED BY <2>1, <2>2 DEF Next, Call
<1>4. CASE UnpackDone \/ Reload \/ (\E h \in Handle : mdbm_store(h)) \/ UNCHANGED allVars
  BY <1>4 DEF UnpackDone, Reload, mdbm_store, allVars
<1>5. QED BY <1>1, <1>2, <1>3, <1>4 DEF PackNext, Running

(* What was stored keeps what it was made of.                              *)
LEMMA StoreInv ==
  ASSUME IInv, PackedOK, NEW h \in Handle, mdbm_store(h)
  PROVE  PackedOK'
<1> DEFINE T == table[h]
           es == Listed(T)
           P == set_pack(T)
<1>1. Live(h) /\ CellsOf(T) # {} /\ packed' = IF packed = Nothing THEN P ELSE packed BY DEF mdbm_store
<1>2. es \in Seq(Cell) /\ Firsts(es, Len(es)) = CellsOf(T) BY <1>1, ListedIs DEF IInv
<1>3. Functional(CellsOf(T)) BY CellsFunctional DEF IInv, SetsOK, WellFormed
<1>4. P.entries = es /\ P.of = MapOf(CellsOf(T)) /\ P.size = Total(Counts(es))[Len(es)]
  BY DEF set_pack, set_pack_size, Counts
<1> HIDE DEF P, es, T
<1>5. Len(es) # 0
  <2>1. PICK c \in CellsOf(T) : TRUE BY <1>1
  <2>2. c \in Firsts(es, Len(es)) BY <1>2, <2>1
  <2>3. PICK m \in 1..Len(es) : TRUE BY <2>2 DEF Firsts
  <2>4. QED BY <1>2, <2>3
<1>6. P.size = Offset(es, Len(es) + 1)
  <2>1. Counts(es) = Writes(es) BY <1>2, SizesAgree
  <2>2. (Len(es) + 1) - 1 = Len(es) BY <1>2
  <2>3. Offset(es, Len(es) + 1) = Total(Writes(es))[(Len(es) + 1) - 1] BY DEF Offset, Writes
  <2>4. QED BY <1>4, <2>1, <2>2, <2>3
<1>7. CASE packed = Nothing
  <2>1. packed' = P BY <1>1, <1>7
  <2>2. QED BY <1>2, <1>3, <1>4, <1>5, <1>6, <2>1 DEF PackedOK
<1>8. CASE packed # Nothing BY <1>1, <1>8 DEF PackedOK
<1>9. QED BY <1>7, <1>8

(* set_unpack begins with an empty set at the first member.                *)
LEMMA ExpandInv ==
  ASSUME IInv, IInv', PackedOK, NEW h \in Handle, _expand_cluster(h)
  PROVE  UnpackOK'
<1>1. packed' = packed /\ packed # Nothing /\ set_new(h, 0) /\ unpacking' = [ret |-> h, p |-> Word, size |-> packed.size]
  BY DEF _expand_cluster
<1>2. 0 \in Hints BY UnpackHintAssumption DEF UnpackHintAssumption
<1>3. Abstract!New(h) BY <1>1, <1>2, NewRefines
<1>4. contents'[h] = <<>>
  <2>1. contents' = [contents EXCEPT ![h] = <<>>] BY <1>3 DEF Abstract!New
  <2>2. DOMAIN contents = Handle BY DEF contents
  <2>3. QED BY <2>1, <2>2
<1>5. Firsts(packed.entries, 0) = {} BY DEF Firsts
<1>6. MapOf(Firsts(packed.entries, 0)) = <<>> BY <1>5 DEF MapOf
<1>7. packed.entries \in Seq(Cell) BY <1>1 DEF PackedOK
<1>8. 0 \in 0..Len(packed.entries) /\ Offset(packed.entries, 0 + 1) = Word
  <2>1. Len(packed.entries) \in Nat /\ 0 + 1 = 1 BY <1>7
  <2>2. QED BY <1>7, <2>1, OffsetsRise
<1>9. unpacking'.ret = h /\ unpacking'.p = Word /\ unpacking'.size = packed.size BY <1>1
<1>10. QED BY <1>1, <1>4, <1>6, <1>8, <1>9 DEF UnpackOK

(* A member is added to those before it.                                   *)
LEMMA MemberInv ==
  ASSUME IInv, IInv', PackedOK, UnpackOK, UnpackMember
  PROVE  UnpackOK'
<1> DEFINE es == packed.entries
           r == unpacking.ret
<1>1. PICK k \in 0..Len(es) :
           /\ k + 1 \in DOMAIN es /\ es[k + 1] \in Cell
           /\ contents[r] = MapOf(Firsts(es, k))
           /\ set_add(r, es[k + 1].name, es[k + 1].data)
           /\ unpacking' = [unpacking EXCEPT !.p = Offset(es, k + 2)]
  BY NextMember
<1>2. /\ packed' = packed /\ packed # Nothing /\ r \in Handle /\ es \in Seq(Cell)
      /\ unpacking = [ret |-> r, p |-> unpacking.p, size |-> packed.size]
      /\ Functional(Firsts(es, Len(es)))
  BY DEF UnpackMember, UnpackOK, PackedOK
<1> DEFINE c == es[k + 1]
<1>3. unpacking' = [ret |-> r, p |-> Offset(es, k + 2), size |-> packed.size] BY <1>1, <1>2
<1>4. c.name \in Name /\ c.data \in Value BY <1>1 DEF Cell
<1>5. Abstract!Put(r, c.name, c.data) BY <1>1, <1>2, <1>4, PutRefines
<1>6. contents'[r] = With(contents[r], c.name, c.data)
  <2>1. contents' = [contents EXCEPT ![r] = With(contents[r], c.name, c.data)]
    BY <1>5 DEF Abstract!Put, Abstract!Update, Abstract!With, With
  <2>2. DOMAIN contents = Handle BY DEF contents
  <2>3. QED BY <1>2, <2>1, <2>2
<1> HIDE DEF es, r
<1>7. k + 1 \in 0..Len(es) /\ (k + 1) + 1 = k + 2 /\ k \in Nat /\ Len(es) \in Nat /\ k + 1 \in 1..Len(es) BY <1>1, <1>2
<1>8. Firsts(es, k + 1) = Firsts(es, k) \union {c}
  <2>1. 1..k + 1 = (1..k) \union {k + 1} BY <1>7
  <2>2. QED BY <2>1 DEF Firsts
<1>9. Firsts(es, k + 1) \subseteq Firsts(es, Len(es)) BY <1>7 DEF Firsts
<1>10. Functional(Firsts(es, k)) /\ \A e \in Firsts(es, k) : e.name = c.name => e = c
  BY <1>2, <1>8, <1>9 DEF Functional
<1>11. MapOf(Firsts(es, k + 1)) = With(MapOf(Firsts(es, k)), c.name, c.data)
  <2>1. Firsts(es, k + 1) = {e \in Firsts(es, k) : e.name # c.name} \union {c} BY <1>8, <1>10
  <2> HIDE DEF c
  <2>2. QED BY <1>10, <2>1, MapWith
<1>12. contents'[r] = MapOf(Firsts(es, k + 1)) BY <1>1, <1>6, <1>11
<1>13. unpacking'.ret = r /\ unpacking'.p = Offset(es, (k + 1) + 1) /\ unpacking'.size = packed.size BY <1>3, <1>7
<1>14. packed'.entries = es BY <1>2 DEF es
<1>15. QED BY <1>2, <1>3, <1>7, <1>12, <1>13, <1>14 DEF UnpackOK

LEMMA PackKeeps == ASSUME PackInv, [PackNext]_allVars PROVE PackInv'
<1>1. IInv /\ WalkOK /\ PackedOK /\ UnpackOK BY DEF PackInv
<1>2. [Next]_vars BY PackSteps
<1>3. IInv' /\ WalkOK' BY <1>1, <1>2, NextInv, WalkOKStep
<1>4. PackedOK' /\ UnpackOK'
  <2>1. CASE ~Unpacking /\ Call /\ UNCHANGED packVars
    BY <1>1, <2>1 DEF packVars, PackedOK, UnpackOK, Unpacking
  <2>2. CASE Loop /\ UNCHANGED packVars
    <3>1. contents' = contents BY <1>1, <1>3, <2>2, LoopShowsNothing
    <3>2. packed' = packed /\ unpacking' = unpacking BY <2>2 DEF packVars
    <3>3. QED BY <1>1, <3>1, <3>2 DEF PackedOK, UnpackOK, Unpacking
  <2>3. CASE UnpackMember
    <3>1. PackedOK' BY <1>1, <2>3 DEF UnpackMember, PackedOK
    <3>2. QED BY <1>1, <1>3, <2>3, <3>1, MemberInv
  <2>4. CASE UnpackDone BY <1>1, <2>4 DEF UnpackDone, PackedOK, UnpackOK, Unpacking
  <2>5. CASE Reload BY <1>1, <2>5 DEF Reload, PackedOK, UnpackOK, Unpacking
  <2>6. CASE \E h \in Handle : mdbm_store(h)
    <3>1. PackedOK' BY <1>1, <2>6, StoreInv
    <3>2. ~Unpacking' BY <2>6 DEF mdbm_store, Unpacking
    <3>3. QED BY <3>1, <3>2 DEF UnpackOK
  <2>7. CASE \E h \in Handle : _expand_cluster(h)
    <3>1. PackedOK' BY <1>1, <2>7 DEF _expand_cluster, PackedOK
    <3>2. QED BY <1>1, <1>3, <2>7, <3>1, ExpandInv
  <2>8. CASE UNCHANGED allVars
    <3>1. contents' = contents
      BY <2>8 DEF allVars, vars, contents, Contents, Pending, Ahead, Before, Shared, set_get, Chain
    <3>2. packed' = packed /\ unpacking' = unpacking BY <2>8 DEF allVars, packVars
    <3>3. QED BY <1>1, <3>1, <3>2 DEF PackedOK, UnpackOK, Unpacking
  <2>9. QED BY <2>1, <2>2, <2>3, <2>4, <2>5, <2>6, <2>7, <2>8 DEF PackNext, Running
<1>5. QED BY <1>3, <1>4 DEF PackInv

(* Between two members, what is in the set is what was read.               *)
LEMMA PackedComesOut == PackInv => RoundTrip
<1> SUFFICES ASSUME PackInv, Unpacking, Idle PROVE RoundTrip BY DEF RoundTrip
<1> DEFINE es == packed.entries
<1>1. /\ packed # Nothing /\ es \in Seq(Cell) /\ Len(es) # 0 /\ packed.size = Offset(es, Len(es) + 1)
      /\ packed.of = MapOf(Firsts(es, Len(es))) /\ unpacking.size = packed.size /\ unpacking.ret \in Handle
  BY DEF PackInv, PackedOK, UnpackOK
<1>2. PICK k \in 0..Len(es) : unpacking.p = Offset(es, k + 1) /\ contents[unpacking.ret] = MapOf(Firsts(es, k))
  BY DEF PackInv, UnpackOK
<1>0. k \in 0..Len(es) BY <1>2
<1>3. contents[unpacking.ret] = MapOf(CellsOf(table[unpacking.ret])) BY <1>1 DEF contents, Contents, Idle
<1> HIDE DEF es
<1>4. Len(es) \in Nat /\ DOMAIN es = 1..Len(es) BY <1>1
<1>5. Offset(es, 1) = Word /\ \A x, y \in 1..Len(es) + 1 : x < y => Offset(es, x) < Offset(es, y) BY <1>1, OffsetsRise
<1>6. \A x \in 1..Len(es) + 1 : Offset(es, x) \in Nat BY <1>1, OffsetsRise
<1>7. CASE k = Len(es)
  <2>1. unpacking.p = packed.size BY <1>1, <1>2, <1>7
  <2>2. 1 < Len(es) + 1 /\ 1 \in 1..Len(es) + 1 /\ Len(es) + 1 \in 1..Len(es) + 1 BY <1>1, <1>4
  <2>3. Word < packed.size /\ packed.size \in Nat BY <1>1, <1>5, <1>6, <2>2
  <2>4. ~More BY <1>1, <2>1, <2>3 DEF More, Word
  <2>5. QED BY <1>1, <1>2, <1>3, <1>7, <2>4 DEF RoundTrip
<1>8. CASE k # Len(es)
  <2>1. k + 1 \in 1..Len(es) /\ k + 2 \in 1..Len(es) + 1 /\ k + 1 \in 1..Len(es) + 1 /\ Len(es) + 1 \in 1..Len(es) + 1
        /\ k + 1 < Len(es) + 1 /\ (k + 2 = Len(es) + 1 \/ k + 2 < Len(es) + 1)
    <3>1. ASSUME NEW n \in Nat, NEW m \in 0..n, m # n
          PROVE  /\ m + 1 \in 1..n /\ m + 2 \in 1..n + 1 /\ m + 1 \in 1..n + 1 /\ n + 1 \in 1..n + 1
                 /\ m + 1 < n + 1 /\ (m + 2 = n + 1 \/ m + 2 < n + 1)
      BY <3>1
    <3>2. QED BY <1>0, <1>4, <1>8, <3>1
  <2>2. Offset(es, k + 1) < packed.size BY <1>1, <1>5, <2>1
  <2>3. Offset(es, k + 2) <= packed.size
    <3>1. CASE k + 2 = Len(es) + 1 BY <1>1, <1>6, <2>1, <3>1
    <3>2. CASE k + 2 < Len(es) + 1
      <4>1. Offset(es, k + 2) < Offset(es, Len(es) + 1) BY <1>5, <2>1, <3>2
      <4>2. QED BY <1>1, <1>6, <2>1, <4>1
    <3>3. QED BY <2>1, <3>1, <3>2
  <2>4. More BY <1>1, <1>2, <2>2 DEF More
  <2>5. (k + 1) + 1 = k + 2 OBVIOUS
  <2>6. k + 1 \in DOMAIN es /\ Offset(es, k + 1) = unpacking.p /\ Offset(es, (k + 1) + 1) <= packed.size
    BY <1>2, <1>4, <2>1, <2>3, <2>5
  <2>7. QED BY <2>4, <2>6 DEF RoundTrip, es
<1>9. QED BY <1>7, <1>8

(* set_pack, set_unpack and all calls of set.h between them: in every      *)
(* state what was packed is known, and how far it has been unpacked.       *)
THEOREM PackInvariance == PackSpec => []PackInv
<1>1. PackInit => PackInv
  <2>1. PackInit => IInv /\ WalkOK BY InitInv, WalkOKInit DEF PackInit
  <2>2. PackInit => PackedOK /\ UnpackOK BY DEF PackInit, PackedOK, UnpackOK, Unpacking
  <2>3. QED BY <2>1, <2>2 DEF PackInv
<1>2. PackInv /\ [PackNext]_allVars => PackInv' BY PackKeeps
<1>3. QED BY <1>1, <1>2, PTL DEF PackSpec

(* set_unpack gives back the names and data of the set that was packed,    *)
(* reading no further than its size, for names and data of any lengths.    *)
THEOREM AlwaysBack == PackSpec => []RoundTrip
<1>1. QED BY PackInvariance, PackedComesOut, PTL

(* Packing is one more caller of set.c: with it, too, the sets do what     *)
(* Spec allows, so that all that is proved of Spec holds.                  *)
THEOREM PackUsesSets == PackSpec => Spec
<1>1. PackInit => Init BY DEF PackInit
<1>2. PackInv /\ [PackNext]_allVars => [Next]_vars BY PackSteps
<1>3. QED BY <1>1, <1>2, PackInvariance, PTL DEF PackSpec, Spec

(***************************************************************************)
(* Every call returns: what is left to do, as four numbers, of which each  *)
(* step makes one smaller and none in front of it greater.                 *)
(***************************************************************************)
Order == LexProductOrdering(OpToRel(<, Nat), Nat, 4)

(* There is no endless descent in it.                                      *)
LEMMA OrderEnds == IsWellFoundedOn(Order, [1..4 -> Nat])
<1> DEFINE R == OpToRel(<, Nat)
<1>1. IsWellFoundedOn(R, Nat) BY NatLessThanWellFounded
<1> HIDE DEF R
<1>2. 4 \in Nat OBVIOUS
<1>3. IsWellFoundedOn(LexProductOrdering(R, Nat, 4), [1..4 -> Nat]) BY <1>1, <1>2, WFLexProductOrdering, Zenon
<1>4. QED BY <1>3 DEF Order, R

LEMMA Descent ==
  ASSUME NEW a \in Nat, NEW b \in Nat, NEW c \in Nat, NEW d \in Nat,
         NEW e \in Nat, NEW f \in Nat, NEW g \in Nat, NEW h \in Nat,
         \/ a < e
         \/ a = e /\ b < f
         \/ a = e /\ b = f /\ c < g
         \/ a = e /\ b = f /\ c = g /\ d < h
  PROVE  <<<<a, b, c, d>>, <<e, f, g, h>>>> \in Order
<1> DEFINE x == <<a, b, c, d>>
           y == <<e, f, g, h>>
           R == OpToRel(<, Nat)
<1>1. x \in [1..4 -> Nat] /\ y \in [1..4 -> Nat] OBVIOUS
<1>2. \A k, l \in Nat : k < l => <<k, l>> \in R
  <2>1. R = {ss \in Nat \X Nat : ss[1] < ss[2]} BY Zenon DEF OpToRel
  <2>2. QED BY <2>1
<1>3. x[1] = a /\ x[2] = b /\ x[3] = c /\ x[4] = d /\ y[1] = e /\ y[2] = f /\ y[3] = g /\ y[4] = h OBVIOUS
<1> HIDE DEF x, y, R
<1>4. \E k \in 1..4 : (\A l \in 1..k - 1 : x[l] = y[l]) /\ <<x[k], y[k]>> \in R
  <2>1. CASE a < e
    <3>1. 1 \in 1..4 /\ 1..1 - 1 = {} OBVIOUS
    <3>2. QED BY <1>2, <1>3, <2>1, <3>1
  <2>2. CASE a = e /\ b < f
    <3>1. 2 \in 1..4 /\ 1..2 - 1 = {1} OBVIOUS
    <3>2. QED BY <1>2, <1>3, <2>2, <3>1
  <2>3. CASE a = e /\ b = f /\ c < g
    <3>1. 3 \in 1..4 /\ 1..3 - 1 = {1, 2} OBVIOUS
    <3>2. QED BY <1>2, <1>3, <2>3, <3>1
  <2>4. CASE a = e /\ b = f /\ c = g /\ d < h
    <3>1. 4 \in 1..4 /\ 1..4 - 1 = {1, 2, 3} OBVIOUS
    <3>2. QED BY <1>2, <1>3, <2>4, <3>1
  <2>5. QED BY <2>1, <2>2, <2>3, <2>4
<1>5. <<x, y>> \in LexProductOrdering(R, Nat, 4) BY <1>1, <1>4 DEF LexProductOrdering
<1>6. QED BY <1>5 DEF Order, R, x, y

(* What set_unpack has still to read; the loops a call has before it; the  *)
(* buckets before the loop; the cells of the chain before it.              *)
BytesLeft == IF Unpacking THEN 1 + unpacking.size - unpacking.p ELSE 0

LoopsLeft ==
  CASE pc = "idle" -> 0
    [] pc = "add" \/ (pc = "walk" /\ call.op # "union") -> 1
    [] pc = "walk" /\ call.op = "union" -> 2
    [] pc = "resize" -> 3

Walked == IF pc = "resize" THEN call.dst ELSE call.src
Bound  == IF pc = "resize" THEN hashsize[call.dst] ELSE IF pc = "walk" THEN WalkBound ELSE 0

BucketsLeft == IF i < Bound THEN Bound - i ELSE 0

CellsLeft == IF i < Bound /\ j <= Len(table[Walked][i]) THEN 1 + Len(table[Walked][i]) - j ELSE 0

Remaining == <<BytesLeft, LoopsLeft, BucketsLeft, CellsLeft>>

(* The loops are over buckets that exist.                                  *)
LEMMA BoundTypes ==
  ASSUME IInv
  PROVE  /\ Bound \in Nat /\ i \in Nat /\ j \in Nat \ {0} /\ LoopsLeft \in Nat
         /\ i < Bound => /\ Walked \in Handle /\ i \in DOMAIN table[Walked]
                         /\ table[Walked][i] \in Seq(Cell) /\ Len(table[Walked][i]) \in Nat
<1>1. i \in Nat /\ j \in Nat \ {0} /\ pc \in {"idle", "resize", "add", "walk"} BY DEF IInv, CallOK
<1>2. LoopsLeft \in Nat BY <1>1 DEF LoopsLeft
<1>3. CASE pc = "resize"
  <2>1. call.dst \in Handle BY <1>3, CallTypes DEF IInv
  <2>2. hashsize[call.dst] \in Nat /\ IsTable(table[call.dst], hashsize[call.dst])
    BY <2>1, SizeTypes DEF IInv, WellFormed
  <2>3. i < Bound => i \in DOMAIN table[call.dst] BY <1>1, <1>3, <2>2 DEF Bound, IsTable
  <2>4. QED BY <1>1, <1>2, <1>3, <2>1, <2>2, <2>3, ChainType DEF Bound, Walked
<1>4. CASE pc = "walk"
  <2>1. call.op # "add" BY <1>4 DEF IInv, CallOK
  <2>2. call.src \in Handle /\ call.dst \in Handle BY <1>4, <2>1, CallTypes DEF IInv
  <2>3. hashsize[call.src] \in Nat /\ IsTable(table[call.src], hashsize[call.src])
    BY <2>2, SizeTypes DEF IInv, WellFormed
  <2>4. WalkBound \in Nat BY <2>2, SizeTypes DEF IInv, WalkBound
  <2>5. WalkBound <= hashsize[call.src] BY <1>4 DEF IInv, CallOK, CursorInBounds
  <2>6. i < Bound => i \in DOMAIN table[call.src] BY <1>1, <1>4, <2>3, <2>4, <2>5 DEF Bound, IsTable
  <2>7. QED BY <1>1, <1>2, <1>4, <2>2, <2>3, <2>4, <2>6, ChainType DEF Bound, Walked
<1>5. CASE pc \in {"idle", "add"} BY <1>1, <1>2, <1>5 DEF Bound
<1>6. QED BY <1>1, <1>3, <1>4, <1>5

(* The four are naturals, and set_unpack has its last look before it.      *)
RemainingOK ==
  /\ BytesLeft \in Nat /\ LoopsLeft \in Nat /\ BucketsLeft \in Nat /\ CellsLeft \in Nat
  /\ Unpacking => /\ unpacking.p \in Nat /\ unpacking.size \in Nat
                  /\ BytesLeft = 1 + unpacking.size - unpacking.p /\ BytesLeft # 0

LEMMA RemainingTypes == PackInv => RemainingOK
<1> SUFFICES ASSUME PackInv PROVE RemainingOK OBVIOUS
<1>1. IInv /\ PackedOK /\ UnpackOK BY DEF PackInv
<1>2. LoopsLeft \in Nat BY <1>1, BoundTypes
<1>3. BucketsLeft \in Nat BY <1>1, BoundTypes DEF BucketsLeft
<1>4. CellsLeft \in Nat
  <2>1. CASE i < Bound
    <3>1. Len(table[Walked][i]) \in Nat /\ j \in Nat BY <1>1, <2>1, BoundTypes
    <3> DEFINE n == Len(table[Walked][i])
    <3>2. CellsLeft = IF j <= n THEN 1 + n - j ELSE 0 BY <2>1 DEF CellsLeft
    <3> HIDE DEF n
    <3>3. n \in Nat BY <3>1 DEF n
    <3>4. QED BY <3>1, <3>2, <3>3
  <2>2. CASE ~(i < Bound) BY <2>2 DEF CellsLeft
  <2>3. QED BY <2>1, <2>2
<1>5. CASE Unpacking
  <2> DEFINE es == packed.entries
  <2>1. /\ es \in Seq(Cell) /\ packed.size = Offset(es, Len(es) + 1) /\ unpacking.size = packed.size
        /\ \E k \in 0..Len(es) : unpacking.p = Offset(es, k + 1)
    BY <1>1, <1>5 DEF PackedOK, UnpackOK
  <2> HIDE DEF es
  <2>2. PICK k \in 0..Len(es) : unpacking.p = Offset(es, k + 1) BY <2>1
  <2>3. Len(es) \in Nat /\ k + 1 \in 1..Len(es) + 1 /\ Len(es) + 1 \in 1..Len(es) + 1
        /\ (k = Len(es) \/ k + 1 < Len(es) + 1)
    <3>1. Len(es) \in Nat BY <2>1
    <3>2. ASSUME NEW n \in Nat, NEW m \in 0..n PROVE m + 1 \in 1..n + 1 /\ n + 1 \in 1..n + 1 /\ (m = n \/ m + 1 < n + 1)
      OBVIOUS
    <3>3. QED BY <3>1, <3>2
  <2>4. unpacking.p \in Nat /\ packed.size \in Nat BY <2>1, <2>2, <2>3, OffsetsRise
  <2>5. unpacking.p <= packed.size
    <3>1. CASE k = Len(es) BY <2>1, <2>2, <2>4, <3>1
    <3>2. CASE k + 1 < Len(es) + 1
      <4>1. Offset(es, k + 1) < Offset(es, Len(es) + 1) BY <2>1, <2>3, <3>2, OffsetsRise
      <4>2. QED BY <2>1, <2>2, <2>4, <4>1
    <3>3. QED BY <2>3, <3>1, <3>2
  <2>6. BytesLeft = 1 + unpacking.size - unpacking.p BY <1>5 DEF BytesLeft
  <2>7. QED BY <1>2, <1>3, <1>4, <2>1, <2>4, <2>5, <2>6 DEF RemainingOK
<1>6. CASE ~Unpacking BY <1>2, <1>3, <1>4, <1>6 DEF BytesLeft, RemainingOK
<1>7. QED BY <1>5, <1>6

LEMMA RemainingTypesNext == PackInv' => RemainingOK'
BY RemainingTypes, PTL

(* The four, step by step.                                                 *)
LEMMA StepDescends ==
  ASSUME RemainingOK, RemainingOK',
         \/ BytesLeft' < BytesLeft
         \/ BytesLeft' = BytesLeft /\ LoopsLeft' < LoopsLeft
         \/ BytesLeft' = BytesLeft /\ LoopsLeft' = LoopsLeft /\ BucketsLeft' < BucketsLeft
         \/ BytesLeft' = BytesLeft /\ LoopsLeft' = LoopsLeft /\ BucketsLeft' = BucketsLeft /\ CellsLeft' < CellsLeft
  PROVE  <<Remaining', Remaining>> \in Order
<1> DEFINE a == BytesLeft'
           b == LoopsLeft'
           c == BucketsLeft'
           d == CellsLeft'
           e == BytesLeft
           f == LoopsLeft
           g == BucketsLeft
           h == CellsLeft
<1>1. /\ a \in Nat /\ b \in Nat /\ c \in Nat /\ d \in Nat
      /\ e \in Nat /\ f \in Nat /\ g \in Nat /\ h \in Nat
  BY DEF RemainingOK
<1>2. Remaining' = <<a, b, c, d>> /\ Remaining = <<e, f, g, h>> BY DEF Remaining
<1>3. \/ a < e
      \/ a = e /\ b < f
      \/ a = e /\ b = f /\ c < g
      \/ a = e /\ b = f /\ c = g /\ d < h
  OBVIOUS
<1> HIDE DEF a, b, c, d, e, f, g, h
<1>4. QED BY <1>1, <1>2, <1>3, Descent

(* A loop goes to its next cell, or the next moves into its place.         *)
LEMMA NextCell ==
  ASSUME IInv, i < Bound, j <= Len(table[Walked][i]),
         UNCHANGED <<hashsize, pc, call, i, packVars>>,
         \/ j' = j + 1 /\ Len(table'[Walked][i]) = Len(table[Walked][i])
         \/ j' = j /\ Len(table'[Walked][i]) = Len(table[Walked][i]) - 1
  PROVE  BytesLeft' = BytesLeft /\ LoopsLeft' = LoopsLeft /\ BucketsLeft' = BucketsLeft /\ CellsLeft' < CellsLeft
<1>1. BytesLeft' = BytesLeft BY DEF BytesLeft, Unpacking, packVars
<1>2. LoopsLeft' = LoopsLeft BY DEF LoopsLeft
<1>3. Bound' = Bound /\ Walked' = Walked BY DEF Bound, WalkBound, Walked
<1>4. BucketsLeft' = BucketsLeft BY <1>3 DEF BucketsLeft
<1> DEFINE m == Len(table[Walked][i])
           n == Len(table'[Walked][i])
<1>5. m \in Nat /\ j \in Nat /\ (n = m \/ n = m - 1) BY BoundTypes
<1>6. CellsLeft = 1 + m - j BY DEF CellsLeft
<1>7. CellsLeft' = IF j' <= n THEN 1 + n - j' ELSE 0 BY <1>3 DEF CellsLeft
<1>8. (j' = j + 1 /\ n = m) \/ (j' = j /\ n = m - 1) OBVIOUS
<1>9. j <= m OBVIOUS
<1> HIDE DEF m, n
<1>10. CellsLeft' < CellsLeft BY <1>5, <1>6, <1>7, <1>8, <1>9
<1>11. QED BY <1>1, <1>2, <1>4, <1>10

(* Or to its next bucket.                                                  *)
LEMMA NextBucket ==
  ASSUME IInv, i < Bound, UNCHANGED <<hashsize, pc, call, packVars>>, i' = i + 1
  PROVE  BytesLeft' = BytesLeft /\ LoopsLeft' = LoopsLeft /\ BucketsLeft' < BucketsLeft
<1>1. BytesLeft' = BytesLeft BY DEF BytesLeft, Unpacking, packVars
<1>2. LoopsLeft' = LoopsLeft BY DEF LoopsLeft
<1>3. Bound' = Bound BY DEF Bound, WalkBound
<1>4. Bound \in Nat /\ i \in Nat BY BoundTypes
<1>5. BucketsLeft = Bound - i BY DEF BucketsLeft
<1>6. BucketsLeft' = IF i + 1 < Bound THEN Bound - (i + 1) ELSE 0 BY <1>3 DEF BucketsLeft
<1>7. BucketsLeft' < BucketsLeft BY <1>4, <1>5, <1>6
<1>8. QED BY <1>1, <1>2, <1>7

(* Copying does not lengthen the chain it walks: a set that is walked has  *)
(* the name already.                                                       *)
LEMMA CopyDescends ==
  ASSUME IInv, WalkCopy, UNCHANGED packVars
  PROVE  BytesLeft' = BytesLeft /\ LoopsLeft' = LoopsLeft /\ BucketsLeft' = BucketsLeft /\ CellsLeft' < CellsLeft
<1>1. /\ AtCell /\ set_add_noresize(call.dst, Here.name, Here.data)
      /\ j' = j + 1 /\ UNCHANGED <<hashsize, pc, call, i>>
  BY DEF WalkCopy
<1>2. /\ pc = "walk" /\ call.src \in Handle /\ call.dst \in Handle /\ Live(call.dst)
      /\ i \in DOMAIN table[call.src] /\ Here \in CellsOf(table[call.src])
      /\ Here.name \in Name /\ Here.data \in Value /\ Here = [name |-> Here.name, data |-> Here.data]
  BY <1>1, HereIs
<1>3. PICK h \in Handle, n \in Name, d \in Value : h = call.dst /\ n = Here.name /\ d = Here.data BY <1>2
<1>4. /\ Here \in CellsOf(table[h]) => SameCells(table'[h], table[h])
      /\ \A g \in Handle \ {h} : table'[g] = table[g]
  BY <1>1, <1>2, <1>3, AddToMap DEF IInv
<1>5. i < Bound /\ Walked = call.src /\ j <= Len(table[Walked][i])
  BY <1>1, <1>2 DEF AtCell, Walking, Bound, Walked
<1>6. SetsOK' BY <1>1, <1>2, AddKeepsSets DEF IInv
<1>7. Len(table'[call.src][i]) = Len(table[call.src][i])
  <2>1. CASE call.src = h
    <3>1. DOMAIN table'[h][i] = DOMAIN table[h][i] BY <1>2, <1>4, <2>1 DEF SameCells
    <3>2. table[h][i] \in Seq(Cell) BY <1>5, <2>1, BoundTypes
    <3>3. table'[h][i] \in Seq(Cell)
      <4>1. DOMAIN table'[h] = DOMAIN table[h] BY <1>2, <1>4, <2>1 DEF SameCells
      <4>2. IsTable(table'[h], hashsize'[h]) BY <1>6 DEF SetsOK, WellFormed
      <4>3. QED BY <1>2, <2>1, <4>1, <4>2 DEF IsTable
    <3>4. QED BY <2>1, <3>1, <3>2, <3>3, LenProperties
  <2>2. CASE call.src # h BY <1>2, <1>4, <2>2
  <2>3. QED BY <2>1, <2>2
<1>8. QED BY <1>1, <1>5, <1>7, NextCell

(* Nor does taking away.                                                   *)
LEMMA UnlinkDescends ==
  ASSUME IInv, WalkUnlink, UNCHANGED packVars
  PROVE  BytesLeft' = BytesLeft /\ LoopsLeft' = LoopsLeft /\ BucketsLeft' = BucketsLeft /\ CellsLeft' < CellsLeft
<1>1. /\ AtCell /\ call.op = "diff_inplace" /\ Unlink(call.dst, i, j)
      /\ UNCHANGED <<hashsize, pc, call, i, j>>
  BY DEF WalkUnlink, Drops
<1>2. call.src = call.dst /\ pc = "walk" BY <1>1 DEF IInv, CallOK, AtCell, Walking
<1>3. call.src \in Handle /\ i \in DOMAIN table[call.src] /\ j \in DOMAIN table[call.src][i] BY <1>1, AtCellTypes
<1>4. i < Bound /\ Walked = call.src /\ j <= Len(table[Walked][i])
  BY <1>1, <1>2 DEF AtCell, Walking, Bound, Walked
<1> DEFINE C == table[call.src][i]
<1>5. C \in Seq(Cell) /\ Len(C) \in Nat BY <1>4, BoundTypes
<1>6. j \in 1..Len(C) BY <1>3, <1>5
<1>7. table'[call.src][i] = RemoveAt(C, j)
  <2>1. DOMAIN table = Handle BY DEF IInv, SetsOK
  <2>2. table' = [table EXCEPT ![call.src] = Unlinked(table[call.src], i, j)] BY <1>1, <1>2 DEF Unlink
  <2>3. table'[call.src] = Unlinked(table[call.src], i, j) BY <1>3, <2>1, <2>2
  <2>4. QED BY <1>3, <2>3 DEF Unlinked
<1> HIDE DEF C
<1>8. Len(RemoveAt(C, j)) = Len(C) - 1 BY <1>5, <1>6, UnlinkChain
<1>9. Len(table'[Walked][i]) = Len(table[Walked][i]) - 1 BY <1>4, <1>7, <1>8 DEF C
<1>10. QED BY <1>1, <1>4, <1>9, NextCell

(* A loop that ends leaves one loop less.                                  *)
LEMMA DoneDescends ==
  ASSUME IInv, RehashDone \/ AddAfterResize \/ WalkDone, UNCHANGED packVars
  PROVE  BytesLeft' = BytesLeft /\ LoopsLeft' < LoopsLeft
<1>1. BytesLeft' = BytesLeft BY DEF BytesLeft, Unpacking, packVars
<1>2. CASE RehashDone
  <2>1. pc = "resize" /\ call' = call BY <1>2 DEF RehashDone
  <2>2. pc' = "add" \/ (pc' = "walk" /\ call.op # "add") BY <1>2 DEF RehashDone
  <2>3. call.op \in {"add", "union_inplace"} BY <2>1 DEF IInv, CallOK
  <2>4. LoopsLeft = 3 BY <2>1 DEF LoopsLeft
  <2>5. LoopsLeft' = 1 BY <2>1, <2>2, <2>3 DEF LoopsLeft
  <2>6. QED BY <1>1, <2>4, <2>5
<1>3. CASE AddAfterResize
  <2>1. pc = "add" /\ pc' = "idle" BY <1>3 DEF AddAfterResize
  <2>2. LoopsLeft = 1 /\ LoopsLeft' = 0 BY <2>1 DEF LoopsLeft
  <2>3. QED BY <1>1, <2>2
<1>4. CASE WalkDone
  <2>1. pc = "walk" BY <1>4 DEF WalkDone
  <2>2. CASE call.op = "union"
    <3>1. call \in [op : Ops \ {"add"}, dst : Handle, src : Handle, other : Handle]
      BY <2>2 DEF IInv, CallOK, Calls, NoCall, Ops
    <3>2. call' = [call EXCEPT !.op = "union2", !.src = call.other] /\ pc' = "walk" BY <1>4, <2>1, <2>2 DEF WalkDone
    <3>3. call'.op = "union2" BY <3>1, <3>2
    <3>4. LoopsLeft = 2 BY <2>1, <2>2 DEF LoopsLeft
    <3>5. LoopsLeft' = 1 BY <3>2, <3>3 DEF LoopsLeft
    <3>6. QED BY <1>1, <3>4, <3>5
  <2>3. CASE call.op # "union"
    <3>1. pc' = "idle" BY <1>4, <2>3 DEF WalkDone
    <3>2. LoopsLeft = 1 BY <2>1, <2>3 DEF LoopsLeft
    <3>3. LoopsLeft' = 0 BY <3>1 DEF LoopsLeft
    <3>4. QED BY <1>1, <3>2, <3>3
  <2>4. QED BY <2>2, <2>3
<1>5. QED BY <1>2, <1>3, <1>4

(* A loop's step does one of these.                                        *)
LEMMA LoopDescends ==
  ASSUME IInv, Loop, UNCHANGED packVars
  PROVE  \/ BytesLeft' = BytesLeft /\ LoopsLeft' < LoopsLeft
         \/ BytesLeft' = BytesLeft /\ LoopsLeft' = LoopsLeft /\ BucketsLeft' < BucketsLeft
         \/ BytesLeft' = BytesLeft /\ LoopsLeft' = LoopsLeft /\ BucketsLeft' = BucketsLeft /\ CellsLeft' < CellsLeft
<1>1. CASE RehashCell
  <2>1. /\ pc = "resize" /\ i < hashsize[call.dst] /\ j <= Len(table[call.dst][i])
        /\ j' = j + 1 /\ UNCHANGED <<hashsize, table, pc, call, i>>
    BY <1>1 DEF RehashCell, ResizeCall
  <2>2. i < Bound /\ j <= Len(table[Walked][i]) /\ Len(table'[Walked][i]) = Len(table[Walked][i])
    BY <2>1 DEF Bound, Walked
  <2>3. QED BY <2>1, <2>2, NextCell
<1>2. CASE WalkSkip
  <2>1. /\ pc = "walk" /\ i < WalkBound /\ j <= Len(table[call.src][i])
        /\ j' = j + 1 /\ UNCHANGED <<hashsize, table, pc, call, i>>
    BY <1>2 DEF WalkSkip, AtCell, Walking
  <2>2. i < Bound /\ j <= Len(table[Walked][i]) /\ Len(table'[Walked][i]) = Len(table[Walked][i])
    BY <2>1 DEF Bound, Walked
  <2>3. QED BY <2>1, <2>2, NextCell
<1>3. CASE RehashBucket
  <2>1. i < Bound BY <1>3 DEF RehashBucket, ResizeCall, Bound
  <2>2. i' = i + 1 /\ UNCHANGED <<hashsize, pc, call>> BY <1>3 DEF RehashBucket
  <2>3. QED BY <2>1, <2>2, NextBucket
<1>4. CASE WalkBucket
  <2>1. i < Bound BY <1>4 DEF WalkBucket, Walking, Bound
  <2>2. i' = i + 1 /\ UNCHANGED <<hashsize, pc, call>> BY <1>4 DEF WalkBucket
  <2>3. QED BY <2>1, <2>2, NextBucket
<1>5. CASE RehashDone \/ AddAfterResize \/ WalkDone BY <1>5, DoneDescends
<1>6. CASE WalkCopy BY <1>6, CopyDescends
<1>7. CASE WalkUnlink BY <1>7, UnlinkDescends
<1>8. QED BY <1>1, <1>2, <1>3, <1>4, <1>5, <1>6, <1>7 DEF Loop

(* And set_unpack reads on.                                                *)
LEMMA MemberDescends ==
  ASSUME PackInv, RemainingOK, RemainingOK', UnpackMember
  PROVE  BytesLeft' < BytesLeft
<1> DEFINE es == packed.entries
<1>1. /\ Unpacking /\ packed # Nothing /\ es \in Seq(Cell)
      /\ unpacking = [ret |-> unpacking.ret, p |-> unpacking.p, size |-> packed.size]
  BY DEF UnpackMember, PackInv, UnpackOK, PackedOK
<1>2. PICK k \in DOMAIN es :
        Offset(es, k) = unpacking.p /\ unpacking' = [unpacking EXCEPT !.p = Offset(es, k + 1)]
  BY DEF UnpackMember
<1>3. unpacking' = [ret |-> unpacking.ret, p |-> Offset(es, k + 1), size |-> packed.size] BY <1>1, <1>2
<1>4. unpacking'.p = Offset(es, k + 1) /\ unpacking'.size = packed.size /\ unpacking.size = packed.size
  BY <1>1, <1>3
<1>5. unpacking' # Nothing
  <2>1. DOMAIN unpacking' = {"ret", "p", "size"} /\ DOMAIN Nothing = {"size"} BY <1>3 DEF Nothing
  <2>2. "p" \notin {"size"} OBVIOUS
  <2>3. QED BY <2>1, <2>2
<1> HIDE DEF es
<1>6. k \in 1..Len(es) + 1 /\ k + 1 \in 1..Len(es) + 1 /\ k < k + 1
  <2>1. DOMAIN es = 1..Len(es) /\ Len(es) \in Nat BY <1>1
  <2>2. QED BY <2>1
<1>7. Offset(es, k) < Offset(es, k + 1) BY <1>1, <1>6, OffsetsRise
<1>8. /\ BytesLeft = 1 + unpacking.size - unpacking.p /\ unpacking.p \in Nat /\ unpacking.size \in Nat
      /\ BytesLeft' = 1 + unpacking'.size - unpacking'.p /\ unpacking'.p \in Nat
  BY <1>1, <1>5 DEF RemainingOK, Unpacking
<1>9. QED BY <1>2, <1>4, <1>7, <1>8

(* Every step of a call, and of set_unpack, leaves less to do: resizing,   *)
(* walking two sets one after the other, unlinking from or adding to the   *)
(* chain that is walked, and reading member by member into a set that      *)
(* grows.  With OrderEnds no call takes infinitely many steps; and none of *)
(* them leaves everything as it is.                                        *)
THEOREM StepsDescend == PackInv /\ Running => <<Remaining', Remaining>> \in Order
<1> SUFFICES ASSUME PackInv, Running PROVE <<Remaining', Remaining>> \in Order OBVIOUS
<1>0. PackInv' BY PackKeeps DEF PackNext
<1>1. RemainingOK /\ RemainingOK' BY <1>0, RemainingTypes, RemainingTypesNext
<1>2. CASE Loop /\ UNCHANGED packVars
  <2>1. IInv BY DEF PackInv
  <2>2. QED BY <1>1, <1>2, <2>1, LoopDescends, StepDescends
<1>3. CASE UnpackMember
  <2>1. BytesLeft' < BytesLeft BY <1>1, <1>3, MemberDescends
  <2>2. QED BY <1>1, <2>1, StepDescends
<1>4. CASE UnpackDone
  <2>1. Unpacking /\ ~Unpacking' BY <1>4 DEF UnpackDone, Unpacking
  <2>2. BytesLeft \in Nat /\ BytesLeft # 0 /\ BytesLeft' = 0 BY <1>1, <2>1 DEF RemainingOK, BytesLeft
  <2>3. BytesLeft' < BytesLeft BY <2>2
  <2>4. QED BY <1>1, <2>3, StepDescends
<1>5. QED BY <1>2, <1>3, <1>4 DEF Running

(* So it is in every behaviour of the sets and of set_unpack.              *)
THEOREM CallsDescend == PackSpec => [][Running => <<Remaining', Remaining>> \in Order]_allVars
<1>1. PackInv /\ [PackNext]_allVars => [Running => <<Remaining', Remaining>> \in Order]_allVars BY StepsDescend
<1>2. QED BY <1>1, PackInvariance, PTL DEF PackSpec
=============================================================================
