------------------------ MODULE RangeCompressProofs -------------------------
(***************************************************************************)
(* Proofs about RangeCompress and RangeText, for any base, sets of names,  *)
(* ranges, largest int and size of the array.  Sorting gives each name one *)
(* place; IInv adds of the loop over the places that the last number of    *)
(* the group that is open fits an int, and JInv that groups and runs       *)
(* correspond one to one and what a group's text will expand to.  EInv is  *)
(* about the loop that expands a range, TInv about the whole way from the  *)
(* names to the text and back.                                             *)
(***************************************************************************)
EXTENDS RangeText, FiniteSetTheorems, SequenceTheorems, WellFoundedInduction, TLAPS

(***************************************************************************)
(* Induction, by the least number without the property, and recursion.     *)
(***************************************************************************)

(* A non-empty set of naturals has a least element. *)
LEMMA LeastExists ==
  ASSUME NEW S \in SUBSET Nat, S # {}
  PROVE  \E m \in S : \A n \in S : m <= n
<1> DEFINE R == OpToRel(<, Nat)
<1>1. R = {ss \in Nat \X Nat : ss[1] < ss[2]} BY Zenon DEF OpToRel
<1>2. IsWellFoundedOn(R, Nat) BY NatLessThanWellFounded
<1> HIDE DEF R
<1>3. PICK m \in S : \A n \in S : ~ (<<n, m>> \in R) BY <1>2, WFMin, Zenon
<1>4. ASSUME NEW n \in S PROVE m <= n
  <2>1. n \in Nat /\ m \in Nat OBVIOUS
  <2>2. n < m => <<n, m>> \in R BY <1>1, <2>1
  <2>3. QED BY <1>3, <2>1, <2>2
<1>5. QED BY <1>4

(* A set of naturals that has 0, and the next of each it has, has all. *)
LEMMA Induct ==
  ASSUME NEW S, 0 \in S, \A n \in Nat : n \in S => n + 1 \in S
  PROVE  Nat \subseteq S
<1> DEFINE Out == Nat \ S
<1>1. SUFFICES ASSUME Out # {} PROVE FALSE OBVIOUS
<1>2. Out \in SUBSET Nat OBVIOUS
<1>3. PICK m \in Out : \A n \in Out : m <= n BY <1>1, <1>2, LeastExists
<1>4. m \in Nat /\ m # 0 BY <1>3
<1>5. m - 1 \in Nat /\ ~(m <= m - 1) /\ (m - 1) + 1 = m BY <1>4
<1>6. m - 1 \in S BY <1>3, <1>5
<1>7. m \in S BY <1>5, <1>6
<1>8. QED BY <1>3, <1>7

(* There is a function that each step is taken of the value before. *)
IsRecursive(f, S, base, step) ==
  f \in [Nat -> S] /\ f[0] = base /\ \A n \in Nat : f[n + 1] = step[<<n, f[n]>>]

LEMMA Recursion ==
  ASSUME NEW S, NEW base \in S, NEW step \in [Nat \X S -> S]
  PROVE  \E f : IsRecursive(f, S, base, step)
<1> DEFINE Upto(n, f) == f \in [0..n -> S] /\ f[0] = base /\ \A k \in 0..n - 1 : f[k + 1] = step[<<k, f[k]>>]
           Some == {n \in Nat : \E f : Upto(n, f)}
<1>1. Nat \subseteq Some
  <2>1. 0 \in Some
    <3>1. Upto(0, [k \in 0..0 |-> base]) OBVIOUS
    <3>2. QED BY <3>1
  <2>2. ASSUME NEW n \in Nat, n \in Some PROVE n + 1 \in Some
    <3>1. PICK f : Upto(n, f) BY <2>2
    <3> DEFINE g == [k \in 0..n + 1 |-> IF k = n + 1 THEN step[<<n, f[n]>>] ELSE f[k]]
    <3>2. f[n] \in S BY <3>1
    <3>3. <<n, f[n]>> \in Nat \X S BY <3>2
    <3>4. step[<<n, f[n]>>] \in S BY <3>3
    <3>5. g \in [0..n + 1 -> S] BY <3>1, <3>4
    <3>6. g[0] = base BY <3>1
    <3>7. ASSUME NEW k \in 0..n PROVE g[k + 1] = step[<<k, g[k]>>]
      <4>0. k \in 0..n + 1 /\ k # n + 1 /\ k + 1 \in 0..n + 1 OBVIOUS
      <4>1. CASE k = n
        <5>1. g[k + 1] = step[<<n, f[n]>>] /\ g[k] = f[n] BY <4>0, <4>1
        <5>2. QED BY <4>1, <5>1
      <4>2. CASE k # n
        <5>1. k \in 0..n - 1 /\ k + 1 \in 0..n + 1 /\ k + 1 # n + 1 /\ k \in 0..n + 1 /\ k # n + 1 BY <4>2
        <5>2. QED BY <3>1, <5>1
      <4>3. QED BY <4>1, <4>2
    <3>8. (n + 1) - 1 = n BY <2>2
    <3>9. Upto(n + 1, g) BY <3>5, <3>6, <3>7, <3>8
    <3> HIDE DEF Upto
    <3>10. QED BY <3>9
  <2> HIDE DEF Some
  <2>3. QED BY <2>1, <2>2, Induct
<1>2. ASSUME NEW n \in Nat, NEW m \in Nat, n <= m, NEW f, NEW g, Upto(n, f), Upto(m, g)
      PROVE  \A k \in 0..n : f[k] = g[k]
  <2> DEFINE Same == {k \in Nat : k <= n => f[k] = g[k]}
  <2>1. 0 \in Same BY <1>2
  <2>2. ASSUME NEW k \in Nat, k \in Same PROVE k + 1 \in Same
    <3>1. SUFFICES ASSUME k + 1 <= n PROVE f[k + 1] = g[k + 1] OBVIOUS
    <3>2. k \in 0..n - 1 /\ k \in 0..m - 1 /\ k <= n BY <1>2, <3>1
    <3>3. f[k] = g[k] BY <2>2, <3>2
    <3>4. QED BY <1>2, <3>2, <3>3
  <2>3. Nat \subseteq Same
    <3> HIDE DEF Same
    <3>1. QED BY <2>1, <2>2, Induct
  <2>4. QED BY <2>3
<1> DEFINE F(n) == CHOOSE f : Upto(n, f)
           f == [n \in Nat |-> F(n)[n]]
<1>3. ASSUME NEW n \in Nat PROVE Upto(n, F(n))
  <2>1. \E g : Upto(n, g) BY <1>1
  <2> HIDE DEF Upto
  <2>2. QED BY <2>1
<1>4. ASSUME NEW n \in Nat PROVE f[n] \in S
  <2> HIDE DEF F
  <2>1. F(n) \in [0..n -> S] /\ n \in 0..n BY <1>3
  <2>2. QED BY <2>1
<1>5. f[0] = base
  <2>1. F(0)[0] = base BY <1>3
  <2> HIDE DEF F
  <2>2. QED BY <2>1
<1>6. ASSUME NEW n \in Nat PROVE f[n + 1] = step[<<n, f[n]>>]
  <2>1. n \in 0..(n + 1) - 1 /\ n \in 0..n /\ n <= n + 1 /\ n + 1 \in Nat OBVIOUS
  <2>2. F(n + 1)[n + 1] = step[<<n, F(n + 1)[n]>>] BY <1>3, <2>1
  <2>3. F(n)[n] = F(n + 1)[n]
    <3>1. Upto(n, F(n)) /\ Upto(n + 1, F(n + 1)) BY <1>3, <2>1
    <3> HIDE DEF Upto, F
    <3>2. QED BY <1>2, <2>1, <3>1
  <2> HIDE DEF F
  <2>4. QED BY <2>1, <2>2, <2>3
<1>7. f \in [Nat -> S]
  <2> HIDE DEF F
  <2>1. QED BY <1>4
<1> HIDE DEF f
<1>8. QED BY <1>5, <1>6, <1>7 DEF IsRecursive

(***************************************************************************)
(* Numbers in digits.                                                      *)
(***************************************************************************)

(* The place values. *)
LEMMA PowerIs ==
  /\ Power[0] = 1
  /\ \A n \in Nat : Power[n] \in Nat \ {0} /\ Power[n + 1] = Base * Power[n]
<1> DEFINE step == [p \in Nat \X Nat |-> Base * p[2]]
           Def(f) == [w \in Nat |-> IF w = 0 THEN 1 ELSE Base * f[w - 1]]
<1>0. Base \in Nat \ {0, 1} BY BaseAssumption DEF BaseAssumption
<1>1. step \in [Nat \X Nat -> Nat] BY <1>0
<1>2. PICK f : IsRecursive(f, Nat, 1, step)
  <2>1. 1 \in Nat OBVIOUS
  <2> HIDE DEF step
  <2>2. QED BY <1>1, <2>1, Recursion
<1>3. f = Def(f)
  <2>1. ASSUME NEW w \in Nat PROVE f[w] = IF w = 0 THEN 1 ELSE Base * f[w - 1]
    <3>1. CASE w # 0
      <4>1. w - 1 \in Nat /\ (w - 1) + 1 = w BY <3>1
      <4>2. f[w] = step[<<w - 1, f[w - 1]>>] BY <1>2, <4>1 DEF IsRecursive
      <4>3. <<w - 1, f[w - 1]>> \in Nat \X Nat BY <1>2, <4>1 DEF IsRecursive
      <4>4. QED BY <3>1, <4>2, <4>3
    <3>2. QED BY <1>2, <3>1 DEF IsRecursive
  <2>2. f = [w \in Nat |-> f[w]] BY <1>2 DEF IsRecursive
  <2>3. QED BY <2>1, <2>2
<1>4. Power = CHOOSE g : g = Def(g) BY DEF Power
<1>5. Power = Def(Power)
  <2> HIDE DEF Def
  <2>1. QED BY <1>3, <1>4
<1>6. Power[0] = 1 BY <1>5
<1>7. \A n \in Nat : Power[n + 1] = Base * Power[n]
  <2>1. ASSUME NEW n \in Nat PROVE Power[n + 1] = Base * Power[n]
    <3>1. n + 1 \in Nat /\ n + 1 # 0 /\ (n + 1) - 1 = n OBVIOUS
    <3>2. QED BY <1>5, <3>1
  <2>2. QED BY <2>1
<1>8. \A n \in Nat : Power[n] \in Nat \ {0}
  <2> DEFINE T == {n \in Nat : Power[n] \in Nat \ {0}}
  <2>1. 0 \in T BY <1>6
  <2>2. ASSUME NEW n \in Nat, n \in T PROVE n + 1 \in T
    <3>1. Power[n] \in Nat \ {0} /\ Power[n + 1] = Base * Power[n] BY <1>7, <2>2
    <3>2. Base * Power[n] \in Nat \ {0} BY <1>0, <3>1
    <3>3. QED BY <3>1, <3>2
  <2> HIDE DEF T
  <2>3. Nat \subseteq T BY <2>1, <2>2, Induct
  <2>4. QED BY <2>3 DEF T
<1>9. QED BY <1>6, <1>7, <1>8

(* The number at each of the digits. *)
IsValue(v, d) ==
  v \in [0..Len(d) -> Nat] /\ v[0] = 0 /\ \A k \in 1..Len(d) : v[k] = Base * v[k - 1] + d[k]

LEMMA ValueExists ==
  ASSUME NEW d \in Seq(Digit)
  PROVE  \E v : IsValue(v, d) /\ atoi(d) = v[Len(d)]
<1> DEFINE step == [p \in Nat \X Nat |-> IF p[1] + 1 <= Len(d) THEN Base * p[2] + d[p[1] + 1] ELSE 0]
           Def(f) == [k \in 0..Len(d) |-> IF k = 0 THEN 0 ELSE Base * f[k - 1] + d[k]]
<1>0. /\ Base \in Nat \ {0, 1} /\ Len(d) \in Nat /\ \A k \in 1..Len(d) : d[k] \in Nat
  BY BaseAssumption DEF BaseAssumption, Digit
<1>1. step \in [Nat \X Nat -> Nat]
  <2>1. ASSUME NEW p \in Nat \X Nat
        PROVE  (IF p[1] + 1 <= Len(d) THEN Base * p[2] + d[p[1] + 1] ELSE 0) \in Nat
    <3>1. CASE p[1] + 1 <= Len(d)
      <4>1. p[1] + 1 \in 1..Len(d) BY <1>0, <3>1
      <4>2. Base * p[2] \in Nat BY <1>0
      <4>3. QED BY <1>0, <3>1, <4>1, <4>2
    <3>2. QED BY <3>1
  <2>2. QED BY <2>1
<1>2. PICK f : IsRecursive(f, Nat, 0, step)
  <2>1. 0 \in Nat OBVIOUS
  <2> HIDE DEF step
  <2>2. QED BY <1>1, <2>1, Recursion
<1> DEFINE v == [k \in 0..Len(d) |-> f[k]]
<1>3. ASSUME NEW k \in 1..Len(d) PROVE f[k] = Base * f[k - 1] + d[k]
  <2>1. k - 1 \in Nat /\ (k - 1) + 1 = k /\ k <= Len(d) BY <1>0
  <2>2. f[k] = step[<<k - 1, f[k - 1]>>] BY <1>2, <2>1 DEF IsRecursive
  <2>3. <<k - 1, f[k - 1]>> \in Nat \X Nat BY <1>2, <2>1 DEF IsRecursive
  <2>4. QED BY <2>1, <2>2, <2>3
<1>4. v = Def(v)
  <2>1. ASSUME NEW k \in 0..Len(d) PROVE v[k] = IF k = 0 THEN 0 ELSE Base * v[k - 1] + d[k]
    <3>1. CASE k # 0
      <4>1. k \in 1..Len(d) /\ k - 1 \in 0..Len(d) BY <1>0, <3>1
      <4>2. v[k] = f[k] /\ v[k - 1] = f[k - 1] BY <4>1
      <4> HIDE DEF v
      <4>3. QED BY <1>3, <3>1, <4>1, <4>2
    <3>2. QED BY <1>2, <3>1 DEF IsRecursive
  <2>2. v = [k \in 0..Len(d) |-> v[k]] OBVIOUS
  <2> HIDE DEF v
  <2>3. QED BY <2>1, <2>2
<1> DEFINE u == CHOOSE g : g = Def(g)
<1>5. atoi(d) = u[Len(d)] BY DEF atoi
<1>6. u = Def(u)
  <2> HIDE DEF Def, v
  <2>1. QED BY <1>4
<1> HIDE DEF u
<1>7. u[0] = 0 /\ \A k \in 1..Len(d) : u[k] = Base * u[k - 1] + d[k]
  <2>1. 0 \in 0..Len(d) BY <1>0
  <2>2. ASSUME NEW k \in 1..Len(d) PROVE u[k] = Base * u[k - 1] + d[k]
    <3>1. k \in 0..Len(d) /\ k # 0 BY <1>0
    <3>2. QED BY <1>6, <3>1
  <2>3. QED BY <1>6, <2>1, <2>2
<1>8. \A k \in Nat : k \in 0..Len(d) => u[k] \in Nat
  <2> DEFINE T == {k \in Nat : k \in 0..Len(d) => u[k] \in Nat}
  <2>1. 0 \in T BY <1>7
  <2>2. ASSUME NEW k \in Nat, k \in T PROVE k + 1 \in T
    <3>1. SUFFICES ASSUME k + 1 \in 0..Len(d) PROVE u[k + 1] \in Nat OBVIOUS
    <3>2. k \in 0..Len(d) /\ k + 1 \in 1..Len(d) /\ (k + 1) - 1 = k BY <1>0, <3>1
    <3>3. u[k] \in Nat /\ u[k + 1] = Base * u[k] + d[k + 1] BY <1>7, <2>2, <3>2
    <3>4. Base * u[k] \in Nat /\ d[k + 1] \in Nat BY <1>0, <3>2, <3>3
    <3>5. QED BY <3>3, <3>4
  <2> HIDE DEF T
  <2>3. Nat \subseteq T BY <2>1, <2>2, Induct
  <2>4. QED BY <2>3 DEF T
<1>9. u \in [0..Len(d) -> Nat]
  <2>1. \A k \in 0..Len(d) : k \in Nat BY <1>0
  <2>2. \A k \in 0..Len(d) : u[k] \in Nat BY <1>8, <2>1
  <2>3. u = [k \in 0..Len(d) |-> u[k]] BY <1>6
  <2>4. QED BY <2>2, <2>3
<1>10. QED BY <1>5, <1>7, <1>9 DEF IsValue

LEMMA Horner ==
  \A b, x, p, c, z \in Nat : b * (x * p + c) + z = x * (b * p) + (b * c + z)
OBVIOUS

LEMMA DigitsAre ==
  ASSUME NEW d \in Seq(Digit)
  PROVE  Len(d) \in Nat /\ \A k \in 1..Len(d) : d[k] \in Digit /\ d[k] \in Nat /\ d[k] < Base
BY BaseAssumption DEF BaseAssumption, Digit

LEMMA BaseIs == Base \in Nat /\ Base > 1
BY BaseAssumption DEF BaseAssumption

(* A number of k digits is below the place value of the next.              *)
LEMMA ValueBound ==
  ASSUME NEW d \in Seq(Digit), NEW v, IsValue(v, d)
  PROVE  \A k \in 0..Len(d) : v[k] < Power[k]
<1> DEFINE T == {k \in Nat : k \in 0..Len(d) => v[k] < Power[k]}
<1>1. 0 \in T BY PowerIs DEF IsValue
<1>2. ASSUME NEW k \in Nat, k \in T PROVE k + 1 \in T
  <2>1. SUFFICES ASSUME k + 1 \in 0..Len(d) PROVE v[k + 1] < Power[k + 1] OBVIOUS
  <2>2. k \in 0..Len(d) /\ k + 1 \in 1..Len(d) /\ (k + 1) - 1 = k BY DigitsAre, <2>1
  <2>3. v[k] \in Nat /\ v[k] < Power[k] /\ v[k + 1] = Base * v[k] + d[k + 1] BY <1>2, <2>2 DEF IsValue
  <2>4. d[k + 1] \in Nat /\ d[k + 1] < Base BY <2>2, DigitsAre
  <2>5. Power[k] \in Nat /\ Power[k + 1] = Base * Power[k] BY PowerIs
  <2>6. \A b, x, p, c \in Nat : x < p /\ c < b => b * x + c < b * p
    <3>1. SUFFICES ASSUME NEW b \in Nat, NEW x \in Nat, NEW p \in Nat, NEW c \in Nat, x < p, c < b
                   PROVE  b * x + c < b * p
      OBVIOUS
    <3>2. b * x + b <= b * p
      <4>1. p = x + 1 + (p - (x + 1)) /\ p - (x + 1) \in Nat BY <3>1
      <4>2. b * p = b * x + b + b * (p - (x + 1)) BY <4>1
      <4>3. b * (p - (x + 1)) \in Nat /\ b * x \in Nat BY <4>1
      <4>4. QED BY <4>2, <4>3
    <3>3. b * x \in Nat /\ b * p \in Nat OBVIOUS
    <3>4. QED BY <3>1, <3>2, <3>3
  <2>7. QED BY <2>3, <2>4, <2>5, <2>6, BaseIs
<1> HIDE DEF T
<1>3. Nat \subseteq T BY <1>1, <1>2, Induct
<1>4. \A k \in 0..Len(d) : k \in Nat BY DigitsAre
<1>5. QED BY <1>3, <1>4 DEF T

(* A number only depends on its digits. *)
LEMMA ValueUnique ==
  ASSUME NEW d \in Seq(Digit), NEW e \in Seq(Digit), NEW v, NEW u, IsValue(v, d), IsValue(u, e),
         NEW n \in 0..Len(d), n <= Len(e), \A k \in 1..n : d[k] = e[k]
  PROVE  v[n] = u[n]
<1> DEFINE T == {k \in Nat : k <= n => v[k] = u[k]}
<1>1. 0 \in T BY DEF IsValue
<1>2. ASSUME NEW k \in Nat, k \in T PROVE k + 1 \in T
  <2>1. SUFFICES ASSUME k + 1 <= n PROVE v[k + 1] = u[k + 1] OBVIOUS
  <2>2. k <= n /\ k + 1 \in 1..n /\ k + 1 \in 1..Len(d) /\ k + 1 \in 1..Len(e) /\ (k + 1) - 1 = k BY DigitsAre, <2>1
  <2>3. v[k] = u[k] /\ d[k + 1] = e[k + 1] BY <1>2, <2>2
  <2>4. QED BY <2>2, <2>3 DEF IsValue
<1> HIDE DEF T
<1>3. Nat \subseteq T BY <1>1, <1>2, Induct
<1>4. n \in Nat /\ n <= n BY DigitsAre
<1>5. QED BY <1>3, <1>4 DEF T

(* More digits move the number before them up. *)
LEMMA ValueOfTail ==
  ASSUME NEW d \in Seq(Digit), NEW e \in Seq(Digit), NEW v, NEW u, IsValue(v, d), IsValue(u, e),
         NEW s \in Nat, s + Len(e) = Len(d), \A k \in 1..Len(e) : d[s + k] = e[k]
  PROVE  v[Len(d)] = v[s] * Power[Len(e)] + u[Len(e)]
<1> DEFINE T == {k \in Nat : k <= Len(e) => v[s + k] = v[s] * Power[k] + u[k]}
<1>0. Len(d) \in Nat /\ Len(e) \in Nat /\ s \in 0..Len(d) /\ v[s] \in Nat BY DigitsAre DEF IsValue
<1>1. 0 \in T
  <2>1. v[s + 0] = v[s] /\ u[0] = 0 /\ Power[0] = 1 BY <1>0, PowerIs DEF IsValue
  <2>2. QED BY <1>0, <2>1
<1>2. ASSUME NEW k \in Nat, k \in T PROVE k + 1 \in T
  <2>1. SUFFICES ASSUME k + 1 <= Len(e) PROVE v[s + (k + 1)] = v[s] * Power[k + 1] + u[k + 1] OBVIOUS
  <2>2. /\ k <= Len(e) /\ k \in 0..Len(e) /\ k + 1 \in 1..Len(e) /\ (k + 1) - 1 = k
        /\ s + (k + 1) \in 1..Len(d) /\ (s + (k + 1)) - 1 = s + k
    BY <1>0, <2>1
  <2>3. v[s + (k + 1)] = Base * v[s + k] + d[s + (k + 1)] /\ u[k + 1] = Base * u[k] + e[k + 1] BY <2>2 DEF IsValue
  <2>4. d[s + (k + 1)] = e[k + 1] /\ e[k + 1] \in Nat BY <2>2, DigitsAre
  <2>5. v[s + k] = v[s] * Power[k] + u[k] BY <1>2, <2>2
  <2>6. u[k] \in Nat /\ Power[k] \in Nat /\ Power[k + 1] = Base * Power[k] BY <2>2, PowerIs DEF IsValue
  <2>7. v[s] \in Nat /\ Base \in Nat /\ Power[k] \in Nat /\ u[k] \in Nat /\ e[k + 1] \in Nat
    BY <1>0, <2>4, <2>6, BaseIs
  <2>8. Base * (v[s] * Power[k] + u[k]) + e[k + 1] = v[s] * (Base * Power[k]) + (Base * u[k] + e[k + 1])
    <3> HIDE DEF T
    <3> DEFINE b == Base  x == v[s]  p == Power[k]  c == u[k]  z == e[k + 1]
    <3>1. b \in Nat /\ x \in Nat /\ p \in Nat /\ c \in Nat /\ z \in Nat BY <2>7
    <3> HIDE DEF b, x, p, c, z
    <3>2. b * (x * p + c) + z = x * (b * p) + (b * c + z) BY <3>1
    <3>3. QED BY <3>2 DEF b, x, p, c, z
  <2> HIDE DEF T
  <2>9. QED BY <2>3, <2>4, <2>5, <2>6, <2>8
<1> HIDE DEF T
<1>3. Nat \subseteq T BY <1>1, <1>2, Induct
<1>4. Len(e) \in T BY <1>0, <1>3
<1>5. v[s + Len(e)] = v[s] * Power[Len(e)] + u[Len(e)] BY <1>0, <1>4 DEF T
<1>6. QED BY <1>0, <1>5

LEMMA AtoiBound ==
  ASSUME NEW d \in Seq(Digit)
  PROVE  atoi(d) \in Nat /\ atoi(d) < Power[Len(d)]
<1>1. PICK v : IsValue(v, d) /\ atoi(d) = v[Len(d)] BY ValueExists
<1>2. Len(d) \in 0..Len(d) BY DigitsAre
<1>3. QED BY <1>1, <1>2, ValueBound DEF IsValue

LEMMA AtoiAppend ==
  ASSUME NEW d \in Seq(Digit), NEW e \in Seq(Digit)
  PROVE  atoi(d \o e) = atoi(d) * Power[Len(e)] + atoi(e)
<1>1. PICK v : IsValue(v, d) /\ atoi(d) = v[Len(d)] BY ValueExists
<1>2. PICK u : IsValue(u, e) /\ atoi(e) = u[Len(e)] BY ValueExists
<1>3. d \o e \in Seq(Digit) /\ Len(d \o e) = Len(d) + Len(e) BY ConcatProperties
<1>4. PICK w : IsValue(w, d \o e) /\ atoi(d \o e) = w[Len(d \o e)] BY <1>3, ValueExists
<1>5. Len(d) \in Nat /\ Len(e) \in Nat BY DigitsAre
<1>6. \A k \in 1..Len(d) : (d \o e)[k] = d[k] OBVIOUS
<1>7. \A k \in 1..Len(e) : (d \o e)[Len(d) + k] = e[k] OBVIOUS
<1>8. w[Len(d)] = v[Len(d)]
  <2>1. Len(d) \in 0..Len(d \o e) /\ Len(d) <= Len(d) BY <1>3, <1>5
  <2> DEFINE n == Len(d)
             de == d \o e
  <2>3. n \in 0..Len(de) /\ n <= Len(d) /\ de \in Seq(Digit) /\ IsValue(w, de) /\ \A k \in 1..n : de[k] = d[k]
    BY <1>3, <1>4, <1>6, <2>1
  <2> HIDE DEF n, de
  <2>4. w[n] = v[n] BY <1>1, <2>3, ValueUnique
  <2>2. QED BY <2>4 DEF n
<1>9. w[Len(d \o e)] = w[Len(d)] * Power[Len(e)] + u[Len(e)]
  <2> DEFINE n == Len(d)
             de == d \o e
  <2>1. n \in Nat /\ n + Len(e) = Len(de) /\ de \in Seq(Digit) /\ IsValue(w, de) /\ \A k \in 1..Len(e) : de[n + k] = e[k]
    BY <1>3, <1>4, <1>5, <1>7
  <2> HIDE DEF n, de
  <2>2. w[Len(de)] = w[n] * Power[Len(e)] + u[Len(e)] BY <1>2, <2>1, ValueOfTail
  <2>3. QED BY <2>2 DEF n, de
<1>10. QED BY <1>1, <1>2, <1>4, <1>8, <1>9

LEMMA DivSplit ==
  \A n \in Nat : \A m \in Nat \ {0} :
    n \div m \in Nat /\ n % m \in 0..m - 1 /\ n = (n \div m) * m + (n % m)
OBVIOUS

LEMMA DivIs ==
  \A n, q, o, m \in Nat : o < m /\ n = q * m + o => n \div m = q /\ n % m = o
<1> SUFFICES ASSUME NEW n \in Nat, NEW q \in Nat, NEW o \in Nat, NEW m \in Nat, o < m, n = q * m + o
             PROVE  n \div m = q /\ n % m = o
  OBVIOUS
<1>1. n \div m \in Nat /\ n % m \in 0..m - 1 /\ n = (n \div m) * m + (n % m)
  <2>1. m \in Nat \ {0} OBVIOUS
  <2>2. QED BY <2>1
<1> DEFINE t == n \div m  x == n % m
<1>2. t \in Nat /\ x \in Nat /\ x < m /\ q * m + o = t * m + x BY <1>1
<1> HIDE DEF t, x
<1>3. \A a, b \in Nat : a < b => a * m + m <= b * m
  <2>1. SUFFICES ASSUME NEW a \in Nat, NEW b \in Nat, a < b PROVE a * m + m <= b * m OBVIOUS
  <2>2. b = a + 1 + (b - (a + 1)) /\ b - (a + 1) \in Nat BY <2>1
  <2>3. b * m = a * m + m + (b - (a + 1)) * m BY <2>2
  <2>4. (b - (a + 1)) * m \in Nat /\ a * m \in Nat BY <2>2
  <2>5. QED BY <2>3, <2>4
<1>4. q * m \in Nat /\ t * m \in Nat BY <1>2
<1>5. ~(q < t) BY <1>2, <1>3, <1>4
<1>6. ~(t < q) BY <1>2, <1>3, <1>4
<1>7. q = t BY <1>2, <1>5, <1>6
<1>8. QED BY <1>2, <1>4, <1>7 DEF t, x

(* Digits that are those of a number of as many digits. *)
LEMMA PaddedOfAtoi ==
  ASSUME NEW d \in Seq(Digit)
  PROVE  Padded(atoi(d), Len(d)) = d
<1>1. PICK v : IsValue(v, d) /\ atoi(d) = v[Len(d)] BY ValueExists
<1>2. ASSUME NEW k \in 1..Len(d) PROVE (atoi(d) \div Power[Len(d) - k]) % Base = d[k]
  <2> DEFINE e == [j \in 1..Len(d) - k |-> d[k + j]]
  <2>1. Len(d) - k \in Nat /\ Len(d) \in Nat BY DigitsAre
  <2>2. e \in Seq(Digit) /\ Len(e) = Len(d) - k
    <3>1. \A j \in 1..Len(d) - k : d[k + j] \in Digit
      <4>1. \A j \in 1..Len(d) - k : k + j \in 1..Len(d) BY <2>1
      <4>2. QED BY <4>1, DigitsAre
    <3>2. QED BY <2>1, <3>1
  <2>3. PICK u : IsValue(u, e) /\ atoi(e) = u[Len(e)] BY <2>2, ValueExists
  <2>4. k \in Nat /\ k + Len(e) = Len(d) /\ \A j \in 1..Len(e) : d[k + j] = e[j] BY <2>1, <2>2
  <2>5. atoi(e) \in Nat /\ atoi(e) < Power[Len(e)] BY <2>2, AtoiBound
  <2> HIDE DEF e
  <2>6. v[Len(d)] = v[k] * Power[Len(e)] + u[Len(e)]
    <3>1. k \in Nat /\ k + Len(e) = Len(d) BY <2>4
    <3>2. \A j \in 1..Len(e) : d[k + j] = e[j] BY <2>4
    <3>3. IsValue(v, d) /\ IsValue(u, e) /\ e \in Seq(Digit) BY <1>1, <2>2, <2>3
    <3>4. QED BY <3>1, <3>2, <3>3, ValueOfTail, SMTT(60)
  <2>7. v[k] = Base * v[k - 1] + d[k] /\ v[k] \in Nat /\ v[k - 1] \in Nat
    <3>1. k \in 0..Len(d) /\ k - 1 \in 0..Len(d) BY <2>1
    <3>2. QED BY <1>1, <3>1 DEF IsValue
  <2> DEFINE n == atoi(d)  q == v[k]  m == Power[Len(e)]  o == atoi(e)  p == v[k - 1]  c == d[k]
  <2>8. n \in Nat /\ q \in Nat /\ m \in Nat /\ o \in Nat /\ o < m /\ n = q * m + o
    <3>1. n \in Nat BY AtoiBound
    <3>2. Len(e) \in Nat BY <2>1, <2>2
    <3>3. m \in Nat BY <3>2, PowerIs
    <3>4. n = q * m + o BY <1>1, <2>3, <2>6
    <3>5. QED BY <2>5, <2>7, <3>1, <3>3, <3>4
  <2>9. p \in Nat /\ c \in Nat /\ c < Base /\ q = p * Base + c BY <2>7, DigitsAre, BaseIs
  <2> HIDE DEF n, q, m, o, p, c
  <2>10. n \div m = q BY <2>8, DivIs
  <2>11. q % Base = c BY <2>8, <2>9, DivIs, BaseIs
  <2>12. Len(d) - k = Len(e) BY <2>2
  <2>13. QED BY <2>10, <2>11, <2>12 DEF n, m, c
<1>3. d = [k \in 1..Len(d) |-> d[k]] BY LenProperties
<1>4. QED BY <1>2, <1>3 DEF Padded

LEMMA PowerGrows ==
  ASSUME NEW j \in Nat, NEW k \in Nat, j <= k
  PROVE  Power[j] <= Power[k] /\ (j < k => Power[j] < Power[k])
<1> DEFINE T == {n \in Nat : Power[j] <= Power[j + n] /\ (n > 0 => Power[j] < Power[j + n])}
<1>1. 0 \in T BY PowerIs
<1>2. ASSUME NEW n \in Nat, n \in T PROVE n + 1 \in T
  <2>1. j + n \in Nat /\ j + (n + 1) = (j + n) + 1 OBVIOUS
  <2>2. Power[j] \in Nat /\ Power[j + n] \in Nat \ {0} /\ Power[j + (n + 1)] = Base * Power[j + n] BY <2>1, PowerIs
  <2>3. Power[j] <= Power[j + n] BY <1>2
  <2>4. Base * Power[j + n] > Power[j + n]
    <3> DEFINE p == Power[j + n]
    <3>1. p \in Nat \ {0} BY <2>2
    <3> HIDE DEF p
    <3>2. Base * p > p
      <4>1. Base * p = p + p + (Base - 2) * p BY <3>1, BaseIs
      <4>2. (Base - 2) * p \in Nat BY <3>1, BaseIs
      <4>3. QED BY <3>1, <4>1, <4>2
    <3>3. QED BY <3>2 DEF p
  <2>5. Base * Power[j + n] \in Int BY <2>2, BaseIs
  <2>6. QED BY <2>2, <2>3, <2>4, <2>5
<1> HIDE DEF T
<1>3. Nat \subseteq T BY <1>1, <1>2, Induct
<1>4. k - j \in Nat /\ j + (k - j) = k OBVIOUS
<1>5. k - j \in T BY <1>3, <1>4
<1>6. QED BY <1>4, <1>5 DEF T

(* So many digits hold so many numbers. *)
LEMMA AtoiOfPadded ==
  ASSUME NEW w \in Nat, NEW n \in Nat, n < Power[w]
  PROVE  Padded(n, w) \in Seq(Digit) /\ Len(Padded(n, w)) = w /\ atoi(Padded(n, w)) = n
<1> DEFINE d == Padded(n, w)
<1>1. ASSUME NEW k \in 1..w PROVE w - k \in Nat /\ d[k] = (n \div Power[w - k]) % Base /\ d[k] \in Digit
  <2>1. w - k \in Nat OBVIOUS
  <2>2. d[k] = (n \div Power[w - k]) % Base BY DEF Padded
  <2>3. n \div Power[w - k] \in Nat BY <2>1, PowerIs, DivSplit
  <2>4. \A m \in Nat : m % Base \in 0..Base - 1 BY BaseIs
  <2>5. QED BY <2>1, <2>2, <2>3, <2>4 DEF Digit
<1>2. d \in Seq(Digit) /\ Len(d) = w
  <2>1. d = [k \in 1..w |-> d[k]] BY DEF Padded
  <2> HIDE DEF d
  <2>2. \A k \in 1..w : d[k] \in Digit BY <1>1
  <2>3. d \in [1..w -> Digit] BY <2>1, <2>2
  <2>4. QED BY <2>3
<1> HIDE DEF d
<1>3. PICK v : IsValue(v, d) /\ atoi(d) = v[Len(d)] BY <1>2, ValueExists
<1> DEFINE T == {k \in Nat : k <= w => v[k] = n \div Power[w - k]}
<1>4. 0 \in T
  <2>1. Power[w] \in Nat BY PowerIs
  <2>2. n \div Power[w] = 0
    <3> DEFINE p == Power[w]
    <3>1. p \in Nat /\ n < p /\ n = 0 * p + n BY <2>1
    <3> HIDE DEF p
    <3>2. n \div p = 0 BY <3>1, DivIs
    <3>3. QED BY <3>2 DEF p
  <2>3. v[0] = 0 /\ w - 0 = w BY <1>3 DEF IsValue
  <2>4. QED BY <2>2, <2>3
<1>5. ASSUME NEW k \in Nat, k \in T PROVE k + 1 \in T
  <2>1. SUFFICES ASSUME k + 1 <= w PROVE v[k + 1] = n \div Power[w - (k + 1)] OBVIOUS
  <2> DEFINE q == Power[w - (k + 1)]
  <2>2. /\ k + 1 \in 1..w /\ (k + 1) - 1 = k /\ k <= w
        /\ w - (k + 1) \in Nat /\ w - k = (w - (k + 1)) + 1
    BY <2>1
  <2>3. v[k + 1] = Base * v[k] + d[k + 1] BY <1>2, <1>3, <2>2 DEF IsValue
  <2>4. d[k + 1] = (n \div q) % Base BY <1>1, <2>2
  <2>5. v[k] = n \div Power[w - k] BY <1>5, <2>2
  <2>6. q \in Nat \ {0} /\ Power[w - k] = Base * q BY <2>2, PowerIs
  <2> HIDE DEF q, T
  <2>7. n \div (Base * q) = (n \div q) \div Base
    <3> DEFINE p == n \div q  o == n % q  t == p \div Base  x == p % Base
    <3>1. p \in Nat /\ o \in 0..q - 1 /\ n = p * q + o BY <2>6, DivSplit
    <3> HIDE DEF p, o
    <3>2. t \in Nat /\ x \in 0..Base - 1 /\ p = t * Base + x BY <3>1, BaseIs
    <3> HIDE DEF t, x
    <3> DEFINE y == x * q + o  z == Base * q
    <3>3. n = t * z + y BY <2>6, <3>1, <3>2, BaseIs
    <3>4. y < z /\ y \in Nat /\ z \in Nat
      <4>1. x * q + q <= Base * q
        <5>1. Base = x + 1 + (Base - (x + 1)) /\ Base - (x + 1) \in Nat BY <3>2, BaseIs
        <5>2. Base * q = x * q + q + (Base - (x + 1)) * q BY <2>6, <3>2, <5>1, BaseIs
        <5>3. (Base - (x + 1)) * q \in Nat /\ x * q \in Nat BY <2>6, <3>2, <5>1
        <5>4. QED BY <2>6, <5>2, <5>3
      <4>2. x * q \in Nat /\ Base * q \in Nat BY <2>6, <3>2, BaseIs
      <4>3. QED BY <2>6, <3>1, <4>1, <4>2
    <3> HIDE DEF y, z
    <3>5. n \div z = t BY <3>2, <3>3, <3>4, DivIs
    <3>6. QED BY <3>5 DEF z, t, p
  <2> DEFINE m == n \div q
  <2>8. m \in Nat BY <2>6, DivSplit
  <2>9. v[k] = m \div Base /\ d[k + 1] = m % Base BY <2>4, <2>5, <2>6, <2>7
  <2> HIDE DEF m
  <2>10. m \div Base \in Nat /\ m % Base \in Nat /\ m = (m \div Base) * Base + (m % Base) BY <2>8, BaseIs
  <2>11. Base * (m \div Base) + (m % Base) = m BY <2>10, BaseIs
  <2>12. v[k + 1] = m BY <2>3, <2>9, <2>11
  <2>13. QED BY <2>12 DEF m, q
<1> HIDE DEF T
<1>6. Nat \subseteq T BY <1>4, <1>5, Induct
<1>7. v[w] = n \div Power[0]
  <2>1. w \in T /\ w <= w /\ w - w = 0 BY <1>6
  <2>2. QED BY <2>1 DEF T
<1>8. n \div 1 = n
  <2>1. n = n * 1 + 0 OBVIOUS
  <2>2. QED BY <2>1, DivIs
<1>9. QED BY <1>2, <1>3, <1>7, <1>8, PowerIs DEF d

LEMMA WidthIs ==
  ASSUME NEW n \in Nat
  PROVE  Width(n) \in Nat \ {0} /\ n < Power[Width(n)] /\ (Width(n) = 1 \/ n >= Power[Width(n) - 1])
<1> DEFINE Holds(w) == n < Power[w] /\ (w = 1 \/ n >= Power[w - 1])
           Enough == {w \in Nat \ {0} : n < Power[w]}
<1>1. n < Power[n]
  <2> DEFINE T == {k \in Nat : k < Power[k]}
  <2>1. 0 \in T BY PowerIs
  <2>2. ASSUME NEW k \in Nat, k \in T PROVE k + 1 \in T
    <3>1. k < Power[k] /\ Power[k] \in Nat /\ Power[k + 1] \in Nat /\ Power[k] < Power[k + 1]
      BY <2>2, PowerIs, PowerGrows
    <3>2. QED BY <3>1
  <2> HIDE DEF T
  <2>3. Nat \subseteq T BY <2>1, <2>2, Induct
  <2>4. QED BY <2>3 DEF T
<1>2. n < Power[n + 1]
  <2>1. n + 1 \in Nat /\ n <= n + 1 /\ Power[n] \in Nat /\ Power[n + 1] \in Nat BY PowerIs
  <2>2. Power[n] <= Power[n + 1] BY <2>1, PowerGrows
  <2>3. QED BY <1>1, <2>1, <2>2
<1>3. PICK w \in Enough : \A x \in Enough : w <= x
  <2>1. n + 1 \in Enough /\ Enough \in SUBSET Nat BY <1>2
  <2> HIDE DEF Enough
  <2>2. QED BY <2>1, LeastExists
<1>4. w \in 1..n + 1 /\ Holds(w)
  <2>1. n + 1 \in Enough BY <1>2
  <2>2. w \in Nat \ {0} /\ w <= n + 1 /\ n < Power[w] BY <1>3, <2>1
  <2>3. ASSUME w # 1 PROVE n >= Power[w - 1]
    <3>1. w - 1 \in Nat \ {0} /\ ~(w <= w - 1) BY <2>2, <2>3
    <3>2. w - 1 \notin Enough BY <1>3, <3>1
    <3>3. Power[w - 1] \in Nat BY <3>1, PowerIs
    <3>4. QED BY <3>1, <3>2, <3>3
  <2>4. QED BY <2>2, <2>3
<1>5. Width(n) = CHOOSE x \in 1..n + 1 : Holds(x) BY DEF Width
<1>6. Width(n) \in 1..n + 1 /\ Holds(Width(n))
  <2> HIDE DEF Holds
  <2>1. QED BY <1>4, <1>5
<1>7. QED BY <1>6

(* A number has no more digits than the place it is below. *)
LEMMA WidthLeast ==
  ASSUME NEW n \in Nat, NEW w \in Nat \ {0}, n < Power[w]
  PROVE  Width(n) <= w
<1>1. Width(n) \in Nat \ {0} /\ (Width(n) = 1 \/ n >= Power[Width(n) - 1]) BY WidthIs
<1>2. SUFFICES ASSUME w < Width(n) PROVE FALSE BY <1>1
<1>3. w <= Width(n) - 1 /\ Width(n) - 1 \in Nat BY <1>1, <1>2
<1>4. Power[w] <= Power[Width(n) - 1] /\ Power[w] \in Nat /\ Power[Width(n) - 1] \in Nat BY <1>3, PowerGrows, PowerIs
<1>5. QED BY <1>1, <1>2, <1>4

LEMMA PrintedIsPadded ==
  ASSUME NEW n \in Nat, NEW w \in Nat \ {0}, n < Power[w]
  PROVE  Printed(n, w) = Padded(n, w)
<1>1. Width(n) <= w /\ Width(n) \in Nat BY WidthLeast, WidthIs
<1>2. (IF w > Width(n) THEN w ELSE Width(n)) = w BY <1>1
<1>3. QED BY <1>2 DEF Printed

(***************************************************************************)
(* The order is one.                                                       *)
(***************************************************************************)

IsName(x) == x \in NodeName /\ atoi(x.digits) \in 0..IntMax /\ (x.digits = <<>> => x.domain = 0)

(* An index before one of n is one of n, and is less. *)
LEMMA EarlierIs ==
  ASSUME NEW n \in Nat, NEW k \in 1..n, NEW j \in 1..k - 1
  PROVE  j \in 1..n /\ ~(k <= j)
OBVIOUS

LEMMA NameIs ==
  ASSUME NEW x, IsName(x)
  PROVE  /\ x.prefix \in Nat /\ x.domain \in Nat /\ x.digits \in Seq(Int) /\ Len(x.digits) \in Nat
         /\ x = [prefix |-> x.prefix, digits |-> x.digits, domain |-> x.domain]
         /\ \A k \in 1..Len(x.digits) : x.digits[k] \in Int
BY BaseAssumption DEF IsName, NodeName, Digit, BaseAssumption

LEMMA PartsAre ==
  ASSUME NEW x, IsName(x)
  PROVE  LET a == node_to_parts(x)
         IN /\ a.prefix \in Nat /\ a.domain \in Nat /\ a.num \in 0..IntMax /\ a.full_name = x
            /\ a.num_str = x.digits
            /\ x.digits = <<>> => a.prefix = 0 /\ a.domain = 0 /\ a.num = 0
            /\ x.digits # <<>> => a.prefix = x.prefix /\ a.domain = x.domain
<1>1. x.prefix \in Nat /\ x.domain \in Nat BY NameIs
<1>2. IntMax \in Nat /\ atoi(x.digits) \in 0..IntMax BY IntMaxAssumption DEF IntMaxAssumption, IsName
<1>3. QED BY <1>1, <1>2 DEF node_to_parts

LEMMA LastIrreflexive == ASSUME NEW x, IsName(x) PROVE ~FullNameBefore(x, x)
BY NameIs DEF FullNameBefore

LEMMA LastTransitive ==
  ASSUME NEW x, NEW y, NEW z, IsName(x), IsName(y), IsName(z), FullNameBefore(x, y), FullNameBefore(y, z)
  PROVE  FullNameBefore(x, z)
<1> DEFINE From(a, b, k) == /\ \A j \in 1..k - 1 : j <= Len(a.digits) /\ a.digits[j] = b.digits[j]
                            /\ k > Len(a.digits) \/ a.digits[k] < b.digits[k]
<1>1. CASE y.digits = <<>>
  <2>1. z.digits = <<>> /\ y.prefix < z.prefix BY <1>1 DEF FullNameBefore
  <2>2. CASE x.digits # <<>> BY <2>1, <2>2 DEF FullNameBefore
  <2>3. CASE x.digits = <<>>
    <3>1. x.prefix < y.prefix BY <2>3 DEF FullNameBefore
    <3>2. x.prefix < z.prefix BY <2>1, <3>1, NameIs
    <3>3. QED BY <2>1, <2>3, <3>2 DEF FullNameBefore
  <2>4. QED BY <2>2, <2>3
<1>2. CASE y.digits # <<>>
  <2>1. x.digits # <<>> /\ \E k \in 1..Len(y.digits) : From(x, y, k) BY <1>2 DEF FullNameBefore
  <2>2. CASE z.digits = <<>> BY <2>1, <2>2 DEF FullNameBefore
  <2>3. CASE z.digits # <<>>
    <3>1. PICK k \in 1..Len(y.digits) : From(x, y, k) BY <2>1
    <3>2. PICK m \in 1..Len(z.digits) : From(y, z, m) BY <1>2, <2>3 DEF FullNameBefore
    <3>3. /\ Len(x.digits) \in Nat /\ Len(y.digits) \in Nat /\ Len(z.digits) \in Nat
          /\ \A j \in 1..Len(x.digits) : x.digits[j] \in Int
          /\ \A j \in 1..Len(y.digits) : y.digits[j] \in Int
          /\ \A j \in 1..Len(z.digits) : z.digits[j] \in Int
      BY NameIs
    <3>4. CASE k <= m
      <4>1. k \in 1..Len(z.digits) BY <3>3, <3>4
      <4>2. \A j \in 1..k - 1 : j <= Len(x.digits) /\ x.digits[j] = z.digits[j] BY <3>1, <3>2, <3>3, <3>4
      <4>3. k > Len(x.digits) \/ x.digits[k] < z.digits[k]
        <5>1. SUFFICES ASSUME k <= Len(x.digits) PROVE x.digits[k] < z.digits[k] BY <3>3
        <5>2. x.digits[k] < y.digits[k] BY <3>1, <3>3, <5>1
        <5>3. y.digits[k] <= z.digits[k]
          <6>1. CASE k < m BY <3>2, <3>3, <4>1, <6>1
          <6>2. CASE k = m BY <3>2, <3>3, <4>1, <6>2
          <6>3. QED BY <3>3, <3>4, <6>1, <6>2
        <5>4. QED BY <3>3, <4>1, <5>1, <5>2, <5>3
      <4>4. QED BY <2>1, <4>1, <4>2, <4>3 DEF FullNameBefore
    <3>5. CASE m < k
      <4>1. \A j \in 1..m - 1 : j <= Len(x.digits) /\ x.digits[j] = z.digits[j] BY <3>1, <3>2, <3>3, <3>5
      <4>2. m > Len(x.digits) \/ x.digits[m] < z.digits[m] BY <3>1, <3>2, <3>3, <3>5
      <4>3. QED BY <2>1, <4>1, <4>2 DEF FullNameBefore
    <3>6. QED BY <3>3, <3>4, <3>5
  <2>4. QED BY <2>2, <2>3
<1>3. QED BY <1>1, <1>2

LEMMA LastTotal ==
  ASSUME NEW x, NEW y, IsName(x), IsName(y), x # y,
         x.digits # <<>> /\ y.digits # <<>> => x.prefix = y.prefix /\ x.domain = y.domain
  PROVE  FullNameBefore(x, y) \/ FullNameBefore(y, x)
<1>1. /\ x.prefix \in Nat /\ y.prefix \in Nat /\ Len(x.digits) \in Nat /\ Len(y.digits) \in Nat
      /\ x.digits \in Seq(Int) /\ y.digits \in Seq(Int)
      /\ x = [prefix |-> x.prefix, digits |-> x.digits, domain |-> x.domain]
      /\ y = [prefix |-> y.prefix, digits |-> y.digits, domain |-> y.domain]
      /\ x.digits = <<>> => x.domain = 0
      /\ y.digits = <<>> => y.domain = 0
  BY NameIs DEF IsName
<1>2. CASE x.digits = <<>> /\ y.digits = <<>>
  <2>1. x.prefix # y.prefix BY <1>1, <1>2
  <2>2. QED BY <1>1, <1>2, <2>1 DEF FullNameBefore
<1>3. CASE (x.digits = <<>>) # (y.digits = <<>>) BY <1>3 DEF FullNameBefore
<1>4. CASE x.digits # <<>> /\ y.digits # <<>>
  <2> DEFINE a == x.digits
             b == y.digits
             D == {k \in 1..Len(b) : k > Len(a) \/ a[k] # b[k]}
  <2>1. a # b BY <1>1, <1>4
  <2>2. CASE D = {}
    <3>1. \A k \in 1..Len(b) : k <= Len(a) /\ a[k] = b[k] BY <1>1, <2>2
    <3>2. Len(b) < Len(a)
      <4>1. Len(b) <= Len(a)
        <5>1. Len(b) \in Nat \ {0} BY <1>1, <1>4, EmptySeq
        <5>2. Len(b) \in 1..Len(b) BY <5>1
        <5>3. QED BY <3>1, <5>2
      <4>2. ASSUME Len(b) = Len(a) PROVE a = b
        <5>1. a \in [1..Len(a) -> Int] /\ b \in [1..Len(a) -> Int] BY <1>1, <4>2, LenProperties
        <5>2. \A k \in 1..Len(a) : a[k] = b[k] BY <3>1, <4>2
        <5>3. QED BY <5>1, <5>2
      <4>3. QED BY <1>1, <2>1, <4>1, <4>2
    <3>3. Len(b) + 1 \in 1..Len(a) /\ Len(b) + 1 > Len(b) /\ (Len(b) + 1) - 1 = Len(b) BY <1>1, <3>2
    <3>4. QED BY <1>4, <3>1, <3>3 DEF FullNameBefore
  <2>3. CASE D # {}
    <3>1. D \in SUBSET Nat OBVIOUS
    <3>2. PICK k \in D : \A n \in D : k <= n BY <2>3, <3>1, LeastExists
    <3>3. ASSUME NEW j \in 1..k - 1 PROVE j <= Len(a) /\ j <= Len(b) /\ a[j] = b[j]
      <4>0. Len(b) \in Nat /\ k \in 1..Len(b) BY <1>1
      <4>1. j \in 1..Len(b) /\ ~(k <= j)
        <5> HIDE DEF b, D
        <5>1. QED BY <4>0, EarlierIs
      <4>2. j \notin D BY <3>2, <4>1
      <4>3. QED BY <1>1, <4>1, <4>2
    <3>4. CASE k > Len(a) BY <1>4, <3>2, <3>3, <3>4 DEF FullNameBefore
    <3>5. CASE k <= Len(a)
      <4>1. k \in 1..Len(a) /\ k \in 1..Len(b) /\ a[k] # b[k] BY <1>1, <3>2, <3>5
      <4>2. a[k] \in Int /\ b[k] \in Int BY <1>1, <4>1
      <4>3. CASE a[k] < b[k] BY <1>4, <3>3, <4>1, <4>3 DEF FullNameBefore
      <4>4. CASE b[k] < a[k] BY <1>4, <3>3, <4>1, <4>4 DEF FullNameBefore
      <4>5. QED BY <4>1, <4>2, <4>3, <4>4
    <3>6. QED BY <1>1, <3>2, <3>4, <3>5
  <2>4. QED BY <2>2, <2>3
<1>5. QED BY <1>2, <1>3, <1>4

(* compare_parts tells any two names apart, and in one order. *)
LEMMA CompareIs ==
  ASSUME NEW S, \A x \in S : IsName(x)
  PROVE  /\ \A x \in S : ~compare_parts(x, x)
         /\ \A x, y, z \in S : compare_parts(x, y) /\ compare_parts(y, z) => compare_parts(x, z)
         /\ \A x, y \in S : x # y => compare_parts(x, y) \/ compare_parts(y, x)
<1> DEFINE P(x) == node_to_parts(x)
<1>1. \A x \in S : P(x).prefix \in Nat /\ P(x).domain \in Nat /\ P(x).num \in Int BY PartsAre
<1>2. \A x, y \in S : x.digits # <<>> /\ y.digits # <<>> /\ P(x).prefix = P(y).prefix /\ P(x).domain = P(y).domain
                        => x.prefix = y.prefix /\ x.domain = y.domain
  BY PartsAre
<1> HIDE DEF P
<1>3. \A x, y \in S : compare_parts(x, y) <=>
        \/ P(x).prefix < P(y).prefix
        \/ P(x).prefix = P(y).prefix /\ P(x).domain < P(y).domain
        \/ P(x).prefix = P(y).prefix /\ P(x).domain = P(y).domain /\ P(x).num < P(y).num
        \/ P(x).prefix = P(y).prefix /\ P(x).domain = P(y).domain /\ P(x).num = P(y).num /\ FullNameBefore(x, y)
  BY DEF compare_parts, P
<1>4. ASSUME NEW x \in S PROVE ~compare_parts(x, x) BY <1>1, <1>3, LastIrreflexive
<1>5. ASSUME NEW x \in S, NEW y \in S, NEW z \in S, compare_parts(x, y), compare_parts(y, z)
      PROVE  compare_parts(x, z)
  <2>1. FullNameBefore(x, y) /\ FullNameBefore(y, z) => FullNameBefore(x, z) BY LastTransitive
  <2>2. QED BY <1>1, <1>3, <1>5, <2>1
<1>6. ASSUME NEW x \in S, NEW y \in S, x # y PROVE compare_parts(x, y) \/ compare_parts(y, x)
  <2>1. P(x).prefix = P(y).prefix /\ P(x).domain = P(y).domain => FullNameBefore(x, y) \/ FullNameBefore(y, x)
    BY <1>2, <1>6, LastTotal
  <2>2. QED BY <1>1, <1>3, <2>1
<1>7. QED BY <1>4, <1>5, <1>6

(***************************************************************************)
(* So each name has its place: as many names stand before it as its rank   *)
(* says, no two have one rank, and no rank is missing.                     *)
(***************************************************************************)
LEMMA SortIs ==
  ASSUME NEW S, IsFiniteSet(S), \A x \in S : IsName(x)
  PROVE  /\ Cardinality(S) \in Nat
         /\ do_range_sort(S) \in [1..Cardinality(S) -> S]
         /\ \A x \in S : \E k \in 1..Cardinality(S) : do_range_sort(S)[k] = x
         /\ \A k, m \in 1..Cardinality(S) : k < m => compare_parts(do_range_sort(S)[k], do_range_sort(S)[m])
<1> DEFINE n == Cardinality(S)
           Under(x) == {y \in S : compare_parts(y, x)}
           rank == [x \in S |-> Cardinality(Under(x))]
<1>1. /\ \A x \in S : ~compare_parts(x, x)
      /\ \A x, y, z \in S : compare_parts(x, y) /\ compare_parts(y, z) => compare_parts(x, z)
      /\ \A x, y \in S : x # y => compare_parts(x, y) \/ compare_parts(y, x)
  BY CompareIs
<1>2. n \in Nat BY FS_CardinalityType
<1>3. ASSUME NEW x \in S PROVE IsFiniteSet(Under(x)) /\ rank[x] \in 0..n - 1
  <2>1. IsFiniteSet(S \ {x}) /\ Cardinality(S \ {x}) = n - 1 BY FS_RemoveElement
  <2>2. Under(x) \in SUBSET (S \ {x}) BY <1>1
  <2>3. IsFiniteSet(Under(x)) /\ Cardinality(Under(x)) <= n - 1 BY <2>1, <2>2, FS_Subset
  <2>4. Cardinality(Under(x)) \in Nat BY <2>3, FS_CardinalityType
  <2>5. QED BY <1>2, <2>3, <2>4
<1>4. ASSUME NEW x \in S, NEW y \in S, compare_parts(x, y) PROVE rank[x] < rank[y]
  <2>1. x \notin Under(x) /\ Under(x) \union {x} \in SUBSET Under(y) BY <1>1, <1>4
  <2>2. IsFiniteSet(Under(x)) /\ IsFiniteSet(Under(y)) BY <1>3
  <2>3. Cardinality(Under(x) \union {x}) = Cardinality(Under(x)) + 1 BY <2>1, <2>2, FS_AddElement
  <2>4. Cardinality(Under(x) \union {x}) <= Cardinality(Under(y)) BY <2>1, <2>2, FS_Subset
  <2>5. Cardinality(Under(x)) \in Nat /\ Cardinality(Under(y)) \in Nat BY <2>2, FS_CardinalityType
  <2>6. Cardinality(Under(x)) < Cardinality(Under(y)) BY <2>3, <2>4, <2>5
  <2>7. QED BY <2>6
<1> HIDE DEF Under
<1>5. ASSUME NEW x \in S, NEW y \in S, rank[x] = rank[y] PROVE x = y
  <2>1. rank[x] \in Int /\ rank[y] \in Int BY <1>3
  <2> HIDE DEF rank
  <2>2. QED BY <1>1, <1>4, <1>5, <2>1
<1>6. rank \in [S -> 0..n - 1]
  <2>1. \A x \in S : Cardinality(Under(x)) \in 0..n - 1 BY <1>3
  <2>2. QED BY <2>1
<1>7. rank \in Injection(S, 0..n - 1)
  <2>1. IsInjective(rank) BY <1>5 DEF IsInjective
  <2>2. QED BY <1>6, <2>1 DEF Injection
<1>8. IsFiniteSet(0..n - 1) /\ Cardinality(0..n - 1) = n
  <2>1. 0 \in Int /\ n - 1 \in Int BY <1>2
  <2>2. IsFiniteSet(0..n - 1) /\ Cardinality(0..n - 1) = IF 0 > n - 1 THEN 0 ELSE n - 1 - 0 + 1
    BY <2>1, FS_Interval
  <2>3. QED BY <1>2, <2>2
<1>9. rank \in Surjection(S, 0..n - 1) BY <1>7, <1>8, FS_Injection
<1>10. ASSUME NEW k \in 1..n PROVE \E x \in S : rank[x] = k - 1
  <2>1. k - 1 \in 0..n - 1 BY <1>2
  <2>2. QED BY <1>9, <2>1 DEF Surjection
<1>11. ASSUME NEW k \in 1..n PROVE do_range_sort(S)[k] \in S /\ rank[do_range_sort(S)[k]] = k - 1
  <2>1. \E x \in S : Cardinality(Under(x)) = k - 1 BY <1>10
  <2>2. do_range_sort(S)[k] = CHOOSE x \in S : Cardinality(Under(x)) = k - 1 BY DEF do_range_sort, Under
  <2>3. QED BY <2>1, <2>2
<1>12. do_range_sort(S) \in [1..n -> S]
  <2> DEFINE named(k) == CHOOSE x \in S : Cardinality({y \in S : compare_parts(y, x)}) = k - 1
  <2>1. do_range_sort(S) = [k \in 1..n |-> named(k)] BY DEF do_range_sort
  <2> HIDE DEF named
  <2>2. QED BY <1>11, <2>1
<1>13. ASSUME NEW x \in S PROVE \E k \in 1..n : do_range_sort(S)[k] = x
  <2>1. rank[x] \in 0..n - 1 BY <1>3
  <2>2. rank[x] + 1 \in 1..n /\ (rank[x] + 1) - 1 = rank[x] BY <1>2, <2>1
  <2> HIDE DEF rank
  <2>3. do_range_sort(S)[rank[x] + 1] = x BY <1>5, <1>11, <2>2
  <2>4. QED BY <2>2, <2>3
<1>14. ASSUME NEW k \in 1..n, NEW m \in 1..n, k < m
       PROVE  compare_parts(do_range_sort(S)[k], do_range_sort(S)[m])
  <2> DEFINE x == do_range_sort(S)[k]
             y == do_range_sort(S)[m]
  <2>1. x \in S /\ y \in S /\ rank[x] = k - 1 /\ rank[y] = m - 1 BY <1>11
  <2> HIDE DEF x, y, rank
  <2>2. k - 1 < m - 1 /\ ~(m - 1 < k - 1) /\ k - 1 # m - 1 BY <1>2, <1>14
  <2>3. x # y /\ ~compare_parts(y, x) BY <1>4, <2>1, <2>2
  <2>4. QED BY <1>1, <2>1, <2>3 DEF x, y
<1>15. QED BY <1>2, <1>12, <1>13, <1>14

(***************************************************************************)
(* The loop.                                                               *)
(***************************************************************************)
IInv ==
  /\ nodes \in Asked \union {{}} /\ sorted \in [1..Cardinality(nodes) -> nodes] /\ Cardinality(nodes) \in Nat
  /\ i \in 1..Cardinality(nodes) + 1
  /\ IF i = 1 THEN prev = init_prev_parts ELSE prev \in PartsOf
  /\ count \in 0..i - 1 /\ prev.num + count <= IntMax
  /\ prev_num_str_len \in Nat \union {-1}
  /\ groups \in Seq([parts : PartsOf, count : 0..Cardinality(nodes)])
  /\ pc \in {"idle", "loop", "returned"} /\ warned \in BOOLEAN
  /\ pc = "loop" => nodes # {}
  /\ pc = "idle" => nodes = {} /\ i = 1 /\ groups = <<>>
  /\ SlotsSuffice

LEMMA NodesAre ==
  ASSUME IInv
  PROVE  /\ IsFiniteSet(nodes) /\ (\A x \in nodes : IsName(x)) /\ Len(sorted) = Cardinality(nodes)
         /\ sorted \in Seq(nodes)
<1>1. IsFiniteSet(nodes) BY AskedAssumption, FS_EmptySet DEF IInv, AskedAssumption
<1>2. \A x \in nodes : IsName(x) BY AskedAssumption DEF IInv, AskedAssumption, IsName
<1>3. sorted \in Seq(nodes)
  <2>1. \A S, n : n \in Nat => [1..n -> S] \subseteq Seq(S) OBVIOUS
  <2>2. QED BY <2>1 DEF IInv
<1>4. DOMAIN sorted = 1..Cardinality(nodes) /\ DOMAIN sorted = 1..Len(sorted) /\ Len(sorted) \in Nat
  BY <1>3, LenProperties DEF IInv
<1>5. Len(sorted) = Cardinality(nodes) BY <1>4 DEF IInv
<1>6. QED BY <1>1, <1>2, <1>3, <1>5

LEMMA InitialParts ==
  /\ init_prev_parts.num = -2 /\ init_prev_parts.full_name = EmptyName
BY DEF init_prev_parts, node_to_parts, EmptyName

LEMMA PrevIs ==
  ASSUME IInv
  PROVE  /\ prev.num \in Int /\ -2 <= prev.num
         /\ i > 1 => prev.num \in 0..IntMax
         /\ i = 1 => prev.num = -2 /\ count = 0 /\ prev.full_name = EmptyName
<1>1. IntMax \in Nat BY IntMaxAssumption DEF IntMaxAssumption
<1>2. CASE i = 1 BY <1>2, InitialParts DEF IInv
<1>3. CASE i # 1
  <2>1. PICK x \in nodes : prev = node_to_parts(x) BY <1>3 DEF IInv, PartsOf
  <2>2. prev.num \in 0..IntMax BY <2>1, NodesAre, PartsAre
  <2>3. QED BY <1>1, <1>3, <2>2
<1>4. i \in Nat BY DEF IInv
<1>5. QED BY <1>2, <1>3, <1>4

(* What the loop looks at. *)
LEMMA PartsIs ==
  ASSUME IInv, Looking
  PROVE  /\ Parts \in PartsOf /\ Parts.num \in 0..IntMax /\ i \in 1..Cardinality(nodes)
         /\ Parts.num_str = sorted[i].digits /\ (Parts.num_str = <<>> => Parts.num = 0)
         /\ Parts.num_str \in Seq(Int)
<1>1. i \in 1..Cardinality(nodes) BY NodesAre DEF IInv, Looking
<1>2. sorted[i] \in nodes BY <1>1 DEF IInv
<1>3. IsName(sorted[i]) BY <1>2, NodesAre
<1>4. QED BY <1>1, <1>2, <1>3, PartsAre, NameIs DEF Parts, PartsOf

(* A number that follows is the next one, and fits an int: the sum never   *)
(* wraps around to it.                                                     *)
LEMMA FollowsIs ==
  ASSUME IInv, Looking, Follows
  PROVE  Parts.num = prev.num + count + 1 /\ i > 1
<1>1. IntMax \in Nat BY IntMaxAssumption DEF IntMaxAssumption
<1>2. prev.num \in Int /\ count \in Int /\ prev.num + count <= IntMax BY PrevIs DEF IInv
<1>3. Parts.num \in 0..IntMax /\ i \in Nat /\ i >= 1 BY PartsIs
<1>4. Parts.num = Wrap(prev.num + count + 1) BY DEF Follows
<1>5. Parts.num = prev.num + count + 1 BY <1>1, <1>2, <1>3, <1>4 DEF Wrap
<1>6. i # 1 BY <1>3, <1>5, PrevIs
<1>7. QED BY <1>3, <1>5, <1>6

LEMMA ClosedIs ==
  ASSUME IInv
  PROVE  /\ Closed \in Seq([parts : PartsOf, count : 0..Cardinality(nodes)])
         /\ Closed = groups \/ Len(Closed) = Len(groups) + 1
         /\ i > 1 => Append(groups, Group(prev, count)) \in Seq([parts : PartsOf, count : 0..Cardinality(nodes)])
         /\ Len(Append(groups, Group(prev, count))) = Len(groups) + 1
<1>1. groups \in Seq([parts : PartsOf, count : 0..Cardinality(nodes)]) BY DEF IInv
<1>2. i > 1 => Group(prev, count) \in [parts : PartsOf, count : 0..Cardinality(nodes)] BY DEF IInv, Group
<1>3. i = 1 \/ i > 1 BY DEF IInv
<1>4. i = 1 => Closed = groups BY PrevIs DEF Closed
<1>5. Len(Append(groups, Group(prev, count))) = Len(groups) + 1
  <2>1. \A S, e : groups \in Seq(S) => Len(Append(groups, e)) = Len(groups) + 1 OBVIOUS
  <2>2. QED BY <1>1, <2>1
<1>6. i > 1 => Append(groups, Group(prev, count)) \in Seq([parts : PartsOf, count : 0..Cardinality(nodes)])
  BY <1>1, <1>2, AppendProperties
<1>7. QED BY <1>1, <1>3, <1>4, <1>5, <1>6 DEF Closed

LEMMA Initially == Init => IInv
<1>1. SUFFICES ASSUME Init PROVE IInv OBVIOUS
<1>2. Cardinality({}) = 0 /\ <<>> \in [1..0 -> {}] BY FS_EmptySet
<1>3. MAX_NUM_GROUPS \in Nat \ {0} /\ IntMax \in Nat \ {0}
  BY MaxAssumption, IntMaxAssumption DEF MaxAssumption, IntMaxAssumption
<1>4. groups \in Seq([parts : PartsOf, count : 0..Cardinality(nodes)]) /\ Len(groups) = 0 BY <1>1 DEF Init
<1>5. nodes \in Asked \union {{}} /\ sorted \in [1..Cardinality(nodes) -> nodes] /\ Cardinality(nodes) \in Nat
  BY <1>1, <1>2 DEF Init
<1>6. SlotsSuffice BY <1>1, <1>3, <1>4 DEF Init, SlotsSuffice
<1>7. i = 1 /\ prev = init_prev_parts /\ count = 0 /\ prev_num_str_len = -1 /\ pc = "idle" /\ warned = FALSE
        /\ nodes = {} /\ groups = <<>>
  BY <1>1 DEF Init
<1>8. i \in 1..Cardinality(nodes) + 1 /\ count \in 0..i - 1 /\ prev.num + count <= IntMax
  BY <1>3, <1>5, <1>7, InitialParts
<1>9. QED BY <1>4, <1>5, <1>6, <1>7, <1>8 DEF IInv

LEMMA CallKeeps ==
  ASSUME IInv, NEW S \in Asked, do_range_compress(S)
  PROVE  IInv'
<1>1. /\ nodes' = S /\ sorted' = do_range_sort(S) /\ pc' = (IF S = {} THEN "returned" ELSE "loop")
      /\ UNCHANGED <<i, prev, count, prev_num_str_len, groups, warned>>
      /\ i = 1 /\ groups = <<>> /\ prev = init_prev_parts /\ count = 0
  BY DEF do_range_compress, loop, IInv
<1>2. IsFiniteSet(S) /\ \A x \in S : IsName(x) BY AskedAssumption DEF AskedAssumption, IsName
<1>3. Cardinality(S) \in Nat /\ do_range_sort(S) \in [1..Cardinality(S) -> S] BY <1>2, SortIs
<1>4. nodes' \in Asked \union {{}} /\ Cardinality(nodes') \in Nat /\ sorted' \in [1..Cardinality(nodes') -> nodes']
  BY <1>1, <1>3
<1>5. i' \in 1..Cardinality(nodes') + 1 /\ count' \in 0..i' - 1 BY <1>1, <1>3
<1>6. groups' \in Seq([parts : PartsOf', count : 0..Cardinality(nodes')]) /\ Len(groups') = 0 BY <1>1
<1>7. MAX_NUM_GROUPS \in Nat \ {0} BY MaxAssumption DEF MaxAssumption
<1>8. SlotsSuffice' BY <1>6, <1>7 DEF SlotsSuffice
<1>9. prev_num_str_len' \in Nat \union {-1} /\ warned' \in BOOLEAN /\ prev'.num + count' <= IntMax BY <1>1 DEF IInv
<1>10. QED BY <1>1, <1>4, <1>5, <1>6, <1>8, <1>9 DEF IInv

LEMMA JoinKeeps ==
  ASSUME IInv, Join
  PROVE  IInv'
<1>1. Looking /\ Follows BY DEF Join
<1>2. /\ count' = count + 1 /\ i' = i + 1
      /\ UNCHANGED <<nodes, sorted, prev, prev_num_str_len, groups, pc, warned>>
  BY DEF Join
<1>3. Parts.num = prev.num + count + 1 /\ i > 1 /\ Parts.num \in 0..IntMax /\ i \in 1..Cardinality(nodes)
  BY <1>1, FollowsIs, PartsIs
<1>4. /\ i' \in 1..Cardinality(nodes') + 1 /\ count' \in 0..i' - 1 /\ i' # 1
  BY <1>2, <1>3 DEF IInv
<1>5. prev'.num + count' <= IntMax
  <2>1. prev.num \in Int /\ count \in Int /\ IntMax \in Int
    BY PrevIs, IntMaxAssumption DEF IInv, IntMaxAssumption
  <2>2. QED BY <1>2, <1>3, <2>1
<1>6. i # 1 BY <1>3
<1>7. prev' \in PartsOf' /\ groups' \in Seq([parts : PartsOf', count : 0..Cardinality(nodes')])
  BY <1>2, <1>6 DEF IInv, PartsOf
<1>8. SlotsSuffice' BY <1>2 DEF IInv, SlotsSuffice
<1>9. pc' = "loop" /\ nodes' # {} BY <1>1, <1>2 DEF Looking, IInv
<1>10. QED BY <1>2, <1>4, <1>5, <1>7, <1>8, <1>9 DEF IInv

LEMMA StartKeeps ==
  ASSUME IInv, StartGroup
  PROVE  IInv'
<1>1. Looking /\ ~Full BY DEF StartGroup, Starts
<1>2. /\ groups' = Closed /\ prev' = Parts /\ count' = 0 /\ i' = i + 1
      /\ prev_num_str_len' = (IF Parts.num_str = <<>> THEN prev_num_str_len ELSE Len(Parts.num_str))
      /\ UNCHANGED <<nodes, sorted, pc, warned>>
  BY DEF StartGroup
<1>3. /\ Parts \in PartsOf /\ Parts.num \in 0..IntMax /\ i \in 1..Cardinality(nodes)
      /\ Parts.num_str \in Seq(Int)
  BY <1>1, PartsIs
<1>4. i' \in 1..Cardinality(nodes') + 1 /\ count' \in 0..i' - 1 /\ i' # 1 BY <1>2, <1>3 DEF IInv
<1>5. prev' \in PartsOf' /\ prev'.num + count' <= IntMax
  <2>1. IntMax \in Int BY IntMaxAssumption DEF IntMaxAssumption
  <2>2. QED BY <1>2, <1>3, <2>1 DEF PartsOf
<1>6. prev_num_str_len' \in Nat \union {-1}
  <2>1. Len(Parts.num_str) \in Nat BY <1>3
  <2>2. QED BY <1>2, <2>1 DEF IInv
<1>7. groups' \in Seq([parts : PartsOf', count : 0..Cardinality(nodes')]) BY <1>2, ClosedIs DEF PartsOf
<1>8. SlotsSuffice'
  <2>1. Len(groups) \in Nat /\ Len(groups) < MAX_NUM_GROUPS BY <1>1 DEF IInv, SlotsSuffice, Looking
  <2>2. MAX_NUM_GROUPS \in Nat BY MaxAssumption DEF MaxAssumption
  <2>3. Closed = groups \/ (Len(Closed) = Len(groups) + 1 /\ Len(Closed) # MAX_NUM_GROUPS)
    BY <1>1, ClosedIs DEF Full
  <2>4. QED BY <1>2, <2>1, <2>2, <2>3 DEF SlotsSuffice
<1>9. pc' = "loop" /\ nodes' # {} BY <1>1, <1>2 DEF Looking, IInv
<1>10. QED BY <1>2, <1>4, <1>5, <1>6, <1>7, <1>8, <1>9 DEF IInv

LEMMA EndKeeps ==
  ASSUME IInv, TooManyGroups \/ Finish
  PROVE  IInv'
<1>1. /\ pc = "loop" /\ pc' = "returned" /\ warned' \in BOOLEAN
      /\ UNCHANGED <<nodes, sorted, i, prev, count, prev_num_str_len>>
  BY DEF TooManyGroups, Starts, Looking, Finish, loop, IInv
<1>2. MAX_NUM_GROUPS \in Nat \ {0} BY MaxAssumption DEF MaxAssumption
<1>3. Len(groups) \in Nat /\ Len(groups) < MAX_NUM_GROUPS BY <1>1 DEF IInv, SlotsSuffice
<1>4. /\ groups' \in Seq([parts : PartsOf, count : 0..Cardinality(nodes)])
      /\ Len(groups') <= MAX_NUM_GROUPS
  <2>1. CASE TooManyGroups
    <3>1. groups' = <<>> /\ Len(<<>>) = 0 BY <2>1 DEF TooManyGroups
    <3>2. QED BY <1>2, <3>1
  <2>2. CASE Finish
    <3>1. i > Len(sorted) /\ groups' = Append(groups, Group(prev, count)) BY <2>2 DEF Finish
    <3>2. nodes # {} /\ IsFiniteSet(nodes) /\ Len(sorted) = Cardinality(nodes) /\ Cardinality(nodes) \in Nat
      BY <1>1, NodesAre DEF IInv
    <3>3. Cardinality(nodes) # 0 BY <3>2, FS_EmptySet
    <3>4. i \in Nat BY DEF IInv
    <3>5. i > 1 BY <3>1, <3>2, <3>3, <3>4
    <3>6. QED BY <1>2, <1>3, <3>1, <3>5, ClosedIs
  <2>3. QED BY <2>1, <2>2
<1>5. groups' \in Seq([parts : PartsOf', count : 0..Cardinality(nodes')]) BY <1>1, <1>4 DEF PartsOf
<1>6. SlotsSuffice' BY <1>1, <1>4 DEF SlotsSuffice
<1>7. IF i' = 1 THEN prev' = init_prev_parts ELSE prev' \in PartsOf' BY <1>1 DEF IInv, PartsOf
<1>8. QED BY <1>1, <1>5, <1>6, <1>7 DEF IInv

LEMMA ReturnKeeps ==
  ASSUME Return
  PROVE  IInv'
<1>1. Cardinality({}) = 0 /\ <<>> \in [1..0 -> {}] BY FS_EmptySet
<1>2. MAX_NUM_GROUPS \in Nat \ {0} /\ IntMax \in Nat \ {0}
  BY MaxAssumption, IntMaxAssumption DEF MaxAssumption, IntMaxAssumption
<1>3. /\ nodes' = {} /\ sorted' = <<>> /\ i' = 1 /\ prev' = init_prev_parts /\ count' = 0
      /\ prev_num_str_len' = -1 /\ groups' = <<>> /\ pc' = "idle" /\ warned' = FALSE
  BY DEF Return
<1>4. groups' \in Seq([parts : PartsOf', count : 0..Cardinality(nodes')]) /\ Len(groups') = 0 BY <1>3
<1>5. Cardinality(nodes') = 0 /\ sorted' \in [1..Cardinality(nodes') -> nodes'] BY <1>1, <1>3
<1>6. SlotsSuffice' BY <1>2, <1>3, <1>4 DEF SlotsSuffice
<1>7. i' \in 1..Cardinality(nodes') + 1 /\ count' \in 0..i' - 1 /\ prev'.num + count' <= IntMax
  BY <1>2, <1>3, <1>5, InitialParts
<1>8. nodes' \in Asked \union {{}} /\ Cardinality(nodes') \in Nat /\ prev_num_str_len' \in Nat \union {-1}
  BY <1>3, <1>5
<1>9. pc' \in {"idle", "loop", "returned"} /\ warned' \in BOOLEAN BY <1>3
<1>10. IF i' = 1 THEN prev' = init_prev_parts ELSE prev' \in PartsOf' BY <1>3
<1>11. QED BY <1>3, <1>4, <1>5, <1>6, <1>7, <1>8, <1>9, <1>10 DEF IInv

LEMMA Inductive == IInv /\ [Next]_vars => IInv'
<1>1. SUFFICES ASSUME IInv, [Next]_vars PROVE IInv' OBVIOUS
<1>2. CASE UNCHANGED vars BY <1>1, <1>2 DEF vars, loop, IInv, PartsOf, SlotsSuffice
<1>3. CASE Next BY <1>1, <1>3, CallKeeps, JoinKeeps, StartKeeps, EndKeeps, ReturnKeeps DEF Next
<1>4. QED BY <1>1, <1>2, <1>3

LEMMA Invariant == Spec => []IInv
BY Initially, Inductive, PTL DEF Spec

(***************************************************************************)
(* Expanding a range.  The loop's names are numbered from the last digits  *)
(* of the first number, as many as the last number has; the digits before  *)
(* them stay.                                                              *)
(***************************************************************************)
LastDigits(p) ==
  IF Len(p.first) > Len(p.last) THEN SubSeq(p.first, Len(p.first) - Len(p.last) + 1, Len(p.first)) ELSE p.first

Added(p, N) ==
  {[prefix |-> p.prefix, digits |-> Missing(p) \o Printed(n, Len(LastDigits(p))), domain |-> p.domain] : n \in N}

EInv ==
  /\ parts \in RangeParts
  /\ pad1 = Missing(parts) /\ length = Len(LastDigits(parts)) /\ l = atoi(parts.last)
  /\ IF atoi(LastDigits(parts)) > l THEN turn = atoi(LastDigits(parts)) /\ r = {}
     ELSE IF l < IntMax THEN turn \in atoi(LastDigits(parts))..l + 1 /\ r = Added(parts, atoi(LastDigits(parts))..turn - 1)
     ELSE turn \in Int /\ turn <= l

LEMMA RangeIs ==
  ASSUME NEW p \in RangeParts
  PROVE  /\ p.first \in Seq(Digit) /\ p.last \in Seq(Digit) /\ Len(p.first) \in Nat \ {0} /\ Len(p.last) \in Nat \ {0}
         /\ Missing(p) \in Seq(Digit) /\ LastDigits(p) \in Seq(Digit) /\ Len(LastDigits(p)) \in Nat \ {0}
         /\ p.first = Missing(p) \o LastDigits(p)
         /\ Len(p.first) > Len(p.last) => Len(LastDigits(p)) = Len(p.last)
         /\ Len(p.first) <= Len(p.last) => Missing(p) = <<>> /\ LastDigits(p) = p.first
<1> DEFINE s == p.first
           t == p.last
           d == Len(s) - Len(t)
<1>1. s \in Seq(Digit) /\ t \in Seq(Digit) /\ s # <<>> /\ t # <<>> BY DEF RangeParts
<1>2. Len(s) \in Nat \ {0} /\ Len(t) \in Nat \ {0} BY <1>1, EmptySeq
<1> HIDE DEF s, t
<1>3. CASE Len(s) > Len(t)
  <2>1. d \in Nat \ {0} /\ d < Len(s) /\ d + Len(t) = Len(s) BY <1>2, <1>3
  <2>2. Missing(p) = SubSeq(s, 1, d) /\ LastDigits(p) = SubSeq(s, d + 1, Len(s)) BY <1>3 DEF Missing, LastDigits, s, t
  <2> HIDE DEF d
  <2>3. SubSeq(s, 1, d) \in Seq(Digit) /\ Len(SubSeq(s, 1, d)) = d BY <1>1, <1>2, <2>1
  <2>4. SubSeq(s, d + 1, Len(s)) \in Seq(Digit) /\ Len(SubSeq(s, d + 1, Len(s))) = Len(t) BY <1>1, <1>2, <2>1
  <2>5. s = SubSeq(s, 1, d) \o SubSeq(s, d + 1, Len(s))
    <3>1. 1 \in 1..Len(s) + 1 /\ d \in 1 - 1..Len(s) /\ Len(s) \in d..Len(s) BY <1>2, <2>1
    <3>2. SubSeq(s, 1, d) \o SubSeq(s, d + 1, Len(s)) = SubSeq(s, 1, Len(s)) BY <1>1, <3>1, ConcatAdjacentSubSeq
    <3>3. QED BY <1>1, <3>2, SubSeqFull
  <2>6. s = Missing(p) \o LastDigits(p) BY <2>2, <2>5
  <2>7. Len(LastDigits(p)) = Len(t) BY <2>2, <2>4
  <2>8. Missing(p) \in Seq(Digit) /\ LastDigits(p) \in Seq(Digit) BY <2>2, <2>3, <2>4
  <2>9. QED BY <1>1, <1>2, <1>3, <2>6, <2>7, <2>8 DEF s, t
<1>4. CASE ~(Len(s) > Len(t))
  <2>1. Missing(p) = <<>> /\ LastDigits(p) = s BY <1>4 DEF Missing, LastDigits, s, t
  <2>2. s = <<>> \o s BY <1>1, ConcatEmptySeq
  <2>3. <<>> \in Seq(Digit) OBVIOUS
  <2>4. QED BY <1>1, <1>2, <1>4, <2>1, <2>2, <2>3 DEF s, t
<1>5. QED BY <1>3, <1>4

(* What the loop adds, from its first number to the last, is the range.    *)
LEMMA AddedIsMeaning ==
  ASSUME NEW p \in RangeParts
  PROVE  Added(p, atoi(LastDigits(p))..atoi(p.last)) = Meaning(p)
<1> DEFINE pre == Missing(p)
           a == LastDigits(p)
           b == p.last
           m == Len(a)
           hi == atoi(pre)
           Wide(n) == [prefix |-> p.prefix, digits |-> Printed(n, Len(p.first)), domain |-> p.domain]
           Short(n) == [prefix |-> p.prefix, digits |-> pre \o Printed(n, m), domain |-> p.domain]
<1>1. /\ p.first \in Seq(Digit) /\ b \in Seq(Digit) /\ pre \in Seq(Digit) /\ a \in Seq(Digit)
      /\ p.first = pre \o a /\ Len(p.first) = Len(pre) + m /\ m \in Nat \ {0} /\ Len(b) \in Nat \ {0} /\ Len(pre) \in Nat
  <2>1. Len(Missing(p) \o LastDigits(p)) = Len(Missing(p)) + Len(LastDigits(p)) /\ Len(Missing(p)) \in Nat
    BY RangeIs, ConcatProperties, LenProperties
  <2>2. QED BY <2>1, RangeIs
<1>2. Added(p, atoi(a)..atoi(b)) = {Short(n) : n \in atoi(a)..atoi(b)} BY DEF Added
<1>3. Meaning(p) = {Wide(n) : n \in atoi(p.first)..atoi(pre \o b)} BY DEF Meaning
<1>4. atoi(a) \in Nat /\ atoi(b) \in Nat /\ hi \in Nat BY <1>1, AtoiBound
<1>5. CASE Len(p.first) <= Len(b)
  <2>1. pre = <<>> /\ a = p.first BY <1>5, RangeIs
  <2>2. pre \o b = b BY <1>1, <2>1, ConcatEmptySeq
  <2>3. ASSUME NEW n \in atoi(a)..atoi(b) PROVE Short(n) = Wide(n)
    <3>1. n \in Nat BY <1>4
    <3>2. Printed(n, m) \in Seq(Int)
      <4>1. ASSUME NEW w \in Nat PROVE Padded(n, w) \in Seq(Int)
        <5>1. ASSUME NEW k \in 1..w PROVE (n \div Power[w - k]) % Base \in Int
          <6>1. w - k \in Nat OBVIOUS
          <6>2. Power[w - k] \in Nat \ {0} BY <6>1, PowerIs
          <6>3. n \div Power[w - k] \in Nat BY <3>1, <6>2, DivSplit
          <6>4. \A x \in Nat : x % Base \in Int BY BaseIs
          <6>5. QED BY <6>3, <6>4
        <5>2. QED BY <5>1 DEF Padded
      <4>2. QED BY <1>1, <3>1, <4>1, WidthIs DEF Printed
    <3>3. pre \o Printed(n, m) = Printed(n, m) BY <2>1, <3>2, ConcatEmptySeq
    <3>4. QED BY <2>1, <3>3
  <2>4. atoi(p.first) = atoi(a) /\ atoi(pre \o b) = atoi(b) BY <2>1, <2>2
  <2> HIDE DEF Short, Wide
  <2>5. QED BY <1>2, <1>3, <2>3, <2>4
<1>6. CASE Len(p.first) > Len(b)
  <2>1. m = Len(b) BY <1>6, RangeIs
  <2> DEFINE P == Power[m]
             up == hi * P
  <2>2. P \in Nat \ {0} BY <1>1, PowerIs
  <2>3. up \in Nat BY <1>4, <2>2
  <2>4. atoi(p.first) = up + atoi(a) /\ atoi(pre \o b) = up + atoi(b) BY <1>1, <2>1, AtoiAppend
  <2>5. atoi(b) < P BY <1>1, <2>1, AtoiBound
  <2>6. ASSUME NEW n \in atoi(a)..atoi(b) PROVE Short(n) = Wide(up + n)
    <3> DEFINE q == Padded(n, m)
               c == pre \o q
    <3>1. n \in Nat /\ n < P BY <1>4, <2>2, <2>5
    <3>2. q \in Seq(Digit) /\ Len(q) = m /\ atoi(q) = n BY <1>1, <3>1, AtoiOfPadded
    <3>3. Printed(n, m) = q BY <1>1, <3>1, PrintedIsPadded
    <3> HIDE DEF q
    <3>4. c \in Seq(Digit) /\ Len(c) = Len(p.first) /\ atoi(c) = up + n
      <4> HIDE DEF pre
      <4>1. c \in Seq(Digit) /\ Len(c) = Len(pre) + Len(q) BY <1>1, <3>2, ConcatProperties
      <4>2. atoi(c) = atoi(pre) * Power[Len(q)] + atoi(q) BY <1>1, <3>2, AtoiAppend
      <4>3. QED BY <1>1, <3>2, <4>1, <4>2
    <3> HIDE DEF c
    <3>5. Padded(atoi(c), Len(c)) = c /\ atoi(c) < Power[Len(c)] /\ atoi(c) \in Nat BY <3>4, PaddedOfAtoi, AtoiBound
    <3>6. Len(c) \in Nat \ {0} BY <1>1, <3>4
    <3>7. Printed(atoi(c), Len(c)) = c BY <3>5, <3>6, PrintedIsPadded
    <3>8. Printed(up + n, Len(p.first)) = pre \o Printed(n, m) BY <3>3, <3>4, <3>7 DEF c
    <3>9. QED BY <3>8
  <2> HIDE DEF up, P, Short, Wide
  <2>7. \A n \in atoi(p.first)..atoi(pre \o b) : n - up \in atoi(a)..atoi(b) /\ up + (n - up) = n BY <1>4, <2>3, <2>4
  <2>8. \A n \in atoi(a)..atoi(b) : up + n \in atoi(p.first)..atoi(pre \o b) BY <1>4, <2>3, <2>4
  <2>9. {Short(n) : n \in atoi(a)..atoi(b)} = {Wide(n) : n \in atoi(p.first)..atoi(pre \o b)}
    <3>1. \A n \in atoi(a)..atoi(b) : Short(n) \in {Wide(x) : x \in atoi(p.first)..atoi(pre \o b)} BY <2>6, <2>8
    <3>2. \A x \in atoi(p.first)..atoi(pre \o b) : Wide(x) = Short(x - up) BY <2>6, <2>7
    <3>3. \A x \in atoi(p.first)..atoi(pre \o b) : Wide(x) \in {Short(n) : n \in atoi(a)..atoi(b)} BY <2>7, <3>2
    <3>4. QED BY <3>1, <3>3
  <2>10. QED BY <1>2, <1>3, <2>9
<1>7. QED BY <1>1, <1>5, <1>6

(* The loop's instance means the same by its numbers. *)
LEMMA SameNumbers ==
  /\ \A d : L!atoi(d) = atoi(d)
  /\ \A n : L!Wrap(n) = Wrap(n)
  /\ \A n, w : L!Printed(n, w) = Printed(n, w)
<1>1. L!Power = Power BY DEF L!Power, Power
<1>2. \A n : L!Width(n) = Width(n) BY <1>1 DEF L!Width, Width
<1>3. \A n, w : L!Padded(n, w) = Padded(n, w) BY <1>1 DEF L!Padded, Padded
<1>4. \A n, w : L!Printed(n, w) = Printed(n, w) BY <1>2, <1>3 DEF L!Printed, Printed
<1>5. \A d : L!atoi(d) = atoi(d) BY DEF L!atoi, atoi
<1>6. \A n : L!Wrap(n) = Wrap(n) BY DEF L!Wrap, Wrap
<1>7. QED BY <1>4, <1>5, <1>6

LEMMA ExpandKeeps ==
  ASSUME NEW p \in RangeParts, L!range_from_rangeparts(p)
  PROVE  EInv'
<1>1. parts' = p /\ r' = {} /\ l' = atoi(p.last) BY SameNumbers DEF L!range_from_rangeparts
<1>2. pad1' = Missing(p) /\ length' = Len(LastDigits(p)) /\ turn' = atoi(LastDigits(p))
  <2>1. Len(p.first) \in Nat /\ Len(p.last) \in Nat BY RangeIs
  <2>2. CASE Len(p.first) > Len(p.last)
    <3>1. /\ pad1' = SubSeq(p.first, 1, Len(p.first) - Len(p.last))
          /\ turn' = atoi(SubSeq(p.first, Len(p.first) - Len(p.last) + 1, Len(p.first)))
          /\ length' = Len(p.last)
      <4>1. ~(Len(p.first) <= Len(p.last)) BY <2>1, <2>2
      <4>2. /\ pad1' = SubSeq(p.first, 1, Len(p.first) - Len(p.last))
            /\ turn' = L!atoi(SubSeq(p.first, Len(p.first) - Len(p.last) + 1, Len(p.first)))
            /\ length' = Len(p.last)
        BY <4>1, Zenon DEF L!range_from_rangeparts
      <4>3. QED BY <4>2, SameNumbers, Zenon
    <3>2. QED BY <2>2, <3>1, RangeIs DEF Missing, LastDigits
  <2>3. CASE ~(Len(p.first) > Len(p.last)) BY <2>1, <2>3, SameNumbers DEF L!range_from_rangeparts, Missing, LastDigits
  <2>4. QED BY <2>2, <2>3
<1>3. atoi(LastDigits(p)) \in Nat /\ atoi(p.last) \in Nat BY RangeIs, AtoiBound
<1>4. IntMax \in Nat BY IntMaxAssumption DEF IntMaxAssumption
<1> DEFINE f == atoi(LastDigits(p))
<1>5. f..f - 1 = {} /\ Added(p, {}) = {} BY <1>3 DEF Added
<1>6. f <= l' => f \in f..l' + 1 BY <1>1, <1>3
<1>7. QED BY <1>1, <1>2, <1>3, <1>4, <1>5, <1>6 DEF EInv

LEMMA AddKeeps ==
  ASSUME EInv, L!Add
  PROVE  EInv'
<1> DEFINE f == atoi(LastDigits(parts))
           name(n) == [prefix |-> parts.prefix, digits |-> pad1 \o Printed(n, length), domain |-> parts.domain]
<1>1. turn <= l /\ r' = r \union {name(turn)} /\ turn' = Wrap(turn + 1) /\ UNCHANGED <<parts, pad1, length, l>>
  BY SameNumbers DEF L!Add, L!Looping
<1>2. f \in Nat /\ l \in Nat BY RangeIs, AtoiBound DEF EInv
<1>3. IntMax \in Nat \ {0} BY IntMaxAssumption DEF IntMaxAssumption
<1>4. ~(f > l) BY <1>1, <1>2 DEF EInv
<1>5. CASE l < IntMax
  <2>1. turn \in f..l + 1 /\ r = Added(parts, f..turn - 1) BY <1>4, <1>5 DEF EInv
  <2>2. turn' = turn + 1 /\ turn \in f..l BY <1>1, <1>2, <1>3, <1>5, <2>1 DEF Wrap
  <2>3. f..turn' - 1 = (f..turn - 1) \union {turn} /\ turn' \in f..l + 1 BY <1>2, <2>2
  <2>4. Added(parts, f..turn' - 1) = Added(parts, f..turn - 1) \union {name(turn)} BY <2>3 DEF Added, EInv
  <2>5. r' = Added(parts, f..turn' - 1) BY <1>1, <2>1, <2>4
  <2>6. QED BY <1>1, <1>4, <1>5, <2>3, <2>5 DEF EInv
<1>6. CASE ~(l < IntMax)
  <2>1. turn \in Int BY <1>4, <1>6 DEF EInv
  <2>2. turn' \in Int /\ turn' <= l BY <1>1, <1>2, <1>3, <1>6, <2>1 DEF Wrap
  <2>3. QED BY <1>1, <1>4, <1>6, <2>2 DEF EInv
<1>7. QED BY <1>5, <1>6

LEMMA NoPartsAre == L!NoParts \in RangeParts /\ LastDigits(L!NoParts) = <<1>> /\ Missing(L!NoParts) = <<>>
                    /\ atoi(<<1>>) = 1 /\ atoi(<<0>>) = 0
<1>1. 0 \in Digit /\ 1 \in Digit BY BaseIs DEF Digit
<1>2. <<1>> \in Seq(Digit) /\ <<0>> \in Seq(Digit) /\ Len(<<1>>) = 1 /\ Len(<<0>>) = 1 BY <1>1
<1>3. L!NoParts.first = <<1>> /\ L!NoParts.last = <<0>> BY DEF L!NoParts
<1>4. L!NoParts \in RangeParts BY <1>2 DEF L!NoParts, RangeParts
<1>5. LastDigits(L!NoParts) = <<1>> /\ Missing(L!NoParts) = <<>> BY <1>2, <1>3 DEF LastDigits, Missing
<1>6. ASSUME NEW x \in Digit, x \in Nat PROVE atoi(<<x>>) = x
  <2>1. <<x>> \in Seq(Digit) /\ Len(<<x>>) = 1 /\ <<x>>[1] = x OBVIOUS
  <2>2. PICK v : IsValue(v, <<x>>) /\ atoi(<<x>>) = v[1] BY <2>1, ValueExists
  <2>3. v[0] = 0 /\ v[1] = Base * v[0] + x BY <2>1, <2>2 DEF IsValue
  <2>4. Base * 0 + x = x BY <1>6, BaseIs
  <2>5. QED BY <2>2, <2>3, <2>4
<1>7. QED BY <1>1, <1>4, <1>5, <1>6

LEMMA ForgetKeeps ==
  ASSUME Forget
  PROVE  EInv'
<1>1. parts' = L!NoParts /\ pad1' = <<>> /\ length' = 1 /\ turn' = 1 /\ l' = 0 /\ r' = {} BY DEF Forget
<1>2. Len(<<1>>) = 1 /\ L!NoParts.last = <<0>> BY DEF L!NoParts
<1>3. QED BY <1>1, <1>2, NoPartsAre DEF EInv

(***************************************************************************)
(* The text of a group.  Of the last number it has the digits from the     *)
(* first that differs, or all when there are more of them.                 *)
(***************************************************************************)

(* More room gives zeros in front. *)
LEMMA PaddedWider ==
  ASSUME NEW n \in Nat, NEW w \in Nat, n < Power[w], NEW x \in Nat, w <= x, NEW k \in 1..x
  PROVE  /\ k <= x - w => Padded(n, x)[k] = 0
         /\ k > x - w => k - (x - w) \in 1..w /\ Padded(n, x)[k] = Padded(n, w)[k - (x - w)]
<1>1. Padded(n, x)[k] = (n \div Power[x - k]) % Base BY DEF Padded
<1>2. CASE k <= x - w
  <2>1. x - k \in Nat /\ w <= x - k BY <1>2
  <2>2. Power[x - k] \in Nat /\ Power[w] \in Nat /\ Power[w] <= Power[x - k] BY <2>1, PowerIs, PowerGrows
  <2> DEFINE p == Power[x - k]
  <2>3. p \in Nat /\ n < p /\ n = 0 * p + n BY <2>2
  <2> HIDE DEF p
  <2>4. n \div p = 0 BY <2>3, DivIs
  <2>5. 0 % Base = 0
    <3>1. 0 = 0 * Base + 0 BY BaseIs
    <3>2. QED BY <3>1, BaseIs, DivIs
  <2>6. QED BY <1>1, <1>2, <2>4, <2>5 DEF p
<1>3. CASE k > x - w
  <2>1. k - (x - w) \in 1..w /\ w - (k - (x - w)) = x - k BY <1>3
  <2>2. Padded(n, w)[k - (x - w)] = (n \div Power[w - (k - (x - w))]) % Base BY <2>1 DEF Padded
  <2>3. QED BY <1>1, <1>3, <2>1, <2>2
<1>4. QED BY <1>2, <1>3

LEMMA ItoaIs ==
  ASSUME NEW n \in Nat
  PROVE  /\ apr_itoa(n) = Padded(n, Width(n)) /\ apr_itoa(n) \in Seq(Digit) /\ Len(apr_itoa(n)) = Width(n)
         /\ atoi(apr_itoa(n)) = n
<1>1. Width(n) \in Nat \ {0} /\ n < Power[Width(n)] BY WidthIs
<1>2. (IF 1 > Width(n) THEN 1 ELSE Width(n)) = Width(n) BY <1>1
<1>3. apr_itoa(n) = Padded(n, Width(n)) BY <1>2 DEF apr_itoa, Printed
<1>4. QED BY <1>1, <1>3, AtoiOfPadded

(* Two numbers of as many digits differ in one. *)
LEMMA FirstDifferenceIs ==
  ASSUME NEW s \in Seq(Digit), NEW t \in Seq(Digit), Len(s) = Len(t), s # t
  PROVE  /\ FirstDifference(s, t) \in 1..Len(s)
         /\ \A k \in 1..FirstDifference(s, t) - 1 : s[k] = t[k]
<1> DEFINE D == {k \in 1..Len(s) : s[k] # t[k]}
<1>1. D # {}
  <2>1. SUFFICES ASSUME \A k \in 1..Len(s) : s[k] = t[k] PROVE FALSE OBVIOUS
  <2>2. QED BY <2>1, SeqEqual
<1>2. D \in SUBSET Nat OBVIOUS
<1>3. PICK k \in D : \A m \in D : k <= m BY <1>1, <1>2, LeastExists
<1>4. Len(s) \in Nat BY DigitsAre
<1>5. ASSUME NEW j \in 1..k - 1 PROVE s[j] = t[j]
  <2>1. j \in 1..Len(s) /\ ~(k <= j) BY <1>3, <1>4
  <2>2. j \notin D BY <1>3, <2>1
  <2>3. QED BY <2>1, <2>2
<1>6. \E m \in 1..Len(s) : s[m] # t[m] /\ \A j \in 1..m - 1 : s[j] = t[j] BY <1>3, <1>5
<1>7. QED BY <1>6 DEF FirstDifference

LEMMA SuffixIs ==
  ASSUME NEW n \in Nat, NEW m \in Nat, n < m, NEW x \in Nat, m < Power[x]
  PROVE  LET t == ignore_common_prefix(n, m)
         IN  /\ t \in Seq(Digit) /\ t # <<>> /\ Len(t) \in 1..x
             /\ \A k \in 1..Len(t) : t[k] = Padded(m, x)[x - Len(t) + k]
             /\ \A k \in 1..x - Len(t) : Padded(n, x)[k] = Padded(m, x)[k]
<1> DEFINE s == apr_itoa(n)
           u == apr_itoa(m)
           w == Width(n)
           y == Width(m)
           t == ignore_common_prefix(n, m)
<1>1. /\ s = Padded(n, w) /\ s \in Seq(Digit) /\ Len(s) = w /\ atoi(s) = n
      /\ u = Padded(m, y) /\ u \in Seq(Digit) /\ Len(u) = y /\ atoi(u) = m
  BY ItoaIs
<1>2. /\ w \in Nat \ {0} /\ y \in Nat \ {0} /\ n < Power[w] /\ m < Power[y] /\ Power[y] \in Nat BY WidthIs, PowerIs
<1>3. x # 0
  <2>1. Power[0] = 1 BY PowerIs
  <2>2. QED BY <2>1
<1>4. w <= y /\ y <= x
  <2>1. n < Power[y] BY <1>2
  <2>2. w <= y BY <1>2, <2>1, WidthLeast
  <2>3. y <= x BY <1>3, WidthLeast
  <2>4. QED BY <2>2, <2>3
<1>5. t = IF Len(s) < Len(u) THEN u ELSE SubSeq(u, FirstDifference(s, u), Len(u)) BY DEF ignore_common_prefix
<1> HIDE DEF s, u, w, y, t
<1>6. ASSUME NEW k \in 1..x
      PROVE  /\ k <= x - y => Padded(n, x)[k] = 0 /\ Padded(m, x)[k] = 0
             /\ k > x - y => k - (x - y) \in 1..y /\ Padded(m, x)[k] = u[k - (x - y)]
             /\ k > x - y /\ w = y => Padded(n, x)[k] = s[k - (x - y)]
  <2>1. k <= x - y => k <= x - w BY <1>2, <1>4
  <2>2. w <= x BY <1>2, <1>4
  <2>3. k <= x - w => Padded(n, x)[k] = 0 BY <1>2, <2>2, PaddedWider
  <2>4. k > x - w => Padded(n, x)[k] = s[k - (x - w)] BY <1>1, <1>2, <2>2, PaddedWider
  <2>5. k <= x - y => Padded(m, x)[k] = 0 BY <1>2, <1>4, PaddedWider
  <2>6. k > x - y => k - (x - y) \in 1..y /\ Padded(m, x)[k] = u[k - (x - y)] BY <1>1, <1>2, <1>4, PaddedWider
  <2>7. QED BY <2>1, <2>3, <2>4, <2>5, <2>6
<1>7. CASE w < y
  <2>1. t = u /\ Len(t) = y BY <1>1, <1>5, <1>7
  <2>2. t \in Seq(Digit) /\ t # <<>> BY <1>1, <1>2, <2>1, EmptySeq
  <2>3. ASSUME NEW k \in 1..Len(t) PROVE t[k] = Padded(m, x)[x - Len(t) + k]
    <3>1. x - y + k \in 1..x /\ x - y + k > x - y /\ (x - y + k) - (x - y) = k BY <1>2, <1>4, <2>1
    <3>2. QED BY <1>6, <2>1, <3>1
  <2>4. ASSUME NEW k \in 1..x - Len(t) PROVE Padded(n, x)[k] = Padded(m, x)[k]
    <3>1. k \in 1..x /\ k <= x - y BY <1>2, <1>4, <2>1
    <3>2. QED BY <1>6, <3>1
  <2>5. Len(t) \in 1..x BY <1>2, <1>4, <2>1
  <2>6. QED BY <2>2, <2>3, <2>4, <2>5 DEF t
<1>8. CASE w = y
  <2> DEFINE f == FirstDifference(s, u)
  <2>1. s # u BY <1>1
  <2>2. f \in 1..y /\ \A k \in 1..f - 1 : s[k] = u[k] BY <1>1, <1>8, <2>1, FirstDifferenceIs
  <2> HIDE DEF f
  <2>3. t = SubSeq(u, f, y)
    <3>1. Len(s) = y /\ Len(u) = y /\ ~(y < y) BY <1>1, <1>2, <1>8
    <3>2. QED BY <1>5, <3>1 DEF f
  <2>4. Len(t) = y - f + 1 /\ t \in Seq(Digit) /\ \A k \in 1..y - f + 1 : t[k] = u[f + k - 1]
    <3>1. \A k \in f..y : u[k] \in Digit BY <1>1, <1>2, <2>2, DigitsAre
    <3>2. SubSeq(u, f, y) \in Seq(Digit) /\ Len(SubSeq(u, f, y)) = y - f + 1 BY <1>1, <1>2, <2>2, <3>1, SubSeqProperties
    <3>3. \A k \in 1..y - f + 1 : SubSeq(u, f, y)[k] = u[f + k - 1] BY <1>1, <1>2, <2>2
    <3>4. QED BY <2>3, <3>2, <3>3
  <2>5. Len(t) \in 1..x /\ t # <<>>
    <3>1. Len(t) \in 1..x BY <1>2, <1>4, <2>2, <2>4
    <3>2. QED BY <2>4, <3>1, EmptySeq
  <2>6. ASSUME NEW k \in 1..Len(t) PROVE t[k] = Padded(m, x)[x - Len(t) + k]
    <3> DEFINE j == x - Len(t) + k
    <3>1. j = (x - y) + (f + k - 1) /\ j \in 1..x /\ j > x - y /\ j - (x - y) = f + k - 1 BY <1>2, <1>4, <2>2, <2>4
    <3> HIDE DEF j
    <3>2. Padded(m, x)[j] = u[f + k - 1] BY <1>6, <3>1
    <3>3. t[k] = u[f + k - 1] BY <2>4
    <3>4. QED BY <3>2, <3>3 DEF j
  <2>7. ASSUME NEW k \in 1..x - Len(t) PROVE Padded(n, x)[k] = Padded(m, x)[k]
    <3>1. k \in 1..x /\ k <= (x - y) + f - 1 BY <1>2, <1>4, <2>2, <2>4
    <3>2. CASE k <= x - y BY <1>6, <3>1, <3>2
    <3>3. CASE k > x - y
      <4>1. k - (x - y) \in 1..f - 1 BY <1>2, <1>4, <2>2, <3>1, <3>3
      <4>2. QED BY <1>6, <1>8, <2>2, <3>1, <3>3, <4>1
    <3>4. QED BY <1>2, <1>4, <3>2, <3>3
  <2>8. QED BY <2>4, <2>5, <2>6, <2>7 DEF t
<1>9. QED BY <1>2, <1>4, <1>7, <1>8

(***************************************************************************)
(* What the groups are.  A name without digits leaves the width of the     *)
(* name before as it was, and its number is 0: when the name before was a  *)
(* number 0, a 1 as wide is taken for the next of the run.  Sets of names  *)
(* without such a 0, a word and such a 1 are ordinary; the empty name is   *)
(* not told from no name at all.                                           *)
(***************************************************************************)
Bare(x, n) == x.digits # <<>> /\ x.prefix = 0 /\ x.domain = 0 /\ atoi(x.digits) = n

Ordinary(S) ==
  /\ EmptyName \notin S
  /\ \A x, y, z \in S : Bare(x, 0) /\ y.digits = <<>> /\ Bare(z, 1) => Len(x.digits) # Len(z.digits)

RunsUpto(m) == {k \in 1..m : k = 1 \/ ~Continues(sorted[k - 1], sorted[k])}

(* The group of the sorted names from the k-th on. *)
StartsAt(g, k) ==
  /\ k \in 1..Len(sorted) /\ k + g.count <= Len(sorted) /\ g.parts = node_to_parts(sorted[k])
  /\ \A j \in k + 1..k + g.count : Continues(sorted[j - 1], sorted[j])

AllStart == \A m \in 1..Len(groups) : \E k \in Nat : StartsAt(groups[m], k)
HasPlace(j) == \E m \in 1..Len(groups) : \E k \in Nat : StartsAt(groups[m], k) /\ j \in k..k + groups[m].count

(* The last number read, which a name without digits leaves. *)
WidthRead ==
  IF prev.num_str # <<>> THEN prev_num_str_len = Len(prev.num_str)
  ELSE \/ prev_num_str_len = -1
       \/ \E k \in 1..i - 2 : sorted[k].digits # <<>> /\ Len(sorted[k].digits) = prev_num_str_len

JOpen ==
  /\ count <= i - 2 /\ StartsAt(Group(prev, count), i - count - 1) /\ WidthRead
  /\ Len(groups) + 1 = Cardinality(RunsUpto(i - 1))
  /\ AllStart /\ \A j \in 1..i - count - 2 : HasPlace(j)

JInv ==
  /\ pc = "idle" => prev_num_str_len = -1 /\ ~warned
  /\ pc # "idle" => sorted = do_range_sort(nodes)
  /\ pc = "loop" => ~warned
  /\ warned => groups = <<>>
  /\ pc = "loop" /\ i = 1 => groups = <<>> /\ prev_num_str_len = -1
  /\ pc = "loop" /\ i > 1 => JOpen
  /\ pc = "returned" /\ nodes = {} => ~warned /\ groups = <<>>
  /\ pc = "returned" /\ nodes # {} =>
       IF warned THEN Runs > MAX_NUM_GROUPS
       ELSE Len(groups) = Runs /\ AllStart /\ \A j \in 1..Len(sorted) : HasPlace(j)

LEMMA StartIs ==
  ASSUME IInv, NEW g, g.count \in Nat, NEW k \in Nat, StartsAt(g, k)
  PROVE  /\ k \in 1..Len(sorted) /\ Len(sorted) \in Nat /\ IsName(sorted[k]) /\ g.parts = node_to_parts(sorted[k])
         /\ g.parts.full_name = sorted[k] /\ g.parts.num_str = sorted[k].digits /\ sorted[k] \in nodes
         /\ g.count > 0 => sorted[k].digits # <<>>
         /\ \A j \in 0..g.count : /\ k + j \in 1..Len(sorted) /\ IsName(sorted[k + j])
                                  /\ sorted[k + j].prefix = sorted[k].prefix /\ sorted[k + j].domain = sorted[k].domain
                                  /\ Len(sorted[k + j].digits) = Len(sorted[k].digits)
                                  /\ atoi(sorted[k + j].digits) = atoi(sorted[k].digits) + j
<1>1. /\ k \in 1..Len(sorted) /\ k + g.count <= Len(sorted) /\ g.parts = node_to_parts(sorted[k])
      /\ \A j \in k + 1..k + g.count : Continues(sorted[j - 1], sorted[j])
  BY DEF StartsAt
<1>2. Len(sorted) = Cardinality(nodes) /\ Len(sorted) \in Nat BY NodesAre DEF IInv
<1>3. \A j \in 1..Len(sorted) : sorted[j] \in nodes /\ IsName(sorted[j]) BY <1>2, NodesAre DEF IInv
<1>4. g.count > 0 => sorted[k].digits # <<>>
  <2>1. SUFFICES ASSUME g.count > 0 PROVE sorted[k].digits # <<>> OBVIOUS
  <2>2. k + 1 \in k + 1..k + g.count /\ (k + 1) - 1 = k BY <2>1
  <2>3. QED BY <1>1, <2>2 DEF Continues
<1>5. \A x : IsName(x) => atoi(x.digits) \in Nat BY IntMaxAssumption DEF IsName, IntMaxAssumption
<1> DEFINE Same(j) == /\ sorted[k + j].prefix = sorted[k].prefix /\ sorted[k + j].domain = sorted[k].domain
                      /\ Len(sorted[k + j].digits) = Len(sorted[k].digits)
                      /\ atoi(sorted[k + j].digits) = atoi(sorted[k].digits) + j
           T == {j \in Nat : j <= g.count => Same(j)}
<1>6. 0 \in T
  <2>1. k + 0 = k /\ atoi(sorted[k].digits) \in Nat BY <1>1, <1>3, <1>5
  <2>2. QED BY <2>1
<1>7. ASSUME NEW j \in Nat, j \in T PROVE j + 1 \in T
  <2>1. SUFFICES ASSUME j + 1 <= g.count PROVE Same(j + 1) OBVIOUS
  <2>2. j <= g.count /\ Same(j) BY <1>7, <2>1
  <2>3. k + (j + 1) \in k + 1..k + g.count /\ (k + (j + 1)) - 1 = k + j BY <2>1
  <2>4. Continues(sorted[k + j], sorted[k + (j + 1)]) BY <1>1, <2>3
  <2>5. atoi(sorted[k].digits) \in Nat BY <1>1, <1>3, <1>5
  <2>6. (atoi(sorted[k].digits) + j) + 1 = atoi(sorted[k].digits) + (j + 1) BY <2>5
  <2>7. QED BY <2>2, <2>4, <2>6 DEF Continues
<1> HIDE DEF T, Same
<1>8. Nat \subseteq T BY <1>6, <1>7, Induct
<1>9. ASSUME NEW j \in 0..g.count PROVE k + j \in 1..Len(sorted) /\ IsName(sorted[k + j]) /\ Same(j)
  <2>1. j \in Nat /\ j <= g.count /\ k + j \in 1..Len(sorted) BY <1>1, <1>2
  <2>2. QED BY <1>3, <1>8, <2>1 DEF T
<1>10. IsName(sorted[k]) /\ sorted[k] \in nodes BY <1>1, <1>3
<1>11. g.parts.full_name = sorted[k] /\ g.parts.num_str = sorted[k].digits BY <1>1, <1>10, PartsAre
<1>12. QED BY <1>1, <1>2, <1>4, <1>9, <1>10, <1>11 DEF Same

(* The last digits, and what is missing of them, are the last number's.    *)
LEMMA FilledUp ==
  ASSUME NEW d \in Seq(Digit), NEW m \in Nat, atoi(d) < m, m < Power[Len(d)], NEW p,
         p.first = d, p.last = ignore_common_prefix(atoi(d), m)
  PROVE  p.last \in Seq(Digit) /\ p.last # <<>> /\ atoi(Missing(p) \o p.last) = m
<1> DEFINE x == Len(d)
           t == p.last
           e == Padded(m, x)
<1>1. x \in Nat /\ atoi(d) \in Nat BY AtoiBound, DigitsAre
<1>2. d = Padded(atoi(d), x) BY PaddedOfAtoi
<1>3. e \in Seq(Digit) /\ Len(e) = x /\ atoi(e) = m BY <1>1, AtoiOfPadded
<1>4. /\ t \in Seq(Digit) /\ t # <<>> /\ Len(t) \in 1..x
      /\ \A k \in 1..Len(t) : t[k] = e[x - Len(t) + k]
      /\ \A k \in 1..x - Len(t) : d[k] = e[k]
  <2> DEFINE n == atoi(d)
  <2>1. n \in Nat /\ n < m /\ m < Power[x] /\ x \in Nat /\ t = ignore_common_prefix(n, m) /\ d = Padded(n, x)
    BY <1>1, <1>2
  <2> HIDE DEF n, x, t
  <2> DEFINE z == ignore_common_prefix(n, m)
  <2>2. /\ z \in Seq(Digit) /\ z # <<>> /\ Len(z) \in 1..x
        /\ \A k \in 1..Len(z) : z[k] = Padded(m, x)[x - Len(z) + k]
        /\ \A k \in 1..x - Len(z) : Padded(n, x)[k] = Padded(m, x)[k]
    BY <2>1, SuffixIs
  <2>3. t = z BY <2>1
  <2> HIDE DEF z, e
  <2>4. \A k \in 1..x - Len(t) : d[k] = Padded(m, x)[k] BY <2>1, <2>2, <2>3
  <2>5. \A k \in 1..Len(t) : t[k] = Padded(m, x)[x - Len(t) + k] BY <2>2, <2>3
  <2>6. t \in Seq(Digit) /\ t # <<>> /\ Len(t) \in 1..x BY <2>2, <2>3
  <2>7. QED BY <2>4, <2>5, <2>6 DEF e
<1> HIDE DEF x, t, e
<1>5. Missing(p) = IF x > Len(t) THEN SubSeq(d, 1, x - Len(t)) ELSE <<>> BY DEF Missing, x, t
<1>6. CASE x > Len(t)
  <2> DEFINE f == SubSeq(d, 1, x - Len(t))
  <2>1. x - Len(t) \in Nat /\ Len(d) = x /\ x - Len(t) <= x BY <1>1, <1>4, <1>6 DEF x
  <2>2. f \in Seq(Digit) /\ Len(f) = x - Len(t) BY <2>1
  <2>3. \A k \in 1..x - Len(t) : f[k] = d[k] BY <2>1
  <2> HIDE DEF f
  <2>4. f \o t \in Seq(Digit) /\ Len(f \o t) = x BY <1>1, <1>4, <2>1, <2>2, ConcatProperties
  <2>5. ASSUME NEW k \in 1..x PROVE (f \o t)[k] = e[k]
    <3>1. CASE k <= x - Len(t)
      <4>1. k \in 1..Len(f) BY <2>1, <2>2, <3>1
      <4>2. (f \o t)[k] = f[k] BY <1>4, <2>2, <4>1
      <4>3. QED BY <1>4, <2>2, <2>3, <4>1, <4>2
    <3>2. CASE k > x - Len(t)
      <4>1. k - Len(f) \in 1..Len(t) /\ x - Len(t) + (k - Len(f)) = k BY <1>1, <1>4, <2>1, <2>2, <3>2
      <4>2. (f \o t)[k] = t[k - Len(f)]
        <5>1. k \in 1..Len(f) + Len(t) /\ k > Len(f) BY <1>1, <1>4, <2>1, <2>2, <3>2
        <5>2. QED BY <1>4, <2>2, <5>1
      <4>3. QED BY <1>4, <4>1, <4>2
    <3>3. x - Len(t) \in Nat /\ k \in Nat BY <2>1
    <3>4. k <= x - Len(t) \/ k > x - Len(t)
      <4>1. x \in Nat /\ Len(t) \in Nat BY <1>1, <1>4
      <4>2. QED BY <3>3, <4>1
    <3>5. QED BY <3>1, <3>2, <3>4
  <2>6. f \o t = e BY <1>3, <2>4, <2>5, SeqEqual
  <2>7. QED BY <1>3, <1>4, <1>5, <1>6, <2>6 DEF f, t
<1>7. CASE ~(x > Len(t))
  <2>1. x = Len(t) /\ Missing(p) = <<>> BY <1>1, <1>4, <1>5, <1>7
  <2>2. \A k \in 1..Len(t) : t[k] = e[k]
    <3>1. \A k \in 1..Len(t) : x - Len(t) + k = k BY <1>1, <2>1
    <3>2. QED BY <1>4, <3>1
  <2>3. t = e BY <1>3, <1>4, <2>1, <2>2, SeqEqual
  <2>4. <<>> \o t = t BY <1>4, ConcatEmptySeq
  <2>5. QED BY <1>3, <1>4, <2>1, <2>3, <2>4 DEF t
<1>8. QED BY <1>6, <1>7

NamesOf(g) == IF g.count = 0 THEN {g.parts.full_name} ELSE Meaning(fmt_group(g))

(* A group's text has the names it was made of. *)
LEMMA GroupIs ==
  ASSUME IInv, NEW g, g.count \in Nat, NEW k \in Nat, StartsAt(g, k)
  PROVE  /\ NamesOf(g) = {sorted[j] : j \in k..k + g.count}
         /\ g.count > 0 => fmt_group(g) \in RangeParts /\ g.parts.num_str # <<>>
<1>1. CASE g.count = 0
  <2>1. NamesOf(g) = {sorted[k]} BY <1>1, StartIs DEF NamesOf
  <2>2. k..k + g.count = {k} BY <1>1
  <2>3. QED BY <1>1, <2>1, <2>2
<1>2. CASE g.count > 0
  <2> DEFINE x == sorted[k]
             d == x.digits
             n == atoi(d)
             p == fmt_group(g)
             c == g.count
  <2>1. /\ IsName(x) /\ g.parts = node_to_parts(x) /\ d # <<>> /\ g.parts.num_str = d
        /\ \A j \in 0..c : /\ k + j \in 1..Len(sorted) /\ IsName(sorted[k + j])
                           /\ sorted[k + j].prefix = x.prefix /\ sorted[k + j].domain = x.domain
                           /\ Len(sorted[k + j].digits) = Len(d) /\ atoi(sorted[k + j].digits) = n + j
    BY <1>2, StartIs
  <2>2. d \in Seq(Digit) /\ n \in Nat /\ x.prefix \in Nat /\ x.domain \in Nat
    BY <2>1, IntMaxAssumption DEF IsName, NodeName, IntMaxAssumption
  <2>3. g.parts.prefix = x.prefix /\ g.parts.domain = x.domain /\ g.parts.num = n BY <2>1 DEF node_to_parts
  <2>4. p = [prefix |-> x.prefix, first |-> d, last |-> ignore_common_prefix(n, n + c), domain |-> x.domain]
    BY <2>1, <2>3 DEF fmt_group
  <2>5. c \in Nat /\ c \in 0..c BY <1>2
  <2>6. \A j \in 0..c : sorted[k + j].digits \in Seq(Digit) BY <2>1 DEF IsName, NodeName
  <2>7. n + c < Power[Len(d)]
    <3>1. sorted[k + c].digits \in Seq(Digit) /\ Len(sorted[k + c].digits) = Len(d) /\ atoi(sorted[k + c].digits) = n + c
      BY <2>1, <2>5, <2>6
    <3>2. QED BY <3>1, AtoiBound
  <2>8. p.last \in Seq(Digit) /\ p.last # <<>> /\ atoi(Missing(p) \o p.last) = n + c
    <3>1. n + c \in Nat /\ n < n + c BY <1>2, <2>2, <2>5
    <3>2. p.first = d /\ p.last = ignore_common_prefix(atoi(d), n + c) BY <2>4
    <3> HIDE DEF p, d
    <3>3. QED BY <2>2, <2>7, <3>1, <3>2, FilledUp DEF n
  <2>9. p \in RangeParts BY <2>1, <2>2, <2>4, <2>8 DEF RangeParts
  <2> DEFINE Wide(y) == [prefix |-> x.prefix, digits |-> Printed(y, Len(d)), domain |-> x.domain]
  <2>10. Meaning(p) = {Wide(y) : y \in n..n + c} BY <2>4, <2>8 DEF Meaning
  <2>11. ASSUME NEW j \in 0..c PROVE Wide(n + j) = sorted[k + j]
    <3> DEFINE e == sorted[k + j].digits
    <3>1. e \in Seq(Digit) /\ Len(e) = Len(d) /\ atoi(e) = n + j BY <2>1, <2>6
    <3>2. Len(d) \in Nat \ {0} BY <2>1, <2>2, EmptySeq
    <3>3. sorted[k + j] = [prefix |-> x.prefix, digits |-> e, domain |-> x.domain]
      <4>1. IsName(sorted[k + j]) /\ sorted[k + j].prefix = x.prefix /\ sorted[k + j].domain = x.domain BY <2>1
      <4>2. QED BY <4>1, NameIs
    <3> HIDE DEF e
    <3>4. Padded(atoi(e), Len(e)) = e /\ atoi(e) \in Nat /\ atoi(e) < Power[Len(e)] BY <3>1, PaddedOfAtoi, AtoiBound
    <3>5. Printed(atoi(e), Len(e)) = e BY <3>1, <3>2, <3>4, PrintedIsPadded
    <3>6. QED BY <3>1, <3>3, <3>5
  <2> HIDE DEF Wide, n, c
  <2>12. \A y \in n..n + c : y - n \in 0..c /\ n + (y - n) = y BY <2>2, <2>5 DEF n
  <2>13. \A j \in k..k + c : j - k \in 0..c /\ k + (j - k) = j /\ n + (j - k) \in n..n + c BY <2>2, <2>5 DEF n
  <2>14. \A j \in 0..c : k + j \in k..k + c BY <2>5
  <2>15. {Wide(y) : y \in n..n + c} = {sorted[j] : j \in k..k + c}
    <3>1. \A y \in n..n + c : Wide(y) = sorted[k + (y - n)] /\ k + (y - n) \in k..k + c BY <2>11, <2>12, <2>14
    <3>2. \A j \in k..k + c : sorted[j] = Wide(n + (j - k)) /\ n + (j - k) \in n..n + c BY <2>11, <2>13
    <3>3. QED BY <3>1, <3>2
  <2>16. NamesOf(g) = Meaning(p) BY <1>2 DEF NamesOf
  <2>17. QED BY <1>2, <2>1, <2>9, <2>10, <2>15, <2>16 DEF c
<1>3. QED BY <1>1, <1>2

LEMMA JInitially == Init => JInv
BY DEF Init, JInv

LEMMA Ordered ==
  ASSUME IInv, JInv, pc # "idle"
  PROVE  \A k, m \in 1..Len(sorted) : k < m => compare_parts(sorted[k], sorted[m])
<1>1. sorted = do_range_sort(nodes) BY DEF JInv
<1>2. QED BY <1>1, NodesAre, SortIs

LEMMA RunsStep ==
  /\ \A m \in Nat : IsFiniteSet(RunsUpto(m)) /\ Cardinality(RunsUpto(m)) \in Nat
  /\ Cardinality(RunsUpto(0)) = 0
  /\ \A m \in Nat \ {0} : Cardinality(RunsUpto(m)) =
       IF m = 1 \/ ~Continues(sorted[m - 1], sorted[m]) THEN Cardinality(RunsUpto(m - 1)) + 1
       ELSE Cardinality(RunsUpto(m - 1))
  /\ \A k, m \in Nat : k <= m => Cardinality(RunsUpto(k)) <= Cardinality(RunsUpto(m))
<1>1. ASSUME NEW m \in Nat PROVE IsFiniteSet(RunsUpto(m)) /\ Cardinality(RunsUpto(m)) \in Nat
  <2>1. IsFiniteSet(1..m) BY FS_Interval
  <2>2. RunsUpto(m) \subseteq 1..m BY DEF RunsUpto
  <2>3. QED BY <2>1, <2>2, FS_Subset, FS_CardinalityType
<1>2. RunsUpto(0) = {} BY DEF RunsUpto
<1>3. ASSUME NEW m \in Nat \ {0}
      PROVE  Cardinality(RunsUpto(m)) = IF m = 1 \/ ~Continues(sorted[m - 1], sorted[m])
                                        THEN Cardinality(RunsUpto(m - 1)) + 1 ELSE Cardinality(RunsUpto(m - 1))
  <2> DEFINE Begins(k) == k = 1 \/ ~Continues(sorted[k - 1], sorted[k])
  <2>1. 1..m = (1..m - 1) \union {m} /\ m \notin 1..m - 1 OBVIOUS
  <2>2. \A k : RunsUpto(k) = {j \in 1..k : Begins(j)} BY DEF RunsUpto
  <2> HIDE DEF Begins
  <2>3. CASE Begins(m)
    <3>1. RunsUpto(m) = RunsUpto(m - 1) \union {m} /\ m \notin RunsUpto(m - 1) BY <2>1, <2>2, <2>3
    <3>2. IsFiniteSet(RunsUpto(m - 1)) BY <1>1
    <3>3. Cardinality(RunsUpto(m)) = Cardinality(RunsUpto(m - 1)) + 1 BY <3>1, <3>2, FS_AddElement
    <3>4. QED BY <2>3, <3>3 DEF Begins
  <2>4. CASE ~Begins(m)
    <3>1. RunsUpto(m) = RunsUpto(m - 1) BY <2>1, <2>2, <2>4
    <3>2. QED BY <2>4, <3>1 DEF Begins
  <2>5. QED BY <2>3, <2>4
<1>4. ASSUME NEW k \in Nat, NEW m \in Nat, k <= m PROVE Cardinality(RunsUpto(k)) <= Cardinality(RunsUpto(m))
  <2>1. RunsUpto(k) \subseteq RunsUpto(m) BY <1>4 DEF RunsUpto
  <2>2. QED BY <1>1, <2>1, FS_Subset
<1>5. QED BY <1>1, <1>2, <1>3, <1>4, FS_EmptySet

LEMMA RunsAre ==
  ASSUME IInv
  PROVE  Runs = Cardinality(RunsUpto(Len(sorted)))
<1>1. sorted \in Seq(nodes) BY NodesAre
<1>2. DOMAIN sorted = 1..Len(sorted) BY <1>1
<1>3. QED BY <1>2 DEF Runs, RunsUpto

LEMMA OpenIs ==
  ASSUME IInv, JInv, pc = "loop", i > 1
  PROVE  /\ i - 1 \in Nat /\ i - count - 1 \in Nat /\ Group(prev, count).count = count /\ count \in Nat
         /\ Group(prev, count).parts = prev
         /\ prev = node_to_parts(sorted[i - count - 1]) /\ prev.num_str = sorted[i - count - 1].digits
         /\ prev.full_name = sorted[i - count - 1] /\ prev.full_name \in nodes
         /\ i - 1 \in 1..Len(sorted) /\ IsName(sorted[i - 1])
         /\ prev.num_str # <<>> =>
              /\ sorted[i - 1].prefix = prev.prefix /\ sorted[i - 1].domain = prev.domain
              /\ Len(sorted[i - 1].digits) = Len(prev.num_str) /\ sorted[i - 1].digits # <<>>
              /\ atoi(sorted[i - 1].digits) = prev.num + count
         /\ prev.num_str = <<>> =>
              count = 0 /\ sorted[i - 1].digits = <<>> /\ prev.prefix = 0 /\ prev.domain = 0 /\ prev.num = 0
<1> DEFINE g == Group(prev, count)
           k == i - count - 1
<1>1. JOpen BY DEF JInv
<1>2. i \in Nat /\ count \in Nat /\ count <= i - 2 BY <1>1 DEF IInv, JOpen
<1>3. g.count = count /\ g.parts = prev /\ k \in Nat /\ k + count = i - 1 BY <1>2 DEF Group
<1>4. StartsAt(g, k) BY <1>1 DEF JOpen
<1> HIDE DEF g, k
<1>5. /\ IsName(sorted[k]) /\ prev = node_to_parts(sorted[k]) /\ prev.full_name = sorted[k]
      /\ prev.num_str = sorted[k].digits /\ sorted[k] \in nodes
      /\ count > 0 => sorted[k].digits # <<>>
      /\ \A j \in 0..count : /\ k + j \in 1..Len(sorted) /\ IsName(sorted[k + j])
                             /\ sorted[k + j].prefix = sorted[k].prefix /\ sorted[k + j].domain = sorted[k].domain
                             /\ Len(sorted[k + j].digits) = Len(sorted[k].digits)
                             /\ atoi(sorted[k + j].digits) = atoi(sorted[k].digits) + j
  <2>1. g.count \in Nat BY <1>2, <1>3
  <2>2. /\ IsName(sorted[k]) /\ g.parts = node_to_parts(sorted[k]) /\ g.parts.full_name = sorted[k]
        /\ g.parts.num_str = sorted[k].digits /\ sorted[k] \in nodes
        /\ g.count > 0 => sorted[k].digits # <<>>
    BY <1>3, <1>4, <2>1, StartIs
  <2>3. \A j \in 0..g.count : /\ k + j \in 1..Len(sorted) /\ IsName(sorted[k + j])
                              /\ sorted[k + j].prefix = sorted[k].prefix /\ sorted[k + j].domain = sorted[k].domain
                              /\ Len(sorted[k + j].digits) = Len(sorted[k].digits)
                              /\ atoi(sorted[k + j].digits) = atoi(sorted[k].digits) + j
    BY <1>3, <1>4, <2>1, StartIs
  <2>4. QED BY <1>3, <2>2, <2>3
<1>6. count \in 0..count BY <1>2
<1>7. /\ k + count \in 1..Len(sorted) /\ IsName(sorted[k + count])
      /\ sorted[k + count].prefix = sorted[k].prefix /\ sorted[k + count].domain = sorted[k].domain
      /\ Len(sorted[k + count].digits) = Len(sorted[k].digits)
      /\ atoi(sorted[k + count].digits) = atoi(sorted[k].digits) + count
  BY <1>5, <1>6
<1>8. CASE sorted[k].digits # <<>>
  <2>1. prev.prefix = sorted[k].prefix /\ prev.domain = sorted[k].domain /\ prev.num = atoi(sorted[k].digits)
    BY <1>5, <1>8 DEF node_to_parts
  <2>2. sorted[i - 1].digits # <<>>
    <3>1. sorted[k].digits \in Seq(Int) /\ sorted[i - 1].digits \in Seq(Int) BY <1>3, <1>5, <1>7, NameIs
    <3>2. Len(sorted[k].digits) # 0 BY <1>8, <3>1, EmptySeq
    <3>3. Len(<<>>) = 0 OBVIOUS
    <3>4. QED BY <1>3, <1>7, <3>2, <3>3
  <2>3. QED BY <1>2, <1>3, <1>5, <1>7, <1>8, <2>1, <2>2 DEF g, k
<1>9. CASE sorted[k].digits = <<>>
  <2>1. count = 0 /\ k = i - 1 BY <1>2, <1>3, <1>5, <1>9
  <2>2. prev.prefix = 0 /\ prev.domain = 0 /\ prev.num = 0 BY <1>5, <1>9 DEF node_to_parts
  <2>3. QED BY <1>2, <1>3, <1>5, <1>7, <1>9, <2>1, <2>2 DEF g, k
<1>10. QED BY <1>8, <1>9

(* A name joins the group if it continues the run, and no other does.      *)
LEMMA JoinsAre ==
  ASSUME IInv, JInv, Ordinary(nodes), Looking
  PROVE  Follows /\ SameWidth <=> i > 1 /\ Continues(sorted[i - 1], sorted[i])
<1> DEFINE x == sorted[i]
           y == sorted[i - 1]
<1>1. /\ Parts = node_to_parts(x) /\ Parts.num \in 0..IntMax /\ Parts.num_str = x.digits
      /\ i \in 1..Cardinality(nodes) /\ x \in nodes /\ IsName(x) /\ pc = "loop"
  <2>1. i \in 1..Cardinality(nodes) BY PartsIs
  <2>2. sorted[i] \in nodes BY <2>1 DEF IInv
  <2>3. QED BY <2>1, <2>2, PartsIs, NodesAre DEF Parts, Looking
<1>2. /\ x.digits # <<>> => Parts.prefix = x.prefix /\ Parts.domain = x.domain /\ Parts.num = atoi(x.digits)
      /\ x.digits = <<>> => Parts.prefix = 0 /\ Parts.domain = 0 /\ Parts.num = 0
  BY <1>1 DEF node_to_parts
<1>3. i = 1 \/ i > 1 BY <1>1
<1>4. IntMax \in Nat BY IntMaxAssumption DEF IntMaxAssumption
<1>5. ASSUME Follows, SameWidth PROVE i > 1 /\ Continues(y, x)
  <2>1. i > 1 /\ Parts.num = prev.num + count + 1 BY <1>5, FollowsIs
  <2>2. Parts.prefix = prev.prefix /\ Parts.domain = prev.domain /\ Len(Parts.num_str) = prev_num_str_len
    BY <1>5 DEF Follows, SameWidth
  <2>3. count \in Nat /\ prev.num \in 0..IntMax BY <1>1, <2>1, OpenIs, PrevIs
  <2>4. Parts.num # 0 BY <2>1, <2>3
  <2>5. x.digits # <<>> BY <1>2, <2>4
  <2>6. JOpen BY <1>1, <2>1 DEF JInv
  <2>7. CASE prev.num_str # <<>>
    <3>1. /\ y.prefix = prev.prefix /\ y.domain = prev.domain /\ Len(y.digits) = Len(prev.num_str)
          /\ y.digits # <<>> /\ atoi(y.digits) = prev.num + count
      BY <1>1, <2>1, <2>7, OpenIs
    <3>2. prev_num_str_len = Len(prev.num_str) BY <2>6, <2>7 DEF JOpen, WidthRead
    <3>3. atoi(x.digits) = atoi(y.digits) + 1 BY <1>2, <2>1, <2>5, <3>1
    <3>4. QED BY <1>1, <1>2, <2>1, <2>2, <2>5, <3>1, <3>2, <3>3 DEF Continues
  <2>8. CASE prev.num_str = <<>>
    <3>1. /\ count = 0 /\ y.digits = <<>> /\ prev.prefix = 0 /\ prev.domain = 0 /\ prev.num = 0
          /\ i - 1 \in 1..Len(sorted) /\ IsName(y)
      BY <1>1, <2>1, <2>8, OpenIs
    <3>2. Bare(x, 1) BY <1>2, <2>1, <2>2, <2>5, <3>1 DEF Bare
    <3>3. prev_num_str_len # -1
      <4>1. x.digits \in Seq(Int) BY <1>1, NameIs
      <4>2. Len(x.digits) \in Nat BY <4>1
      <4>3. QED BY <1>1, <2>2, <4>2
    <3>4. PICK k \in 1..i - 2 : sorted[k].digits # <<>> /\ Len(sorted[k].digits) = prev_num_str_len
      BY <2>6, <2>8, <3>3 DEF JOpen, WidthRead
    <3>5. k \in 1..Len(sorted) /\ k < i - 1 BY <1>1, <3>1
    <3>6. compare_parts(sorted[k], y) BY <1>1, <3>1, <3>5, Ordered
    <3>7. sorted[k] \in nodes /\ y \in nodes BY <3>1, <3>5, NodesAre DEF IInv
    <3>8. IsName(sorted[k]) BY <3>7, NodesAre
    <3>9. Bare(sorted[k], 0)
      <4> DEFINE a == node_to_parts(sorted[k])
                 b == node_to_parts(y)
      <4>1. b.prefix = 0 /\ b.domain = 0 /\ b.num = 0 BY <3>1 DEF node_to_parts
      <4>2. a.prefix = sorted[k].prefix /\ a.domain = sorted[k].domain /\ a.num = atoi(sorted[k].digits)
        BY <3>4 DEF node_to_parts
      <4>3. a.prefix \in Nat /\ a.domain \in Nat /\ a.num \in Nat BY <1>4, <3>8, PartsAre
      <4>4. \/ a.prefix < b.prefix
            \/ a.prefix = b.prefix /\ a.domain < b.domain
            \/ a.prefix = b.prefix /\ a.domain = b.domain /\ a.num < b.num
            \/ a.prefix = b.prefix /\ a.domain = b.domain /\ a.num = b.num
        BY <3>6 DEF compare_parts
      <4> HIDE DEF a, b
      <4>5. a.prefix = 0 /\ a.domain = 0 /\ a.num = 0 BY <4>1, <4>3, <4>4
      <4>6. QED BY <3>4, <4>2, <4>5 DEF Bare
    <3>10. Len(sorted[k].digits) # Len(x.digits) BY <1>1, <3>1, <3>2, <3>7, <3>9 DEF Ordinary
    <3>11. QED BY <1>1, <2>2, <3>4, <3>10
  <2>9. QED BY <2>7, <2>8
<1>6. ASSUME i > 1, Continues(y, x) PROVE Follows /\ SameWidth
  <2>1. /\ y.digits # <<>> /\ x.prefix = y.prefix /\ x.domain = y.domain
        /\ Len(x.digits) = Len(y.digits) /\ atoi(x.digits) = atoi(y.digits) + 1
    BY <1>6 DEF Continues
  <2>2. prev.num_str # <<>> BY <1>1, <1>6, <2>1, OpenIs
  <2>3. /\ y.prefix = prev.prefix /\ y.domain = prev.domain /\ Len(y.digits) = Len(prev.num_str)
        /\ atoi(y.digits) = prev.num + count
    BY <1>1, <1>6, <2>2, OpenIs
  <2>4. x.digits # <<>>
    <3>1. x.digits \in Seq(Int) /\ y.digits \in Seq(Int) BY <1>1, <1>6, NameIs, OpenIs
    <3>2. Len(y.digits) # 0 BY <2>1, <3>1, EmptySeq
    <3>3. Len(<<>>) = 0 OBVIOUS
    <3>4. QED BY <2>1, <3>2, <3>3
  <2>5. JOpen BY <1>1, <1>6 DEF JInv
  <2>6. prev_num_str_len = Len(prev.num_str) BY <2>2, <2>5 DEF JOpen, WidthRead
  <2>7. Parts.num = (prev.num + count) + 1 /\ Parts.prefix = prev.prefix /\ Parts.domain = prev.domain
    BY <1>2, <2>1, <2>3, <2>4
  <2>8. prev.num \in Int /\ count \in Nat BY <1>1, <1>6, OpenIs, PrevIs
  <2>9. Wrap(prev.num + count + 1) = prev.num + count + 1 BY <1>1, <1>4, <2>7, <2>8 DEF Wrap
  <2>10. Parts.num = Wrap(prev.num + count + 1) BY <2>7, <2>8, <2>9
  <2>11. QED BY <1>1, <2>1, <2>3, <2>6, <2>7, <2>10 DEF Follows, SameWidth
<1>7. QED BY <1>5, <1>6

LEMMA JCall ==
  ASSUME IInv, JInv, NEW S \in Asked, do_range_compress(S)
  PROVE  JInv'
<1>1. /\ nodes' = S /\ sorted' = do_range_sort(S) /\ pc' = (IF S = {} THEN "returned" ELSE "loop")
      /\ UNCHANGED <<i, prev_num_str_len, groups, warned>> /\ pc = "idle"
  BY DEF do_range_compress, loop
<1>2. i = 1 /\ groups = <<>> /\ prev_num_str_len = -1 /\ ~warned BY <1>1 DEF IInv, JInv
<1>3. do_range_sort(nodes)' = do_range_sort(S) BY <1>1 DEF do_range_sort
<1>4. QED BY <1>1, <1>2, <1>3 DEF JInv

LEMMA JReturn == Return => JInv'
BY DEF Return, JInv

LEMMA SortStays ==
  ASSUME UNCHANGED <<nodes, sorted>>
  PROVE  /\ do_range_sort(nodes)' = do_range_sort(nodes)
         /\ \A m : RunsUpto(m)' = RunsUpto(m)
         /\ Runs' = Runs
BY DEF do_range_sort, RunsUpto, Runs

LEMMA GroupsStay ==
  ASSUME UNCHANGED <<sorted, groups>>
  PROVE  (AllStart' <=> AllStart) /\ \A j : HasPlace(j)' <=> HasPlace(j)
BY DEF AllStart, HasPlace, StartsAt

LEMMA JJoin ==
  ASSUME IInv, JInv, Ordinary(nodes), Join
  PROVE  JInv'
<1>1. Looking /\ Follows /\ SameWidth /\ pc = "loop" BY DEF Join, Looking
<1>2. /\ count' = count + 1 /\ i' = i + 1
      /\ UNCHANGED <<nodes, sorted, prev, prev_num_str_len, groups, pc, warned>>
  BY DEF Join
<1>3. i > 1 /\ Continues(sorted[i - 1], sorted[i]) BY <1>1, JoinsAre
<1>4. JOpen BY <1>1, <1>3 DEF JInv
<1>5. i \in 1..Len(sorted) /\ Len(sorted) \in Nat /\ count \in Nat /\ count <= i - 2
  BY <1>1, <1>4, NodesAre, PartsIs DEF IInv, JOpen
<1>6. i' - count' - 1 = i - count - 1 /\ i' - 1 = i /\ i' - count' - 2 = i - count - 2 /\ count' <= i' - 2 /\ i' > 1 /\ i' # 1
  BY <1>2, <1>3, <1>5
<1>7. StartsAt(Group(prev, count), i - count - 1)'
  <2> DEFINE k == i - count - 1
  <2>1. /\ k \in 1..Len(sorted) /\ prev = node_to_parts(sorted[k])
        /\ \A j \in k + 1..k + count : Continues(sorted[j - 1], sorted[j])
    BY <1>4 DEF JOpen, StartsAt, Group
  <2>2. k + (count + 1) <= Len(sorted) /\ k + (count + 1) = i BY <1>5
  <2>3. k + 1..k + (count + 1) = (k + 1..k + count) \union {i} BY <1>5, <2>2
  <2>4. \A j \in k + 1..k + (count + 1) : Continues(sorted[j - 1], sorted[j]) BY <1>3, <2>1, <2>3
  <2> HIDE DEF k
  <2>5. i' - count' - 1 = k BY <1>6 DEF k
  <2>6. Group(prev, count)' = [parts |-> prev, count |-> count + 1] BY <1>2 DEF Group
  <2>7. QED BY <1>2, <2>1, <2>2, <2>4, <2>5, <2>6 DEF StartsAt, Group
<1>8. WidthRead'
  <2>1. 1..i - 2 \subseteq 1..i' - 2 BY <1>2, <1>5
  <2>2. QED BY <1>2, <1>4, <2>1 DEF JOpen, WidthRead
<1>9. (Len(groups) + 1 = Cardinality(RunsUpto(i - 1)))'
  <2>1. Cardinality(RunsUpto(i)) = Cardinality(RunsUpto(i - 1)) BY <1>3, <1>5, RunsStep
  <2>2. Len(groups) + 1 = Cardinality(RunsUpto(i)) BY <1>4, <2>1 DEF JOpen
  <2>4. QED BY <1>2, <1>6, <2>2 DEF RunsUpto
<1>10. AllStart' /\ \A j \in 1..i' - count' - 2 : HasPlace(j)' BY <1>2, <1>4, <1>6, GroupsStay DEF JOpen
<1>11. JOpen' BY <1>6, <1>7, <1>8, <1>9, <1>10 DEF JOpen
<1>12. QED BY <1>1, <1>2, <1>6, <1>11, SortStays DEF JInv

(* The group that was open has its names, and what was in a place before.  *)
LEMMA CloseIs ==
  ASSUME IInv, JInv, pc = "loop", i > 1, UNCHANGED sorted, groups' = Append(groups, Group(prev, count))
  PROVE  AllStart' /\ (\A j \in 1..i - 1 : HasPlace(j)') /\ Len(groups') = Cardinality(RunsUpto(i - 1))
<1> DEFINE h == Group(prev, count)
           n == Len(groups)
<1>1. JOpen BY DEF JInv
<1>2. groups \in Seq([parts : PartsOf, count : 0..Cardinality(nodes)]) BY DEF IInv
<1>3. /\ n \in Nat /\ Len(groups') = n + 1 /\ groups'[n + 1] = h
      /\ \A m \in 1..n : groups'[m] = groups[m]
  <2>1. \A S, e : groups \in Seq(S) => /\ Len(groups) \in Nat /\ Len(Append(groups, e)) = Len(groups) + 1
                                       /\ Append(groups, e)[Len(groups) + 1] = e
                                       /\ \A m \in 1..Len(groups) : Append(groups, e)[m] = groups[m]
    OBVIOUS
  <2>2. QED BY <1>2, <2>1
<1>4. \A g, k : StartsAt(g, k)' <=> StartsAt(g, k) BY DEF StartsAt
<1>5. i - count - 1 \in Nat /\ StartsAt(h, i - count - 1) /\ h.count = count /\ i \in Nat /\ count \in Nat
  BY <1>1, OpenIs DEF JOpen, IInv
<1> HIDE DEF h, n
<1>6. ASSUME NEW m \in 1..n + 1 PROVE \E k \in Nat : StartsAt(groups'[m], k)
  <2>1. CASE m = n + 1 BY <1>3, <1>5, <2>1
  <2>2. CASE m # n + 1
    <3>1. m \in 1..n BY <1>3, <2>2
    <3>2. QED BY <1>1, <1>3, <3>1 DEF JOpen, AllStart, n
  <2>3. QED BY <2>1, <2>2
<1>7. AllStart' BY <1>3, <1>4, <1>6 DEF AllStart
<1>8. ASSUME NEW j \in 1..i - 1 PROVE \E m \in 1..n + 1 : \E k \in Nat : StartsAt(groups'[m], k) /\ j \in k..k + groups'[m].count
  <2>1. CASE j <= i - count - 2
    <3>1. j \in 1..i - count - 2 BY <1>5, <2>1
    <3>2. HasPlace(j) BY <1>1, <3>1 DEF JOpen
    <3>3. PICK m \in 1..n : \E k \in Nat : StartsAt(groups[m], k) /\ j \in k..k + groups[m].count
      BY <3>2 DEF HasPlace, n
    <3>4. m \in 1..n + 1 /\ groups'[m] = groups[m] BY <1>3
    <3>5. QED BY <3>3, <3>4
  <2>2. CASE ~(j <= i - count - 2)
    <3>1. j \in i - count - 1..(i - count - 1) + count /\ n + 1 \in 1..n + 1 BY <1>3, <1>5, <2>2
    <3>2. QED BY <1>3, <1>5, <3>1
  <2>3. QED BY <2>1, <2>2
<1>9. \A j \in 1..i - 1 : HasPlace(j)' BY <1>3, <1>4, <1>8 DEF HasPlace
<1>10. QED BY <1>1, <1>3, <1>7, <1>9 DEF JOpen, n

LEMMA ClosedGroups ==
  ASSUME IInv, JInv, Ordinary(nodes), pc = "loop"
  PROVE  /\ i > 1 => Closed = Append(groups, Group(prev, count)) /\ Closed # groups
         /\ i = 1 => Closed = groups
<1>1. i = 1 => Closed = groups BY PrevIs DEF Closed
<1>2. ASSUME i > 1 PROVE Closed = Append(groups, Group(prev, count)) /\ Closed # groups
  <2>1. prev.full_name \in nodes BY <1>2, OpenIs
  <2>2. prev.full_name # EmptyName BY <2>1 DEF Ordinary
  <2>3. Closed = Append(groups, Group(prev, count)) BY <2>2 DEF Closed
  <2>4. Len(Append(groups, Group(prev, count))) = Len(groups) + 1 /\ Len(groups) \in Nat BY ClosedIs DEF IInv
  <2>5. QED BY <2>3, <2>4
<1>3. QED BY <1>1, <1>2

LEMMA JStart ==
  ASSUME IInv, JInv, Ordinary(nodes), StartGroup
  PROVE  JInv'
<1>1. Looking /\ ~(Follows /\ SameWidth) /\ pc = "loop" BY DEF StartGroup, Starts, Looking
<1>2. /\ groups' = Closed /\ prev' = Parts /\ count' = 0 /\ i' = i + 1
      /\ prev_num_str_len' = (IF Parts.num_str = <<>> THEN prev_num_str_len ELSE Len(Parts.num_str))
      /\ UNCHANGED <<nodes, sorted, pc, warned>>
  BY DEF StartGroup
<1>3. i = 1 \/ (i > 1 /\ ~Continues(sorted[i - 1], sorted[i]))
  <2>1. i = 1 \/ i > 1 BY DEF IInv
  <2>2. QED BY <1>1, <2>1, JoinsAre
<1>4. /\ i \in 1..Len(sorted) /\ Len(sorted) \in Nat /\ Parts = node_to_parts(sorted[i])
      /\ Parts.num_str = sorted[i].digits
  BY <1>1, NodesAre, PartsIs DEF Parts
<1>5. /\ i' - count' - 1 = i /\ i' - 1 = i /\ i' - count' - 2 = i - 1 /\ count' <= i' - 2
      /\ i' > 1 /\ i' # 1 /\ i' - 2 = i - 1
  BY <1>2, <1>4
<1>6. StartsAt(Group(prev, count), i - count - 1)'
  <2>1. Group(prev, count)' = [parts |-> Parts, count |-> 0] BY <1>2 DEF Group
  <2>2. i + 0 <= Len(sorted) /\ i + 1..i + 0 = {} BY <1>4
  <2>3. QED BY <1>2, <1>4, <1>5, <2>1, <2>2 DEF StartsAt, Group
<1>7. WidthRead'
  <2>1. CASE Parts.num_str # <<>> BY <1>2, <2>1 DEF WidthRead
  <2>2. CASE Parts.num_str = <<>>
    <3>1. prev_num_str_len' = prev_num_str_len BY <1>2, <2>2
    <3>2. \/ prev_num_str_len = -1
          \/ \E k \in 1..i - 1 : sorted[k].digits # <<>> /\ Len(sorted[k].digits) = prev_num_str_len
      <4>1. CASE i = 1 BY <1>1, <4>1 DEF JInv
      <4>2. CASE i > 1
        <5>1. JOpen BY <1>1, <4>2 DEF JInv
        <5>2. CASE prev.num_str # <<>>
          <6>1. prev_num_str_len = Len(prev.num_str) BY <5>1, <5>2 DEF JOpen, WidthRead
          <6>2. prev.num_str = sorted[i - count - 1].digits /\ count \in Nat /\ i - count - 1 \in Nat
            BY <1>1, <4>2, OpenIs
          <6>3. i - count - 1 \in 1..Len(sorted) BY <5>1 DEF JOpen, StartsAt
          <6>4. i - count - 1 \in 1..i - 1 BY <1>4, <6>2, <6>3
          <6>5. QED BY <5>2, <6>1, <6>2, <6>4
        <5>3. CASE prev.num_str = <<>>
          <6>1. 1..i - 2 \subseteq 1..i - 1 BY <1>4
          <6>2. QED BY <5>1, <5>3, <6>1 DEF JOpen, WidthRead
        <5>4. QED BY <5>2, <5>3
      <4>3. QED BY <1>3, <4>1, <4>2
    <3>3. QED BY <1>2, <1>5, <2>2, <3>1, <3>2 DEF WidthRead
  <2>3. QED BY <2>1, <2>2
<1>8. Cardinality(RunsUpto(i)) = Cardinality(RunsUpto(i - 1)) + 1 BY <1>3, <1>4, RunsStep
<1>9. Len(groups') = Cardinality(RunsUpto(i - 1)) /\ AllStart' /\ \A j \in 1..i - 1 : HasPlace(j)'
  <2>1. CASE i = 1
    <3>1. groups' = <<>> BY <1>1, <1>2, <2>1, ClosedGroups DEF JInv
    <3>2. i - 1 = 0 /\ 1..i - 1 = {} /\ Len(<<>>) = 0 /\ 1..0 = {} BY <2>1
    <3>3. QED BY <3>1, <3>2, RunsStep DEF AllStart
  <2>2. CASE i > 1 BY <1>1, <1>2, <2>2, CloseIs, ClosedGroups
  <2>3. QED BY <1>3, <2>1, <2>2
<1>10. (Len(groups) + 1 = Cardinality(RunsUpto(i - 1)))' BY <1>2, <1>5, <1>8, <1>9 DEF RunsUpto
<1>11. JOpen' BY <1>5, <1>6, <1>7, <1>9, <1>10 DEF JOpen
<1>12. QED BY <1>1, <1>2, <1>5, <1>11, SortStays DEF JInv

LEMMA JGiveUp ==
  ASSUME IInv, JInv, Ordinary(nodes), TooManyGroups
  PROVE  JInv'
<1>1. Looking /\ ~(Follows /\ SameWidth) /\ pc = "loop" /\ Full BY DEF TooManyGroups, Starts, Looking
<1>2. groups' = <<>> /\ pc' = "returned" /\ warned' = TRUE /\ UNCHANGED <<nodes, sorted, i, prev, count, prev_num_str_len>>
  BY DEF TooManyGroups, loop
<1>3. i > 1 /\ Len(groups) + 1 = MAX_NUM_GROUPS
  <2>1. i = 1 \/ i > 1 BY DEF IInv
  <2>2. i > 1 BY <1>1, <2>1, ClosedGroups DEF Full
  <2>3. QED BY <1>1, <2>2, ClosedGroups, ClosedIs DEF Full
<1>4. ~Continues(sorted[i - 1], sorted[i]) BY <1>1, <1>3, JoinsAre
<1>5. i \in 1..Len(sorted) /\ Len(sorted) \in Nat BY <1>1, NodesAre, PartsIs
<1>6. Cardinality(RunsUpto(i)) = MAX_NUM_GROUPS + 1
  <2>1. JOpen BY <1>1, <1>3 DEF JInv
  <2>2. Cardinality(RunsUpto(i)) = Cardinality(RunsUpto(i - 1)) + 1 BY <1>4, <1>5, RunsStep
  <2>3. QED BY <1>3, <2>1, <2>2 DEF JOpen
<1>7. MAX_NUM_GROUPS \in Nat BY MaxAssumption DEF MaxAssumption
<1>8. Runs > MAX_NUM_GROUPS
  <2>1. Cardinality(RunsUpto(i)) <= Cardinality(RunsUpto(Len(sorted))) /\ Cardinality(RunsUpto(Len(sorted))) \in Nat
    BY <1>5, RunsStep
  <2>2. QED BY <1>6, <1>7, <2>1, RunsAre
<1>9. nodes # {} BY <1>1 DEF IInv
<1>10. QED BY <1>1, <1>2, <1>8, <1>9, SortStays DEF JInv

LEMMA JFinish ==
  ASSUME IInv, JInv, Ordinary(nodes), Finish
  PROVE  JInv'
<1>1. /\ pc = "loop" /\ i > Len(sorted) /\ groups' = Append(groups, Group(prev, count)) /\ pc' = "returned"
      /\ UNCHANGED <<nodes, sorted, i, prev, count, prev_num_str_len, warned>>
  BY DEF Finish, loop
<1>2. nodes # {} /\ ~warned BY <1>1 DEF IInv, JInv
<1>3. Len(sorted) \in Nat \ {0}
  <2>1. Len(sorted) = Cardinality(nodes) /\ IsFiniteSet(nodes) BY NodesAre
  <2>2. QED BY <1>2, <2>1, FS_EmptySet DEF IInv
<1>4. i > 1 /\ i - 1 = Len(sorted)
  <2>1. i \in 1..Len(sorted) + 1 BY NodesAre DEF IInv
  <2>2. QED BY <1>1, <1>3, <2>1
<1>5. Len(groups') = Runs /\ AllStart' /\ \A j \in 1..Len(sorted) : HasPlace(j)'
  BY <1>1, <1>4, CloseIs, RunsAre
<1>6. QED BY <1>1, <1>2, <1>5, SortStays DEF JInv

(* The groups of an ordinary set are its runs. *)
JOrdinary == Ordinary(nodes) => JInv

LEMMA JInductive == IInv /\ JOrdinary /\ [Next]_vars => JOrdinary'
<1>1. SUFFICES ASSUME IInv, JOrdinary, [Next]_vars, Ordinary(nodes') PROVE JInv' BY DEF JOrdinary, Ordinary
<1>2. CASE UNCHANGED vars
  <2>1. UNCHANGED <<nodes, sorted, i, prev, count, prev_num_str_len, groups, pc, warned>> BY <1>2 DEF vars, loop
  <2>2. JInv BY <1>1, <2>1 DEF JOrdinary
  <2>3. JOpen' <=> JOpen
    BY <2>1 DEF JOpen, StartsAt, AllStart, HasPlace, WidthRead, RunsUpto
  <2>4. QED BY <2>1, <2>2, <2>3, SortStays, GroupsStay DEF JInv
<1>3. CASE Return BY <1>3, JReturn
<1>4. ASSUME NEW S \in Asked, do_range_compress(S) PROVE JInv'
  <2>1. nodes = {} BY <1>1, <1>4 DEF IInv, do_range_compress
  <2>2. JInv BY <1>1, <2>1 DEF JOrdinary, Ordinary
  <2>3. QED BY <1>1, <1>4, <2>2, JCall
<1>5. CASE Join \/ StartGroup \/ TooManyGroups \/ Finish
  <2>1. UNCHANGED nodes BY <1>5 DEF Join, StartGroup, TooManyGroups, Finish
  <2>2. Ordinary(nodes) /\ JInv BY <1>1, <2>1 DEF JOrdinary
  <2>3. QED BY <1>1, <1>5, <2>2, JJoin, JStart, JGiveUp, JFinish
<1>6. QED BY <1>1, <1>2, <1>3, <1>4, <1>5 DEF Next

LEMMA JInvariant == Spec => [](IInv /\ JOrdinary)
<1>1. Init => JOrdinary BY JInitially DEF JOrdinary
<1>2. QED BY <1>1, Invariant, JInductive, PTL DEF Spec

(***************************************************************************)
(* A program's texts.  What has been expanded of the compressed text, and  *)
(* what is being expanded, are the names of the groups so far.             *)
(***************************************************************************)
textvars == <<vars, expansion, at, back>>

LEMMA TextIsCompress == SpecText => Spec
<1>1. InitText => Init BY DEF InitText
<1>2. [NextText]_textvars => [Next]_vars
  <2>1. SUFFICES ASSUME NextText PROVE [Next]_vars BY DEF textvars
  <2>2. CASE \E p \in Ranges : Expand(p) BY <2>2 DEF Expand
  <2>3. CASE Expanded \/ AddName \/ ExpandName \/ ExpandGroup
    BY <2>3 DEF Expanded, AddName, ExpandName, ExpandGroup, NextGroup
  <2>4. CASE Compress BY <2>4 DEF Compress, Next
  <2>5. CASE Done BY <2>5 DEF Done, Next
  <2>6. QED BY <2>1, <2>2, <2>3, <2>4, <2>5 DEF NextText
<1>3. QED BY <1>1, <1>2, PTL DEF SpecText, Spec, textvars

NamesBefore(n) == UNION {NamesOf(groups[m]) : m \in 1..n - 1}

TInv ==
  /\ pc # "returned" => at = 1 /\ back = {}
  /\ pc = "loop" => parts = L!NoParts
  /\ pc = "returned" => /\ at \in 1..Len(groups) + 1
                        /\ back \union Meaning(parts) = NamesBefore(at)

(* What ~Looping means. *)
LEMMA ExpandedAll ==
  ASSUME EInv, ~L!Looping
  PROVE  r = Meaning(parts)
<1> DEFINE f == atoi(LastDigits(parts))
<1>1. parts \in RangeParts /\ l = atoi(parts.last) BY DEF EInv
<1>2. f \in Nat /\ l \in Nat BY <1>1, RangeIs, AtoiBound
<1>3. Meaning(parts) = Added(parts, f..l) BY <1>1, AddedIsMeaning
<1>4. ~(turn <= l) BY DEF L!Looping
<1>5. CASE f > l
  <2>1. r = {} BY <1>5 DEF EInv
  <2>2. f..l = {} BY <1>2, <1>5
  <2>3. Added(parts, {}) = {} BY DEF Added
  <2>4. QED BY <1>3, <2>1, <2>2, <2>3
<1>6. CASE ~(f > l)
  <2>1. l < IntMax BY <1>4, <1>6 DEF EInv
  <2>2. turn \in f..l + 1 /\ r = Added(parts, f..turn - 1) BY <1>6, <2>1 DEF EInv
  <2>3. turn - 1 = l BY <1>2, <1>4, <2>2
  <2>4. QED BY <1>3, <2>2, <2>3
<1>7. QED BY <1>5, <1>6

LEMMA NothingMeant == Meaning(L!NoParts) = {}
<1>1. L!NoParts \in RangeParts /\ LastDigits(L!NoParts) = <<1>> /\ atoi(<<1>>) = 1 /\ atoi(<<0>>) = 0 BY NoPartsAre
<1>2. L!NoParts.last = <<0>> BY DEF L!NoParts
<1>3. Meaning(L!NoParts) = Added(L!NoParts, 1..0) BY <1>1, <1>2, AddedIsMeaning
<1>4. 1..0 = {} OBVIOUS
<1>5. QED BY <1>3, <1>4 DEF Added

(* The next group's text is a range, if it is more than a name. *)
LEMMA NextGroupIs ==
  ASSUME IInv, pc = "returned", at \in 1..Len(groups)
  PROVE  /\ groups[at].parts \in PartsOf /\ groups[at].count \in Nat
         /\ groups[at].parts.num_str # <<>> /\ groups[at].count > 0 => fmt_group(groups[at]) \in RangeParts
<1> DEFINE g == groups[at]
<1>1. g.parts \in PartsOf /\ g.count \in Nat
  <2>1. groups \in Seq([parts : PartsOf, count : 0..Cardinality(nodes)]) BY DEF IInv
  <2>2. g \in [parts : PartsOf, count : 0..Cardinality(nodes)] BY <2>1, ElementOfSeq
  <2>3. QED BY <2>2
<1>2. PICK x \in nodes : g.parts = node_to_parts(x) BY <1>1 DEF PartsOf
<1>3. IsName(x) BY NodesAre
<1> HIDE DEF g
<1>4. ASSUME g.parts.num_str # <<>>, g.count > 0 PROVE fmt_group(g) \in RangeParts
  <2> DEFINE n == g.parts.num
             m == g.parts.num + g.count
             t == ignore_common_prefix(n, m)
  <2>1. /\ g.parts.num_str = x.digits /\ x.digits \in Seq(Digit) /\ g.parts.prefix \in Nat /\ g.parts.domain \in Nat
        /\ n \in Nat
    BY <1>2, <1>3, PartsAre, IntMaxAssumption DEF IsName, NodeName, IntMaxAssumption
  <2>2. m \in Nat /\ n < m BY <1>1, <1>4, <2>1 DEF g
  <2> HIDE DEF n, m
  <2>3. Width(m) \in Nat /\ m < Power[Width(m)] BY <2>2, WidthIs
  <2>4. t \in Seq(Digit) /\ t # <<>> BY <2>1, <2>2, <2>3, SuffixIs
  <2> HIDE DEF t
  <2>5. fmt_group(g) = [prefix |-> g.parts.prefix, first |-> x.digits, last |-> t, domain |-> g.parts.domain]
    BY <2>1 DEF fmt_group, t, n, m
  <2>6. QED BY <1>4, <2>1, <2>4, <2>5 DEF RangeParts
<1>5. QED BY <1>1, <1>4 DEF g

EText == EInv /\ at \in Nat \ {0}

LEMMA EInitially == InitText => EText
<1>1. SUFFICES ASSUME InitText PROVE EText OBVIOUS
<1>2. parts = L!NoParts /\ pad1 = <<>> /\ length = 1 /\ turn = 1 /\ l = 0 /\ r = {} /\ at = 1
  BY <1>1 DEF InitText, L!Init
<1>3. Len(<<1>>) = 1 /\ L!NoParts.last = <<0>> BY DEF L!NoParts
<1>4. QED BY <1>2, <1>3, NoPartsAre DEF EInv, EText

LEMMA EInductive == IInv /\ EText /\ [NextText]_textvars => EText'
<1>1. SUFFICES ASSUME IInv, EText, [NextText]_textvars PROVE EText' OBVIOUS
<1>2. at' \in Nat \ {0}
  <2>1. UNCHANGED at \/ at' = at + 1 \/ at' = 1
    BY <1>1 DEF textvars, NextText, Expand, Expanded, AddName, Compress, ExpandName, ExpandGroup, NextGroup, Done
  <2>2. QED BY <1>1, <2>1 DEF EText
<1>3. EInv'
  <2>1. CASE UNCHANGED expansion BY <1>1, <2>1 DEF expansion, EInv, EText
  <2>2. ASSUME NEW p \in Ranges, Expand(p) PROVE EInv'
    <3>1. p \in RangeParts BY RangesAssumption DEF RangesAssumption
    <3>2. QED BY <2>2, <3>1, ExpandKeeps DEF Expand
  <2>3. CASE Forget BY <2>3, ForgetKeeps
  <2>4. CASE AddName BY <1>1, <2>4, AddKeeps DEF AddName, EText
  <2>5. CASE ExpandGroup
    <3>1. /\ pc = "returned" /\ groups[at].count # 0 /\ groups[at].parts.num_str # <<>> /\ at <= Len(groups)
          /\ L!range_from_rangeparts(fmt_group(groups[at]))
      BY <2>5 DEF ExpandGroup, NextGroup, Alone
    <3>2. groups \in Seq([parts : PartsOf, count : 0..Cardinality(nodes)]) BY <1>1 DEF IInv
    <3>3. Len(groups) \in Nat BY <3>2
    <3>4. at \in 1..Len(groups) BY <1>1, <3>1, <3>3 DEF EText
    <3>5. groups[at].count > 0 BY <1>1, <3>1, <3>4, NextGroupIs
    <3>6. fmt_group(groups[at]) \in RangeParts BY <1>1, <3>1, <3>4, <3>5, NextGroupIs
    <3>7. QED BY <3>1, <3>6, ExpandKeeps
  <2>6. QED BY <1>1, <2>1, <2>2, <2>3, <2>4, <2>5 DEF NextText, Expanded, ExpandName, Compress, Done, textvars
<1>4. QED BY <1>2, <1>3 DEF EText

LEMMA EInvariant == SpecText => [](IInv /\ EText)
BY TextIsCompress, Invariant, EInitially, EInductive, PTL DEF SpecText, textvars

(* The group to expand is one of the runs. *)
LEMMA RunIs ==
  ASSUME IInv, JInv, pc = "returned", NEW m \in 1..Len(groups)
  PROVE  /\ groups[m].count \in Nat
         /\ groups[m].count # 0 => groups[m].parts.num_str # <<>>
         /\ NamesOf(groups[m]) \subseteq nodes
         /\ \A k \in Nat : StartsAt(groups[m], k) => NamesOf(groups[m]) = {sorted[j] : j \in k..k + groups[m].count}
<1>1. groups \in Seq([parts : PartsOf, count : 0..Cardinality(nodes)]) /\ Cardinality(nodes) \in Nat BY DEF IInv
<1>2. groups[m] \in [parts : PartsOf, count : 0..Cardinality(nodes)] BY <1>1, ElementOfSeq
<1>3. groups[m].count \in Nat BY <1>1, <1>2
<1>4. ~warned /\ nodes # {}
  <2>1. groups # <<>>
    <3>1. Len(<<>>) = 0 OBVIOUS
    <3>2. SUFFICES ASSUME groups = <<>> PROVE FALSE OBVIOUS
    <3>3. m \in 1..0 BY <3>1, <3>2
    <3>4. QED BY <3>3
  <2>2. QED BY <2>1 DEF JInv
<1>5. PICK k \in Nat : StartsAt(groups[m], k) BY <1>4 DEF JInv, AllStart
<1>6. \A n \in Nat : StartsAt(groups[m], n) => NamesOf(groups[m]) = {sorted[j] : j \in n..n + groups[m].count}
  BY <1>3, GroupIs
<1>7. \A j \in k..k + groups[m].count : sorted[j] \in nodes
  <2>1. k \in 1..Len(sorted) /\ k + groups[m].count <= Len(sorted) BY <1>5 DEF StartsAt
  <2>2. Len(sorted) = Cardinality(nodes) BY NodesAre
  <2>3. \A j \in k..k + groups[m].count : j \in 1..Cardinality(nodes) BY <1>1, <1>3, <2>1, <2>2
  <2>4. QED BY <2>3 DEF IInv
<1>8. groups[m].count # 0 => groups[m].parts.num_str # <<>>
  <2>1. SUFFICES ASSUME groups[m].count # 0 PROVE groups[m].parts.num_str # <<>> OBVIOUS
  <2>2. groups[m].count > 0 BY <1>3, <2>1
  <2>3. QED BY <1>3, <1>5, <2>2, GroupIs
<1>9. QED BY <1>3, <1>5, <1>6, <1>7, <1>8

LEMMA NamesGrow ==
  ASSUME NEW n \in Nat \ {0}
  PROVE  NamesBefore(n + 1) = NamesBefore(n) \union NamesOf(groups[n]) /\ NamesBefore(1) = {}
<1>1. 1..(n + 1) - 1 = (1..n - 1) \union {n} /\ 1..1 - 1 = {} OBVIOUS
<1>2. QED BY <1>1 DEF NamesBefore

TOrdinary == Ordinary(nodes) => TInv

LEMMA TInductive == IInv /\ IInv' /\ JOrdinary /\ EText /\ TOrdinary /\ [NextText]_textvars => TOrdinary'
<1>1. SUFFICES ASSUME IInv, IInv', JOrdinary, EText, TOrdinary, [NextText]_textvars, Ordinary(nodes') PROVE TInv'
  BY DEF TOrdinary, Ordinary
<1>2. CASE UNCHANGED <<vars, parts, at, back>>
  <2>1. UNCHANGED <<nodes, groups, pc>> BY <1>2 DEF vars
  <2>2. TInv BY <1>1, <2>1 DEF TOrdinary
  <2>3. NamesBefore(at)' = NamesBefore(at) BY <1>2, <2>1 DEF NamesBefore, NamesOf, fmt_group
  <2>4. L!NoParts' = L!NoParts BY DEF L!NoParts
  <2>5. QED BY <1>2, <2>1, <2>2, <2>3 DEF TInv, L!NoParts
<1>3. CASE \/ \E p \in Ranges : Expand(p)
           \/ Expanded
  <2>1. pc = "idle" /\ UNCHANGED <<nodes, pc, at, back>> BY <1>3 DEF Expand, Expanded, vars
  <2>2. TInv BY <1>1, <2>1 DEF TOrdinary
  <2>3. QED BY <2>1, <2>2 DEF TInv
<1>4. CASE AddName BY <1>2, <1>4 DEF AddName, L!Add
<1>5. CASE Compress
  <2>1. pc # "returned" /\ parts = L!NoParts /\ UNCHANGED <<parts, at, back>>
    BY <1>5 DEF Compress, expansion, Join, StartGroup, TooManyGroups, Finish, Starts, Looking, do_range_compress
  <2>2. TInv
    <3>1. nodes = nodes' \/ nodes = {}
      BY <1>1, <1>5 DEF Compress, Join, StartGroup, TooManyGroups, Finish, do_range_compress, IInv
    <3>2. Ordinary(nodes) BY <1>1, <3>1 DEF Ordinary
    <3>3. QED BY <1>1, <3>2 DEF TOrdinary
  <2>3. at' = 1 /\ back' = {} /\ Meaning(parts') = {} BY <2>1, <2>2, NothingMeant DEF TInv
  <2>4. Len(groups') \in Nat
    <3>1. (groups \in Seq([parts : PartsOf, count : 0..Cardinality(nodes)]))' BY <1>1 DEF IInv
    <3>2. QED BY <3>1
  <2>5. NamesBefore(at)' = {}
    <3>1. 1..1 - 1 = {} OBVIOUS
    <3>2. QED BY <2>3, <3>1 DEF NamesBefore
  <2>6. 1 \in 1..Len(groups') + 1 BY <2>4
  <2>7. QED BY <2>1, <2>3, <2>5, <2>6 DEF TInv, L!NoParts
<1>6. CASE ExpandName \/ ExpandGroup
  <2>1. pc = "returned" /\ at <= Len(groups) /\ ~L!Looping /\ at' = at + 1 /\ UNCHANGED <<nodes, sorted, groups, pc>>
    BY <1>6 DEF ExpandName, ExpandGroup, NextGroup, vars
  <2>2. TInv /\ JInv BY <1>1, <2>1 DEF TOrdinary, JOrdinary
  <2>3. r = Meaning(parts) BY <1>1, <2>1, ExpandedAll DEF EText
  <2>4. back \union r = NamesBefore(at) /\ at \in 1..Len(groups) + 1 BY <2>1, <2>2, <2>3 DEF TInv
  <2>5. Len(groups) \in Nat
    <3>1. groups \in Seq([parts : PartsOf, count : 0..Cardinality(nodes)]) BY <1>1 DEF IInv
    <3>2. QED BY <3>1
  <2>6. at \in 1..Len(groups) /\ at' \in 1..Len(groups') + 1 /\ at \in Nat \ {0} BY <2>1, <2>4, <2>5
  <2>7. groups[at].count # 0 => groups[at].parts.num_str # <<>>
    <3>1. \A m \in 1..Len(groups) : groups[m].count # 0 => groups[m].parts.num_str # <<>> BY <1>1, <2>1, <2>2, RunIs
    <3>2. QED BY <2>6, <3>1
  <2>8. back' \union Meaning(parts') = back \union r \union NamesOf(groups[at])
    <3>1. CASE ExpandName
      <4>1. Alone /\ back' = back \union r \union {groups[at].parts.full_name} /\ parts' = L!NoParts
        BY <2>7, <3>1 DEF ExpandName, Alone, Forget
      <4>2. NamesOf(groups[at]) = {groups[at].parts.full_name} BY <4>1 DEF NamesOf, Alone
      <4>3. QED BY <4>1, <4>2, NothingMeant
    <3>2. CASE ExpandGroup
      <4>1. ~Alone /\ back' = back \union r /\ parts' = fmt_group(groups[at])
        BY <3>2 DEF ExpandGroup, L!range_from_rangeparts
      <4>2. NamesOf(groups[at]) = Meaning(fmt_group(groups[at])) BY <4>1 DEF NamesOf, Alone
      <4>3. QED BY <4>1, <4>2
    <3>3. QED BY <1>6, <3>1, <3>2
  <2>9. NamesBefore(at)' = NamesBefore(at + 1) BY <2>1 DEF NamesBefore, NamesOf, fmt_group
  <2>10. NamesBefore(at + 1) = NamesBefore(at) \union NamesOf(groups[at]) BY <2>6, NamesGrow
  <2>11. QED BY <2>1, <2>4, <2>6, <2>8, <2>9, <2>10 DEF TInv
<1>7. CASE Done BY <1>7 DEF Done, Return, TInv
<1>8. QED BY <1>1, <1>2, <1>3, <1>4, <1>5, <1>6, <1>7 DEF NextText, textvars, expansion

LEMMA TInvariant == SpecText => [](IInv /\ JOrdinary /\ EText /\ TOrdinary)
<1>1. InitText => TOrdinary BY DEF InitText, Init, TOrdinary, TInv
<1>2. SpecText => [](IInv /\ JOrdinary /\ EText) BY TextIsCompress, JInvariant, EInvariant, PTL
<1>3. QED BY <1>1, <1>2, TInductive, PTL DEF SpecText, textvars

(***************************************************************************)
(* The theorems.                                                           *)
(***************************************************************************)

(* Every name keeps its place in the sorted array, and every group, open   *)
(* or closed, begins with one of the names.                                *)
THEOREM TypeCorrect == Spec => []TypeOK
<1>1. IInv => TypeOK
  <2> SUFFICES ASSUME IInv PROVE TypeOK OBVIOUS
  <2>1. Len(sorted) = Cardinality(nodes) /\ Cardinality(nodes) \in Nat BY NodesAre DEF IInv
  <2>2. i \in 1..Len(sorted) + 1 /\ count \in 0..Len(sorted) BY <2>1 DEF IInv
  <2>3. warned \in BOOLEAN BY DEF IInv
  <2>4. prev \in PartsOf \union {init_prev_parts} BY DEF IInv
  <2>5. groups \in Seq([parts : PartsOf, count : 0..Len(sorted)]) BY <2>1 DEF IInv
  <2>6. QED BY <2>2, <2>3, <2>4, <2>5 DEF TypeOK, IInv
<1>2. QED BY <1>1, Invariant, PTL

(* However many names there are and however they differ, no group is       *)
(* written behind the array on the stack.                                  *)
THEOREM AlwaysSlots == Spec => []SlotsSuffice
<1>1. IInv => SlotsSuffice BY DEF IInv
<1>2. QED BY <1>1, Invariant, PTL

(* strlen is never asked about a name that has no digits, also not when    *)
(* the largest int is the number before it.                                *)
THEOREM AlwaysMeasured == Spec => []DigitsMeasured
<1>1. IInv => DigitsMeasured
  <2>1. SUFFICES ASSUME IInv, Looking, Follows, Parts.num_str = <<>> PROVE FALSE BY DEF DigitsMeasured
  <2>2. Parts.num = 0 /\ Parts.num = prev.num + count + 1 /\ i > 1 BY <2>1, PartsIs, FollowsIs
  <2>3. prev.num \in 0..IntMax /\ count \in Nat BY <2>1, <2>2, PrevIs DEF IInv
  <2>4. QED BY <2>2, <2>3
<1>2. QED BY <1>1, Invariant, PTL

(* There are as few groups as the sorted names have runs, and the text is  *)
(* given up only when the runs are more than the array holds: for any set  *)
(* without the empty name, and without a word between a 0 and a 1 that are *)
(* as wide, which the code takes for a run.                                *)
THEOREM AlwaysFewest == Spec => [](Ordinary(nodes) => FewestGroups)
<1>1. IInv /\ JOrdinary => (Ordinary(nodes) => FewestGroups)
  <2>1. SUFFICES ASSUME IInv, JInv, pc = "returned", nodes # {}
                 PROVE  IF warned THEN Runs > MAX_NUM_GROUPS ELSE Len(groups) = Runs /\ Runs <= MAX_NUM_GROUPS
    BY DEF JOrdinary, FewestGroups
  <2>2. Len(groups) <= MAX_NUM_GROUPS BY <2>1 DEF IInv, SlotsSuffice
  <2>3. QED BY <2>1, <2>2 DEF JInv
<1>2. QED BY <1>1, JInvariant, PTL

(* Whatever the widths of its numbers, a range has the names documented:   *)
(* from the first number to the last, filled up with the first one's       *)
(* digits, and as wide as the first.                                       *)
THEOREM AlwaysPadded == SpecText => []PaddedAsDocumented
<1>1. EText => PaddedAsDocumented BY ExpandedAll DEF EText, PaddedAsDocumented
<1>2. QED BY <1>1, EInvariant, PTL

(* The compressed text of such a set, expanded group by group, gives the   *)
(* names back.                                                             *)
THEOREM AlwaysBack == SpecText => [](Ordinary(nodes) => RoundTrip)
<1>1. IInv /\ JOrdinary /\ EText /\ TOrdinary => (Ordinary(nodes) => RoundTrip)
  <2>1. SUFFICES ASSUME IInv, JInv, EInv, TInv, AllExpanded PROVE back \union r = IF warned THEN {} ELSE nodes
    BY DEF JOrdinary, EText, TOrdinary, RoundTrip
  <2>2. pc = "returned" /\ at > Len(groups) /\ r = Meaning(parts) BY <2>1, ExpandedAll DEF AllExpanded
  <2>3. Len(groups) \in Nat
    <3>1. groups \in Seq([parts : PartsOf, count : 0..Cardinality(nodes)]) BY <2>1 DEF IInv
    <3>2. QED BY <3>1
  <2>4. at - 1 = Len(groups) /\ back \union r = NamesBefore(at) BY <2>1, <2>2, <2>3 DEF TInv
  <2>5. back \union r = UNION {NamesOf(groups[m]) : m \in 1..Len(groups)} BY <2>4 DEF NamesBefore
  <2>6. CASE warned \/ nodes = {}
    <3>1. groups = <<>> /\ (nodes = {} => ~warned) BY <2>1, <2>2, <2>6 DEF JInv
    <3>2. 1..Len(groups) = {} BY <3>1
    <3>3. QED BY <2>5, <2>6, <3>1, <3>2
  <2>7. CASE ~warned /\ nodes # {}
    <3>1. \A m \in 1..Len(groups) : NamesOf(groups[m]) \subseteq nodes BY <2>1, <2>2, RunIs
    <3>2. ASSUME NEW x \in nodes PROVE \E m \in 1..Len(groups) : x \in NamesOf(groups[m])
      <4>1. sorted = do_range_sort(nodes) /\ Len(sorted) = Cardinality(nodes) BY <2>1, <2>2, NodesAre DEF JInv
      <4>2. PICK j \in 1..Len(sorted) : sorted[j] = x BY <2>1, <4>1, NodesAre, SortIs
      <4>3. HasPlace(j) BY <2>1, <2>2, <2>7 DEF JInv
      <4>4. PICK m \in 1..Len(groups) : \E k \in Nat : StartsAt(groups[m], k) /\ j \in k..k + groups[m].count
        BY <4>3 DEF HasPlace
      <4>5. PICK k \in Nat : StartsAt(groups[m], k) /\ j \in k..k + groups[m].count BY <4>4
      <4>6. NamesOf(groups[m]) = {sorted[n] : n \in k..k + groups[m].count} BY <2>1, <2>2, <4>5, RunIs
      <4>7. QED BY <4>2, <4>5, <4>6
    <3>3. QED BY <2>5, <2>7, <3>1, <3>2
  <2>8. QED BY <2>6, <2>7
<1>2. QED BY <1>1, TInvariant, PTL
=============================================================================
