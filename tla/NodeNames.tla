----------------------------- MODULE NodeNames -----------------------------
(***************************************************************************)
(* Numbered host names: what range_parts.c, range.c and range_compress.c   *)
(* make of the digits in them.  A name is given as NUMBERED_NODE_RE splits *)
(* it, prefix, digits and domain; a name the expression does not match is  *)
(* all prefix.  Prefixes and domains are numbers, in the order strcmp puts *)
(* them; 0 is the empty one.                                               *)
(***************************************************************************)
EXTENDS Integers, Sequences

CONSTANTS
  Base,     \* of the digits: 10
  IntMax    \* the largest int

ASSUME BaseAssumption   == Base \in Nat \ {0, 1}
ASSUME IntMaxAssumption == IntMax \in Nat \ {0}

Digit == 0..Base - 1
NodeName == [prefix : Nat, digits : Seq(Digit), domain : Nat]

(* An int after an addition to it. *)
Wrap(n) == IF n > IntMax THEN n - 2 * (IntMax + 1) ELSE n

atoi(digits) ==
  LET value[k \in 0..Len(digits)] == IF k = 0 THEN 0 ELSE Base * value[k - 1] + digits[k]
  IN value[Len(digits)]

(* The place values of digits. *)
Power[w \in Nat] == IF w = 0 THEN 1 ELSE Base * Power[w - 1]

(* "%0*d", and apr_itoa, of a number that is not negative. *)
Width(n) == CHOOSE w \in 1..n + 1 : n < Power[w] /\ (w = 1 \/ n >= Power[w - 1])
Padded(n, w) == [k \in 1..w |-> (n \div Power[w - k]) % Base]
Printed(n, w) == Padded(n, IF w > Width(n) THEN w ELSE Width(n))
apr_itoa(n) == Printed(n, 1)

(* A range first..last.  What is missing of the last number is taken from  *)
(* the first one, and the names are as wide as the first.  NODE_RE wants   *)
(* digits on both sides.                                                   *)
RangeParts ==
  [prefix : Nat, first : Seq(Digit) \ {<<>>}, last : Seq(Digit) \ {<<>>}, domain : Nat]

Missing(p) == IF Len(p.first) > Len(p.last) THEN SubSeq(p.first, 1, Len(p.first) - Len(p.last)) ELSE <<>>

Meaning(p) ==
  {[prefix |-> p.prefix, digits |-> Printed(n, Len(p.first)), domain |-> p.domain] :
     n \in atoi(p.first)..atoi(Missing(p) \o p.last)}
=============================================================================
