---------------------------- MODULE RangeTextMC -----------------------------
(* Small instances of RangeText, in base 3 and below the largest int: all   *)
(* ranges of numbers of up to three digits; and subsets of a few names.     *)
EXTENDS RangeText

Numbers == UNION {[1..n -> Digit] : n \in 1..3}
AllRanges == {[prefix |-> 1, first |-> a, last |-> b, domain |-> 0] : a \in Numbers, b \in Numbers}

Numbered(p, d, q) == [prefix |-> p, digits |-> d, domain |-> q]
Plain(p) == [prefix |-> p, digits |-> <<>>, domain |-> 0]

(* Numbers on both sides of a change of width, with zeros in front and      *)
(* without: 1, 2, 10, 11; 01, 02; 22 and 100.                               *)
Around == {<<1>>, <<2>>, <<0, 1>>, <<0, 2>>, <<1, 0>>, <<1, 1>>, <<0, 2, 2>>, <<1, 0, 0>>}

Hosts == {Numbered(1, d, 0) : d \in Around} \union {Numbered(1, <<1, 2>>, 1), Numbered(2, <<1, 2>>, 0), Plain(3)}

(* Numbers alone; and names without digits, too. *)
Bare == {Numbered(0, d, q) : d \in {<<0>>, <<1>>, <<2>>, <<0, 1>>}, q \in {0, 1}}
Words == {Plain(3), Plain(4), Numbered(0, <<1>>, 0), Numbered(0, <<0, 1>>, 0)}

HostsAsked == (SUBSET Hosts) \union (SUBSET Bare) \union (SUBSET Words)
MixedAsked == SUBSET (Bare \union {Plain(3)})

(* One name more, so that TLC evaluates each of these only once.            *)
RangesDef == AllRanges
HostsDef == HostsAsked
MixedDef == MixedAsked
============================================================================
