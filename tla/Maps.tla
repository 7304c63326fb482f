-------------------------------- MODULE Maps --------------------------------
(***************************************************************************)
(* Finite maps, as functions.  These are written out because the provers    *)
(* know no definition of the operators :> and @@ of the module TLC.        *)
(***************************************************************************)

(* m with name n bound to d. *)
With(m, n, d) == [x \in DOMAIN m \union {n} |-> IF x = n THEN d ELSE m[x]]

(* f laid over g: where both have a name, f's data. *)
Over(f, g) == [x \in DOMAIN f \union DOMAIN g |-> IF x \in DOMAIN f THEN f[x] ELSE g[x]]

(* The part of m whose names are in S. *)
Restricted(m, S) == [n \in S |-> m[n]]
=============================================================================
