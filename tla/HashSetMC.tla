----------------------------- MODULE HashSetMC -----------------------------
(* Small instance of HashSet: the primes are scaled down so that two adds   *)
(* already resize a set, and the hash makes names collide in some sizes     *)
(* and not in others.                                                       *)
EXTENDS HashSet
CONSTANTS n1, n2, s1, s2, s3, v1, v2

HashDef == (n1 :> 1) @@ (n2 :> 3)

Interchangeable == Permutations(Handle) \union Permutations(Value)
============================================================================
