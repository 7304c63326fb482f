----------------------------- MODULE SetPackMC -----------------------------
(* Small instance of SetPack: names of different lengths, which collide in  *)
(* a table of two buckets and not in one of three, with data and without.   *)
EXTENDS SetPack
CONSTANTS n1, n2, s1, s2, v1

HashDef  == (n1 :> 1) @@ (n2 :> 3)
BytesDef == (n1 :> 1) @@ (n2 :> 3) @@ (v1 :> 2)
============================================================================
