------------------------------ MODULE MCGerbang ------------------------------
(* Instances of GerbangLogin for TLC. *)
EXTENDS GerbangLogin, TLC

CONSTANTS p1, p2,  \* PHP processes
          b1,      \* a browser
          u1       \* an account

Simetri == Permutations({p1, p2})
=============================================================================
