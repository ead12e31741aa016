------------------------------ MODULE MCHashMap ------------------------------
(***************************************************************************)
(* HashMap for TLC: keys that collide in the small table and part in the   *)
(* larger ones, and two that always collide.                               *)
(***************************************************************************)
EXTENDS HashMap

CONSTANTS k1, k2, k3, k4

MCHash == (k1 :> 0 @@ k2 :> 3 @@ k3 :> 6 @@ k4 :> 24)

=============================================================================
