----------------------------- MODULE MCCapacity -----------------------------
(***************************************************************************)
(* Requests of the sizes the pool of three can mix; the two ledgers there  *)
(* are: without a clock three requests are at work at once, with one they  *)
(* come one at a time, each answered within a block of its admission.      *)
(***************************************************************************)
EXTENDS CapacityLedger, TLC

CONSTANTS r1, r2, r3, r4

Sizes == (r1 :> 1 @@ r2 :> 1 @@ r3 :> 2 @@ r4 :> 2)

Within == (FALSE :> 9 @@ TRUE :> 1)
AtOnce == (FALSE :> 3 @@ TRUE :> 1)
Until == (FALSE :> 1 @@ TRUE :> 5)
=============================================================================
