-------------------------- MODULE MCWarningWorklist --------------------------
(* A small instance of WarningWorklist.                                    *)
EXTENDS WarningWorklist, TLC

CONSTANTS b1, b2, b3, k1, k2

(* Two batches without date or partition share the row of their dataset,   *)
(* the third has its own.                                                  *)
SharedScope == (b1 :> k1) @@ (b2 :> k1) @@ (b3 :> k2)

=============================================================================
