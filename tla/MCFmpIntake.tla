---------------------------- MODULE MCFmpIntake ----------------------------
(***************************************************************************)
(* A security renamed on each day beside one that is delisted, and two      *)
(* securities of which the second takes over a ticker of the first.         *)
(***************************************************************************)
EXTENDS FmpIntake
CONSTANTS s, r
MCHistories == {[x \in Sec |-> IF x = s THEN <<1, 2, 2>> ELSE <<3, 3, 0>>],
                [x \in Sec |-> IF x = s THEN <<1, 2, 3>> ELSE <<0, 4, 4>>],
                [x \in Sec |-> IF x = s THEN <<1, 0, 0>> ELSE <<2, 2, 1>>]}
MCReused == {[x \in Sec |-> IF x = s THEN <<2, 2, 0>> ELSE <<0, 1, 2>>]}
MCPlain == {[x \in Sec |-> <<1>>]}
=============================================================================
