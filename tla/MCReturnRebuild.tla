--------------------------- MODULE MCReturnRebuild ---------------------------
(* ReturnRebuild for TLC: one stock that trades every session and does     *)
(* nothing else, one that may be suspended, split and pay.                 *)
EXTENDS ReturnRebuild, TLC

CONSTANTS m, p

MCOf == [x \in Dividend |-> p]
(* Missing the second session ends an episode, missing the third does not. *)
MCDate == <<1, 4, 5, 6>>
MCMaxSplits == [a \in Asset |-> IF a = p THEN 1 ELSE 0]

=============================================================================
