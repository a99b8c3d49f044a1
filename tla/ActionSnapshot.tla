--------------------------- MODULE ActionSnapshot ---------------------------
(***************************************************************************)
(* What the published action snapshot promises its readers, whatever disks, *)
(* pools, checkpoints, bundles and failures are behind it: one register     *)
(* that only moves forward.  A snapshot is named by the day it covers and   *)
(* by the official filings it was made from; a reader follows the current   *)
(* name and gets exactly that snapshot, or is refused.                      *)
(***************************************************************************)
EXTENDS Naturals

CONSTANTS LastDay, MaxFilings

VARIABLES
    durable,  \* official filings durable in Bronze
    current,  \* the published snapshot
    answer,   \* what a reader who restores it gets
    serial    \* whether writers have only ever followed each other

vars == <<durable, current, answer, serial>>

Nothing == [end |-> 0, filings |-> 0]
Damaged == [end |-> 0, filings |-> MaxFilings + 1]

\* A snapshot that may follow the current one: it covers no less, and nothing
\* in it was made from a filing that could still be lost.
Successors == {v \in [end : 1 .. LastDay, filings : 0 .. MaxFilings] :
                  /\ v.end >= current.end
                  /\ v.filings >= current.filings /\ v.filings <= durable}

Init ==
    /\ durable = 0
    /\ current = Nothing /\ answer = Nothing
    /\ serial = TRUE

File ==
    /\ durable < MaxFilings
    /\ durable' = durable + 1
    /\ UNCHANGED <<current, answer, serial>>

\* A snapshot appears whole; only writers that overlap can publish one that
\* its readers refuse.
Publish ==
    /\ current' \in Successors
    /\ answer' \in IF serial THEN {current'} ELSE {current', Damaged}
    /\ UNCHANGED <<durable, serial>>

\* No one changes what is published, but for writers that have overlapped.
Touch ==
    /\ ~serial
    /\ answer' \in {current, Damaged}
    /\ UNCHANGED <<durable, current, serial>>

Overlap ==
    /\ serial' = FALSE
    /\ UNCHANGED <<durable, current, answer>>

Next == File \/ Publish \/ Touch \/ Overlap

Spec == Init /\ [][Next]_vars

=============================================================================
