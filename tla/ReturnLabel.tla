---------------------------- MODULE ReturnLabel ----------------------------
(***************************************************************************)
(* What the total-return label promises to its readers, whatever tasks,    *)
(* stores and failures are behind it.  Research reads the label only while *)
(* it is CERTIFIED; its inputs are the certified raw prices and the        *)
(* durable action evidence.                                                *)
(***************************************************************************)
EXTENDS Integers

CONSTANTS LastDay, Action, Filed

VARIABLES
    label,     \* the certified horizon and evidence, or Unusable
    last,      \* the last certified trade date
    observed   \* the durable action evidence

vars == <<label, last, observed>>

Unusable == [status |-> "BUILDING", end |-> -1, acts |-> {}]

Label(end, acts) == [status |-> "CERTIFIED", end |-> end, acts |-> acts]

Init ==
    /\ label = Label(0, {})
    /\ last = 0
    /\ observed = {}

(* New evidence appears only under an unusable label.                      *)
Observe ==
    /\ label = Unusable
    /\ \E a \in Action \ observed : observed' = observed \cup {a}
    /\ UNCHANGED <<label, last>>

(* New prices take the label away in the same step.                        *)
Price ==
    /\ \E d \in last + 1 .. LastDay : last' = d
    /\ label' = Unusable
    /\ UNCHANGED observed

Demote ==
    /\ label' = Unusable
    /\ UNCHANGED <<last, observed>>

(* A label is certified through the last price, from evidence that leaves  *)
(* out nothing received by then and adds nothing that is not durable.      *)
Certify ==
    /\ label = Unusable
    /\ \E acts \in SUBSET observed :
        /\ {a \in observed : Filed[a] <= last} \subseteq acts
        /\ label' = Label(last, acts)
    /\ UNCHANGED <<last, observed>>

Next == Observe \/ Price \/ Demote \/ Certify

Spec == Init /\ [][Next]_vars

=============================================================================
