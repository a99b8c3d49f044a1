-------------------- MODULE CertificationEpochRefinement --------------------
(* CertificationEpoch implements ReturnLabel: a BUILDING contract, whatever *)
(* coverage it retains, is an unusable label.                               *)
EXTENDS CertificationEpoch

visibleLabel ==
    IF contract.status = "CERTIFIED"
    THEN [status |-> "CERTIFIED", end |-> contract.end, acts |-> contract.acts]
    ELSE [status |-> "BUILDING", end |-> -1, acts |-> {}]

Label == INSTANCE ReturnLabel
         WITH label <- visibleLabel, last <- lastPrice, observed <- bronze

(* Every step of the tasks of daily_full, gap_replay and dart-extras is a   *)
(* step of the label or changes nothing a reader sees.                      *)
ImplementsReturnLabel == Label!Spec

=============================================================================
