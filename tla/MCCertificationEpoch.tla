------------------------ MODULE MCCertificationEpoch ------------------------
(* Instances of CertificationEpoch for TLC: two disclosures, and trading    *)
(* days with a weekday holiday between them.                                *)
EXTENDS CertificationEpochRefinement, TLC

CONSTANTS a1, a2

Actions     == {a1, a2}
FiledOn12   == (a1 :> 1) @@ (a2 :> 2)
FiledOn13   == (a1 :> 1) @@ (a2 :> 3)
Sessions1   == {1}
Sessions13  == {1, 3}
Sessions134 == {1, 3, 4}
Tasks       == Permutations(Task)

=============================================================================
