--------------------------- MODULE MCFilingIntake ---------------------------
(***************************************************************************)
(* An annual report that is amended the next day, a third-quarter report    *)
(* whose first quarter is already out, an ownership disclosure, a profile.  *)
(***************************************************************************)
EXTENDS FilingIntake
CONSTANT a
On(f) == [d \in Days |-> IF d \in DOMAIN f THEN f[d] ELSE {}]
MCSchedules ==
    {On(<<{<<a, "annual">>}, {<<a, "annual">>}>>),
     On(<<{<<a, "annual">>, <<a, "profile">>}, {<<a, "ownership">>}>>)}
MCQuarters == {On(<<{<<a, "first">>}, {<<a, "third">>}>>)}
=============================================================================
