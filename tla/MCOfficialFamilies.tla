------------------------- MODULE MCOfficialFamilies -------------------------
(* Two families or one long one; corrections, attachments and withdrawals in  *)
(* every order, filed at any moment of a collection.                          *)
EXTENDS OfficialFamilies
MCKinds ==
    [viewer |-> {"ECONOMIC", "PENDING", "PLAIN", "ATTACHMENT"},
     support |-> {"ECONOMIC", "WITHDRAWN", "ATTACHMENT"}]
=============================================================================
