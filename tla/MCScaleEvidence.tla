--------------------------- MODULE MCScaleEvidence ---------------------------
(* One parent event in five official situations: a stock dividend with its ex *)
(* notice; stock dividend and viewer bonus issue with a combined notice; a    *)
(* KIND decision beside a cross-class family; paid rights, which are reviewed *)
(* to need no notice; paid rights beside a stock dividend, which is refused.  *)
EXTENDS ScaleEvidence

Family(a, s, v) == [act |-> a, status |-> s, viewer |-> v, ver |-> 0]
Notice(t, r) == [type |-> t, reason |-> r, price |-> 0, ver |-> 0]
KindComponent(a) == [role |-> "ADJUSTMENT_COMPONENT", act |-> a, ver |-> 0]
KindNotice(t, r) == [role |-> "CORROBORATION", note |-> Notice(t, r)]
World(fs, rows, ks, ns) ==
    [families |-> fs, rows |-> rows, body |-> 0, kind |-> ks, notice |-> ns,
     cash |-> [list |-> 0, econ |-> 0, sole |-> TRUE], price |-> 0]

StockZip == Family(Stock, "ACTIVE", FALSE)
ExStock == Notice("ex_dividend", {Stock})

MCWorlds == {
    World({StockZip}, {Stock}, {}, {ExStock}),
    World({StockZip, Family(Bonus, "ACTIVE", TRUE)}, {Stock}, {},
          {Notice("combined_detachment", {Stock, Bonus})}),
    World({Family(Stock, "CROSS_CLASS_DISTRIBUTION", FALSE)}, {Stock},
          {KindComponent(Stock), KindNotice("ex_dividend", {Stock})}, {}),
    World({}, {}, {KindComponent(Paid)}, {}),
    World({StockZip}, {Stock}, {KindComponent(Paid)}, {ExStock})}

MCRevisions == {{StockZip}, {Family(Stock, "WITHDRAWN", FALSE)}}
MCNoNotice == {<<"KRX_KIND", Paid>>}
MCReviewedCombined == {{Stock, Bonus}}
=============================================================================
