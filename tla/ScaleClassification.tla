-------------------------- MODULE ScaleClassification --------------------------
(* The evidence that a cash dividend must be scaled by the price of the day   *)
(* before a capital change: the rows cash_adjustment_scale_builder.py gives   *)
(* an overlap event from official inputs, and what                            *)
(* cash_adjustment_scale_evidence.py demands of such rows and of the files    *)
(* they name.  One parent event of one issuer and record date, so a semantic  *)
(* group is named by its component's action; a body is the version of its     *)
(* bytes.                                                                     *)
EXTENDS FiniteSets, Integers

CONSTANTS NoNotice,        \* reviewed <<source, action>> that need no notice
          ReviewedCombined \* group sets a combined notice may corroborate

Stock == "stock_dividend"
Bonus == "bonus_issue"
Paid == "paid_increase"

-----------------------------------------------------------------------------
(* Classification: the rows one overlap event gets from official inputs.      *)

\* A family's economic terminal, as the prepared events or its viewer body show it.
\* An inadmissible viewer stock family is seen only through a prepared row.
Overlaps(f, rows) ==
    \/ f.act \in rows
    \/ f.viewer /\ (f.act = Bonus \/ f.status = "ACTIVE")

OfAct(fs, a) == {f \in fs : f.act = a}
KindOf(ks, role, a) == {k \in ks : k.role = role /\ k.act = a}

Source(f) == IF f.viewer THEN "DART_VIEWER"
             ELSE IF f.act = Stock THEN "DART_DISCLOSURE" ELSE "DART_STRUCTURED"

\* Mutant: a component written as a bare support.
ComponentBare(src, a, ver) ==
    [role |-> "COMPONENT", src |-> src, act |-> a, ver |-> ver, groups |-> {a}]

Component(src, a, ver) ==
    [role |-> "ADJUSTMENT_COMPONENT", src |-> src, act |-> a, ver |-> ver, groups |-> {a}]

\* Families whose terminal is the event of the parent, and which may carry it.
Admitted(in, a) == {f \in OfAct(in.families, a) : Overlaps(f, in.rows) /\ f.status = "ACTIVE"}

Excused(in, f) == f.act = Stock /\ f.status = "CROSS_CLASS_DISTRIBUTION"
                  /\ Cardinality(KindOf(in.kind, "ADJUSTMENT_COMPONENT", Stock)) = 1

\* Mutant: paid rights beside a stock dividend are taken.
ComponentsAgreePaid(in) ==
    /\ \A a \in in.rows : OfAct(in.families, a) # {}
    /\ \A f \in in.families :
         Overlaps(f, in.rows) => f.status = "ACTIVE" \/ Excused(in, f)
    /\ KindOf(in.kind, "ADJUSTMENT_COMPONENT", Stock) = {} \/ Admitted(in, Stock) = {}

\* Every official row is in a family, no overlapping family is withdrawn, and
\* the sources that describe one entitlement exclude each other.
ComponentsAgree(in) ==
    LET kindStock == KindOf(in.kind, "ADJUSTMENT_COMPONENT", Stock)
        kindPaid == KindOf(in.kind, "ADJUSTMENT_COMPONENT", Paid)
        stock == Admitted(in, Stock)
    IN /\ \A a \in in.rows : OfAct(in.families, a) # {}
       /\ \A f \in in.families :
            Overlaps(f, in.rows) => f.status = "ACTIVE" \/ Excused(in, f)
       /\ \A s \in {stock, Admitted(in, Bonus), kindStock, kindPaid} : Cardinality(s) <= 1
       /\ kindStock = {} \/ stock = {}
       /\ kindPaid = {} \/ (stock = {} /\ kindStock = {})

ComponentSupports(in) ==
    {Component(Source(f), f.act, f.ver) : f \in Admitted(in, Stock) \cup Admitted(in, Bonus)}
    \cup {Component("KRX_KIND", k.act, k.ver) :
            k \in {k \in in.kind : k.role = "ADJUSTMENT_COMPONENT"}}

GroupsOf(rows) == UNION {r.groups : r \in rows}

\* The component groups a notice's type and reason speak about.  A combined
\* DART notice that says only "dividend" names the stock group as well.
NamedGroups(n, dart) ==
    CASE n.type = "ex_dividend" -> n.reason \cap {Stock}
      [] n.type = "rights_detachment" -> n.reason \cap {Bonus, Paid}
      [] n.type = "combined_detachment" ->
            (n.reason \cap {Stock, Bonus})
            \cup (IF dart /\ "cash" \in n.reason THEN {Stock} ELSE {})

Corroboration(src, n, groups) ==
    [role |-> "CORROBORATION", src |-> src, act |-> n.type, ver |-> n.ver, groups |-> groups]

DartCorroborations(in, groups) ==
    {Corroboration("DART_DISCLOSURE", n, NamedGroups(n, TRUE) \cap groups) :
        n \in {n \in in.notice : NamedGroups(n, TRUE) \cap groups # {}}}

KindCorroborations(in, groups) ==
    {Corroboration("KRX_KIND", k.note, NamedGroups(k.note, FALSE) \cap groups) :
        k \in {k \in in.kind : k.role = "CORROBORATION"}}

CorroborationsAgree(in, groups) ==
    LET dart == DartCorroborations(in, groups)
        kind == {k \in in.kind : k.role = "CORROBORATION"}
    IN /\ \A n \in in.notice : n.price = in.price
       /\ \A k \in kind : k.note.price = in.price
       /\ \A r \in dart : r.act = "combined_detachment" => r.groups \in ReviewedCombined
       /\ \A g \in groups : Cardinality({r \in dart : g \in r.groups}) <= 1
       /\ Cardinality(kind) <= 1
       /\ \A r \in KindCorroborations(in, groups) : r.groups # {}

\* A DART stock decision names its record date only: its ex date needs a notice.
StockCorroborated(comps, corrs) ==
    \A c \in comps :
        c.act = Stock /\ c.src \in {"DART_DISCLOSURE", "DART_VIEWER"} =>
            \/ Stock \in GroupsOf(corrs)
            \/ c.src = "DART_VIEWER" /\ <<c.src, Stock>> \in NoNotice

Supports(in) ==
    ComponentSupports(in) \cup DartCorroborations(in, GroupsOf(ComponentSupports(in)))
                          \cup KindCorroborations(in, GroupsOf(ComponentSupports(in)))

Classifies(in) ==
    LET comps == ComponentSupports(in)
    IN /\ in.cash.sole
       /\ ComponentsAgree(in)
       /\ comps # {}
       /\ CorroborationsAgree(in, GroupsOf(comps))
       /\ StockCorroborated(comps, Supports(in) \ comps)

\* Every KIND row reviewed for the parent ends in its supports, once.
KindConsumed(in, rows) ==
    Cardinality({r \in rows : r.src = "KRX_KIND"}) = Cardinality(in.kind)

BuildOne(in) == [list |-> in.cash.list, econ |-> in.cash.econ, price |-> in.price,
                 rows |-> Supports(in)]

-----------------------------------------------------------------------------
(* Verification: what a manifest must satisfy against the files it names.     *)

ExactlyOneComponent(rows) ==
    \A g \in GroupsOf(rows) :
        Cardinality({r \in rows : r.role = "ADJUSTMENT_COMPONENT" /\ g \in r.groups}) = 1

\* A component without a notice is one of the reviewed exceptions.
Corroborated(rows) ==
    \A r \in rows : r.role = "ADJUSTMENT_COMPONENT" =>
        \/ \E n \in rows : n.role = "CORROBORATION" /\ r.act \in n.groups
        \/ <<r.src, r.act>> \in NoNotice

ValidGroups(rows) == rows # {} /\ ExactlyOneComponent(rows) /\ Corroborated(rows)

\* The family manifest is itself verified: its terminals have the bytes on
\* disk, and every disclosed row of its action types is one of its receipts.
DartComponents(rows) == {r \in rows : r.role = "ADJUSTMENT_COMPONENT" /\ r.src # "KRX_KIND"}

FamiliesVerify(families, body, rows) ==
    /\ \A f \in families : f.ver = body
    /\ \A a \in rows : OfAct(families, a) # {}

FamilyBindings(rows, families) ==
    \A r \in DartComponents(rows) :
        LET match == {f \in families : f.act = r.act /\ f.viewer = (r.src = "DART_VIEWER")}
        IN /\ Cardinality(match) = 1
           /\ \A f \in match : f.status = "ACTIVE" /\ f.ver = r.ver

\* Mutant: without a KIND manifest nothing is compared.
KindBindingsIfDeclared(rows, kind) ==
    kind # {} => {<<r.role, r.act, r.ver>> : r \in {r \in rows : r.src = "KRX_KIND"}}
      = {IF k.role = "CORROBORATION" THEN <<k.role, k.note.type, k.note.ver>>
         ELSE <<k.role, k.act, k.ver>> : k \in kind}

KindBindings(rows, kind) ==
    {<<r.role, r.act, r.ver>> : r \in {r \in rows : r.src = "KRX_KIND"}}
      = {IF k.role = "CORROBORATION" THEN <<k.role, k.note.type, k.note.ver>>
         ELSE <<k.role, k.act, k.ver>> : k \in kind}

\* Bodies of the parent and of its supports have the bytes the rows declare.
CashBodies(m, cash) == cash.list = m.list /\ cash.econ = m.econ

PriceBodies(m, price) == price = m.price

NoticeBodies(rows, notice) ==
    \A r \in rows : r.role = "CORROBORATION" /\ r.src = "DART_DISCLOSURE" =>
        \E n \in notice : n.ver = r.ver

ComponentBodies(rows, body) == \A r \in DartComponents(rows) : r.ver = body

\* The verification of one directory standing still.
Verifies(m, d) ==
    /\ ValidGroups(m.rows)
    /\ CashBodies(m, d["cash"]) /\ PriceBodies(m, d["price"])
    /\ NoticeBodies(m.rows, d["notice"]) /\ ComponentBodies(m.rows, d["body"])
    /\ DartComponents(m.rows) # {} => FamiliesVerify(d["families"], d["body"], d["rows"])
    /\ FamilyBindings(m.rows, d["families"])
    /\ KindBindings(m.rows, d["kind"])

=============================================================================
