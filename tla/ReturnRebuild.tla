---------------------------- MODULE ReturnRebuild ----------------------------
(***************************************************************************)
(* What the total-return label holds: dividends reinvested along the price *)
(* series of every stock, recomputed only where its inputs changed.        *)
(*                                                                         *)
(*   pipeline/silver/total_return_rebuild.py  run and what it calls        *)
(*   pipeline/silver/total_returns.py         ex-dates and reinvestment    *)
(*   pipeline/silver/total_return_audit.py    the audit of the rebuild     *)
(*   pipeline/silver/prices.py                publish of one session       *)
(*   pipeline/silver/corporate_actions.py     publish of the actions       *)
(*                                                                         *)
(* A day is a session of the market.  A value of the label is told apart   *)
(* by the dividends reinvested in it since its listing episode began and   *)
(* by its level: how many share splits it is adjusted for, all of one      *)
(* ratio.  Two values of one level give the return between them.           *)
(***************************************************************************)
EXTENDS Integers, FiniteSets, FiniteSetsExt

CONSTANTS
    Asset,       \* stocks
    Always,      \* stocks that trade on every session
    Dividend,    \* cash dividend actions
    Of,          \* Of[x]: the stock that pays x
    Noticed,     \* dividends whose ex-date is published, not inferred
    LastDay,     \* bound: sessions
    Date,        \* Date[d]: the calendar day of a session
    Gap,         \* LISTING_EPISODE_GAP_DAYS
    MaxSplits,   \* bound: MaxSplits[a]: splits of a stock
    MaxFaults    \* bound: stops, reloads, corrections, other publications

ASSUME RebuildConstants ==
    /\ Always \subseteq Asset /\ Always # {}
    /\ Of \in [Dividend -> Asset]
    /\ Noticed \subseteq Dividend
    /\ LastDay \in Nat /\ Gap \in Nat /\ Date \in [1..LastDay -> Nat]
    /\ MaxSplits \in [Asset -> Nat] /\ MaxFaults \in Nat

VARIABLES
    session,    \* last certified session of price_daily
    trade,      \* the sessions of each stock
    splits,     \* ... and those on which it was split
    price,      \* adj_close: the level of each row
    total,      \* total_return_close and its lineage
    disclosed,  \* cash dividends in Bronze: the ex-date, 0 before disclosure
    stored,     \* corporate_action
    snapshot,   \* the newest certified action run
    contract,   \* price_return_contract
    resolution, \* dividend_event_resolution of the last certified rebuild
    task,       \* the closure in progress
    faults

vars == <<session, trade, splits, price, total, disclosed, stored, snapshot,
          contract, resolution, task, faults>>

Day == 1..LastDay

(* `run` is the lineage of a value: not certified, certified by an earlier *)
(* rebuild, or by the last one.                                            *)
Total == [run : {"none", "old", "last"}, level : Int,
          cash : SUBSET Dividend]
NoTotal == [run |-> "none", level |-> 0, cash |-> {}]

(* `run` is the run that wrote the row last: the newest action run or any  *)
(* other publisher.                                                        *)
Stored == [ex : 0..LastDay, run : {"none", "other", "snapshot"}]

Decision == [status : {"none", "applied", "pending", "start", "gap"},
             day : 0..LastDay, previous : 0..LastDay, levels : Nat \X Nat]
NoDecision == [status |-> "none", day |-> 0, previous |-> 0, levels |-> <<0, 0>>]

(* `same` says that its actions are those of the last certified rebuild.   *)
Snapshot == [end : 0..LastDay, rows : SUBSET Dividend, same : BOOLEAN]

(* coverage is 0 when it is NULL.                                          *)
Contract == [status : {"BUILDING", "CERTIFIED"}, coverage : 0..LastDay]

(* mode and coverage are the baseline of a rebuild in progress.            *)
Closure == [pc : {"idle", "published", "marked"},
            mode : {"full", "incremental"}, coverage : 0..LastDay]
Idle == [pc |-> "idle", mode |-> "full", coverage |-> 0]

TypeOK ==
    /\ session \in 0..LastDay
    /\ trade \in [Asset -> SUBSET Day]
    /\ splits \in [Asset -> SUBSET Day]
    /\ price \in [Asset -> [Day -> Nat]]
    /\ total \in [Asset -> [Day -> Total]]
    /\ disclosed \in [Dividend -> 0..LastDay]
    /\ stored \in [Dividend -> Stored]
    /\ snapshot \in Snapshot
    /\ contract \in Contract
    /\ resolution \in [Dividend -> Decision]
    /\ task \in Closure
    /\ faults \in 0..MaxFaults

Init ==
    /\ session = 0
    /\ trade = [a \in Asset |-> {}]
    /\ splits = [a \in Asset |-> {}]
    /\ price = [a \in Asset |-> [d \in Day |-> 0]]
    /\ total = [a \in Asset |-> [d \in Day |-> NoTotal]]
    /\ disclosed = [x \in Dividend |-> 0]
    /\ stored = [x \in Dividend |-> [ex |-> 0, run |-> "none"]]
    /\ snapshot = [end |-> 0, rows |-> {}, same |-> FALSE]
    /\ contract = [status |-> "BUILDING", coverage |-> 0]
    /\ resolution = [x \in Dividend |-> NoDecision]
    /\ task = Idle
    /\ faults = 0

-----------------------------------------------------------------------------
(* The full computation.                                                   *)

Before(a, d) == {e \in trade[a] : e < d}
Scale(a)     == Cardinality(splits[a])

(* The first row of a listing episode.                                     *)
Opens(a, d) == Before(a, d) = {} \/ Date[d] - Date[Max(Before(a, d))] > Gap

(* The cash actions of the newest action run, and those of one stock.      *)
Current    == {x \in Dividend : stored[x].run = "snapshot"}
CashOf(a)  == {x \in Current : Of[x] = a}

(* resolve_dividend_ex_dates, _build_batch: an inferred ex-date is the     *)
(* session before the record date, and waits for the record date.          *)
Record(x)  == IF x \in Noticed THEN stored[x].ex ELSE stored[x].ex + 1
Waiting(x) == x \notin Noticed /\ Record(x) > session

(* The rows on which a dividend may be paid: the first trade from its      *)
(* ex-date on.  Seeded fault: the ex-date itself only.                     *)
OnExDateOnly(x) == {d \in trade[Of[x]] : d = stored[x].ex}
OnOrAfter(x)    == {d \in trade[Of[x]] : d >= stored[x].ex}

(* apply_dividends_to_prices, _audit_frame: the decision on a dividend.    *)
Decide(x) ==
    LET a == Of[x]
        d == Min(OnOrAfter(x))
    IN  CASE Waiting(x) \/ OnOrAfter(x) = {} ->
               [NoDecision EXCEPT !.status = "pending"]
          [] ~Waiting(x) /\ OnOrAfter(x) # {} /\ Before(a, d) = {} ->
               [NoDecision EXCEPT !.status = "start"]
          [] ~Waiting(x) /\ OnOrAfter(x) # {} /\ Before(a, d) # {} /\ Opens(a, d) ->
               [NoDecision EXCEPT !.status = "gap"]
          [] ~Waiting(x) /\ OnOrAfter(x) # {} /\ ~Opens(a, d) ->
               [status |-> "applied", day |-> d, previous |-> Max(Before(a, d)),
                levels |-> <<price[a][Max(Before(a, d))], price[a][d]>>]

(* The dividends reinvested in row d.                                      *)
Reinvested(a, d) ==
    {x \in CashOf(a) :
        /\ Decide(x).status = "applied" /\ Decide(x).day <= d
        /\ \A e \in trade[a] : Decide(x).day < e /\ e <= d => ~Opens(a, e)}

Recomputed(a) ==
    [d \in Day |-> IF d \notin trade[a] THEN NoTotal
                   ELSE [run |-> "last", level |-> price[a][d],
                         cash |-> Reinvested(a, d)]]

-----------------------------------------------------------------------------
(* The incremental computation.                                            *)

Certified(a)   == {d \in trade[a] : total[a][d].run # "none"}
Uncertified(a) == trade[a] \ Certified(a)

(* _changed_return_asset_ids.  Changed actions: the rows of the newest run *)
(* against those still held by the run of the baseline.  corporate_action  *)
(* has one row per action, and every run publishes every disclosed action, *)
(* so a later run leaves no row to the earlier one: unless the two runs    *)
(* are the same, each current action counts as changed.  Seeded fault: the *)
(* rows are compared with the decisions of the baseline, by content.       *)
ChangedByContent == {Of[x] : x \in {y \in Current : resolution[y].status = "none"}}

Changed == IF snapshot.same THEN {} ELSE {Of[x] : x \in Current}

Pending == {Of[x] : x \in {y \in Current : Record(y) > task.coverage}}

(* Rows without a certified value: inside the baseline, or with nothing    *)
(* certified before them.                                                  *)
Missing ==
    {a \in Asset : \E d \in Uncertified(a) :
        d <= task.coverage \/ {e \in Certified(a) : e < d} = {}}

Affected ==
    IF task.mode = "full" THEN Asset ELSE Changed \cup Pending \cup Missing

(* _append_unchanged_prices, _extend_unchanged_price_rows: each row        *)
(* continues the one computed before it, the first one continues the last  *)
(* certified row before it; a row after a listing gap starts again.        *)
Previous(a, d) ==
    LET appended == {e \in Uncertified(a) : e < d}
    IN  IF appended # {} THEN appended ELSE {e \in Certified(a) : e < d}

Restarts(a, d) ==
    Previous(a, d) = {} \/ Date[d] - Date[Max(Previous(a, d))] > Gap

SeedDay(a) == Max(Previous(a, Min(Uncertified(a))))

(* Seeded fault: an appended row starts from its own price.                *)
AppendedFromPrice(a) ==
    [d \in Day |->
       IF d \in Uncertified(a)
       THEN [run |-> "last", level |-> price[a][d], cash |-> {}]
       ELSE IF total[a][d].run = "last" THEN [total[a][d] EXCEPT !.run = "old"]
       ELSE total[a][d]]

(* The continued value changes as the price does.                          *)
Appended(a) ==
    [d \in Day |->
       IF d \in Uncertified(a)
       THEN IF \E e \in Uncertified(a) : e <= d /\ Restarts(a, e)
            THEN [run |-> "last", level |-> price[a][d], cash |-> {}]
            ELSE [run |-> "last", cash |-> total[a][SeedDay(a)].cash,
                  level |-> total[a][SeedDay(a)].level + (price[a][d] - price[a][SeedDay(a)])]
       ELSE IF total[a][d].run = "last" THEN [total[a][d] EXCEPT !.run = "old"]
       ELSE total[a][d]]

(* The decisions of this rebuild: made anew for the affected stocks,       *)
(* copied for the others (_copy_unaffected_resolution_rows).               *)
Resolution ==
    [x \in Dividend |-> IF Of[x] \notin Affected THEN resolution[x]
                        ELSE IF x \in Current THEN Decide(x)
                        ELSE NoDecision]

(* The audit of the rebuild, in the same transaction: the action run       *)
(* reaches the prices, its rows are all still its own, every decision is   *)
(* about one of them and was made on the prices as they are.               *)
AuditPasses ==
    /\ snapshot.end >= session
    /\ Current = snapshot.rows
    /\ \A x \in Dividend : Resolution[x].status # "none" =>
         /\ x \in Current
         /\ Resolution[x].status = "applied" =>
              /\ Resolution[x].day \in trade[Of[x]]
              /\ Before(Of[x], Resolution[x].day) # {}
              /\ Resolution[x].previous = Max(Before(Of[x], Resolution[x].day))
              /\ Resolution[x].levels =
                   <<price[Of[x]][Resolution[x].previous], price[Of[x]][Resolution[x].day]>>

-----------------------------------------------------------------------------
(* Publishers.                                                             *)

(* invalidate_krx_total_return keeps the coverage.                         *)
Demoted == [contract EXCEPT !.status = "BUILDING"]

(* The adj_close of a row loaded for its day alone: its own close, on which *)
(* the splits so far have been applied.                                    *)
Raw(a, d) == Cardinality({e \in splits[a] : e <= d})

(* prices.publish of the next session: the stocks that trade and those of  *)
(* them that are split; a split rescales the price history of its stock    *)
(* (_rescale_history_for_events) and leaves its returns alone.             *)
LoadSession(traders, split) ==
    LET d == session + 1
        lift(a) == IF a \in split THEN 1 ELSE 0
    IN
    /\ task.pc # "marked"
    /\ d <= LastDay
    /\ Always \subseteq traders /\ split \subseteq traders
    /\ \A a \in split : Scale(a) < MaxSplits[a] /\ ~Opens(a, d)
    /\ session' = d
    /\ trade' = [a \in Asset |-> IF a \in traders THEN trade[a] \cup {d} ELSE trade[a]]
    /\ splits' = [a \in Asset |-> IF a \in split THEN splits[a] \cup {d} ELSE splits[a]]
    /\ price' = [a \in Asset |-> [e \in Day |->
         IF e = d /\ a \in traders THEN Scale(a) + lift(a)
         ELSE IF e \in trade[a] THEN price[a][e] + lift(a) ELSE price[a][e]]]
    /\ contract' = Demoted
    /\ UNCHANGED <<total, disclosed, stored, snapshot, resolution, task, faults>>

(* _rescale_history_for_events of a stored session: a split is applied to  *)
(* the rows before it unless the last of them has it.                      *)
Lift(a, d) ==
    IF d \in splits[a] /\ price[a][Max(Before(a, d))] # Raw(a, d) THEN 1 ELSE 0

(* _verify_adj_close_post_publish: the row continues the one before it.    *)
(* The first row of a listing must be the only one; a row that opens a     *)
(* later episode is compared with nothing.                                 *)
Follows(a, d) ==
    \/ Before(a, d) = {} /\ d = Max(trade[a])
    \/ Before(a, d) # {} /\ Opens(a, d)
    \/ /\ Before(a, d) # {} /\ ~Opens(a, d)
       /\ price[a][Max(Before(a, d))] + Lift(a, d) = Raw(a, d)

(* prices.publish of a session that is stored already: its rows are as     *)
(* loaded, their values placeholders without lineage.                      *)
ReloadSession(d) ==
    /\ task.pc # "marked"
    /\ faults < MaxFaults
    /\ d \in 1..session
    /\ \A a \in Asset : d \in trade[a] => Follows(a, d)
    /\ faults' = faults + 1
    /\ price' = [a \in Asset |->
         IF d \notin trade[a] THEN price[a]
         ELSE [e \in Day |-> IF e = d THEN Raw(a, d)
                             ELSE IF e \in Before(a, d) THEN price[a][e] + Lift(a, d)
                             ELSE price[a][e]]]
    /\ total' = [a \in Asset |->
         IF d \in trade[a] THEN [total[a] EXCEPT ![d] = NoTotal] ELSE total[a]]
    /\ contract' = Demoted
    /\ UNCHANGED <<session, trade, splits, disclosed, stored, snapshot, resolution, task>>

(* A dividend is disclosed, or its ex-date corrected.                      *)
Disclose(x, ex) ==
    /\ disclosed[x] # ex
    /\ faults + (IF disclosed[x] = 0 THEN 0 ELSE 1) <= MaxFaults
    /\ faults' = faults + (IF disclosed[x] = 0 THEN 0 ELSE 1)
    /\ disclosed' = [disclosed EXCEPT ![x] = ex]
    /\ UNCHANGED <<session, trade, splits, price, total, stored, snapshot, contract,
                   resolution, task>>

(* corporate_actions.publish by a load or a backfill: the row of the       *)
(* action now belongs to that run.                                         *)
PublishOther(x) ==
    /\ task.pc # "marked"
    /\ faults < MaxFaults
    /\ disclosed[x] # 0
    /\ faults' = faults + 1
    /\ stored' = [stored EXCEPT ![x] = [ex |-> disclosed[x], run |-> "other"]]
    /\ contract' = Demoted
    /\ UNCHANGED <<session, trade, splits, price, total, disclosed, snapshot, resolution, task>>

-----------------------------------------------------------------------------
(* close_total_return_contract.                                            *)

(* dart_extra_load.run: a new action run through the last session.         *)
PublishActions ==
    /\ task.pc = "idle"
    /\ session # 0
    /\ LET known == {x \in Dividend : disclosed[x] # 0} IN
         /\ stored' = [x \in Dividend |->
              IF x \in known THEN [ex |-> disclosed[x], run |-> "snapshot"] ELSE stored[x]]
         /\ snapshot' = [end |-> session, rows |-> known, same |-> FALSE]
    /\ contract' = Demoted
    /\ task' = [Idle EXCEPT !.pc = "published"]
    /\ UNCHANGED <<session, trade, splits, price, total, disclosed, resolution, faults>>

(* _incremental_baseline: the coverage of the contract; or, when a rebuild *)
(* has erased it, the last row of the last certified run, if the decisions *)
(* of that run name one action run (`recovered`).                          *)
LastRows == UNION {{d \in trade[a] : total[a][d].run = "last"} : a \in Asset}

(* Seeded fault: a half-open interval.                                     *)
BaselineHalfOpen(recovered) ==
    [pc |-> "marked", mode |-> "incremental", coverage |-> contract.coverage + 1]

Baseline(recovered) ==
    CASE contract.coverage # 0 ->
           [pc |-> "marked", mode |-> "incremental", coverage |-> contract.coverage]
      [] contract.coverage = 0 /\ recovered /\ LastRows # {} ->
           [pc |-> "marked", mode |-> "incremental", coverage |-> Max(LastRows)]
      [] contract.coverage = 0 /\ (~recovered \/ LastRows = {}) ->
           [Idle EXCEPT !.pc = "marked"]

(* _mark_contract_building commits before the rebuild and erases what the  *)
(* contract knew.                                                          *)
Mark(recovered) ==
    /\ task.pc = "published"
    /\ task' = Baseline(recovered)
    /\ contract' = [status |-> "BUILDING", coverage |-> 0]
    /\ UNCHANGED <<session, trade, splits, price, total, disclosed, stored, snapshot,
                   resolution, faults>>

(* _rebuild, _certify_contract and the audit in one transaction.           *)
Certify ==
    /\ task.pc = "marked"
    /\ AuditPasses
    /\ total' = [a \in Asset |->
         IF a \in Affected THEN Recomputed(a) ELSE Appended(a)]
    /\ resolution' = Resolution
    /\ snapshot' = [snapshot EXCEPT !.same = TRUE]
    /\ contract' = [status |-> "CERTIFIED", coverage |-> session]
    /\ task' = Idle
    /\ UNCHANGED <<session, trade, splits, price, disclosed, stored, faults>>

Reject ==
    /\ task.pc = "marked"
    /\ ~AuditPasses
    /\ task' = Idle
    /\ UNCHANGED <<session, trade, splits, price, total, disclosed, stored, snapshot,
                   contract, resolution, faults>>

(* A crash or a failed call: an open transaction is rolled back.           *)
Stop ==
    /\ task.pc # "idle"
    /\ faults < MaxFaults
    /\ faults' = faults + 1
    /\ task' = Idle
    /\ UNCHANGED <<session, trade, splits, price, total, disclosed, stored, snapshot,
                   contract, resolution>>

Close ==
    \/ PublishActions
    \/ \E recovered \in BOOLEAN : Mark(recovered)
    \/ Certify
    \/ Reject

Next ==
    \/ \E traders, split \in SUBSET Asset : LoadSession(traders, split)
    \/ \E d \in Day : ReloadSession(d)
    \/ \E x \in Dividend : PublishOther(x) \/ \E ex \in Day : Disclose(x, ex)
    \/ Close
    \/ Stop

Spec == Init /\ [][Next]_vars

(* The daily task and dart-extras close the contract again and again.      *)
Fairness == WF_vars(Close)

FairSpec == Spec /\ Fairness

-----------------------------------------------------------------------------
(* Properties.                                                             *)

Published == contract.status = "CERTIFIED"

(* A certified label is the one a full rebuild would give: every row of    *)
(* every stock has a certified value, in which exactly the dividends of    *)
(* its episode up to that day are reinvested - whichever stocks _rebuild   *)
(* recomputed, appended to or left alone, now and in the rebuilds before.  *)
LabelIsFull ==
    Published => \A a \in Asset : \A d \in trade[a] :
        total[a][d].run # "none" /\ total[a][d].cash = Reinvested(a, d)

(* No dividend is lost and none is invented: a row holds a dividend when   *)
(* the stock traded before the ex-date, the row is of that day or later,   *)
(* and the listing was not interrupted in between; an inferred ex-date     *)
(* counts from its record date on.                                         *)
CashPaid ==
    Published => \A x \in Current : \A d \in trade[Of[x]] :
        x \in total[Of[x]][d].cash <=>
            /\ stored[x].ex <= d /\ ~Waiting(x)
            /\ \E e \in trade[Of[x]] :
                  /\ e < stored[x].ex
                  /\ \A f \in trade[Of[x]] : e < f /\ f <= d => ~Opens(Of[x], f)

(* An incremental rebuild certifies what a full one would, and that holds   *)
(* each dividend where it belongs.                                         *)
LabelTrue == LabelIsFull /\ CashPaid

(* Rows e and d belong to one episode.                                     *)
Continued(a, e, d) == e < d /\ \A f \in trade[a] : e < f /\ f <= d => ~Opens(a, f)

(* The prices are right: within an episode adj_close is on one level.      *)
PricesLevel ==
    \A a \in Asset : \A e, d \in trade[a] : Continued(a, e, d) => price[a][e] = price[a][d]

(* An incremental rebuild knows how far the certified values reach.        *)
BaselineReaches ==
    task.pc = "marked" /\ task.mode = "incremental" =>
        \A a \in Asset : \A d \in Certified(a) : d <= task.coverage

Levelled ==
    Published => \A a \in Asset : \A e, d \in trade[a] :
        Continued(a, e, d) => total[a][e].level = total[a][d].level

(* The return between two rows of one listing episode is real: both have   *)
(* one level, although _rescale_history_for_events rescales the prices     *)
(* and not the total returns and the append path copies what it finds.     *)
(* On two conditions: the prices themselves are right, which a reload of   *)
(* an episode's first row behind a later split undoes, and no baseline is  *)
(* recovered that ends before a certified value.  Without either TLC       *)
(* refutes it.                                                             *)
OneLevel == [](PricesLevel /\ BaselineReaches) => []Levelled

(* The certified decisions are those that the inputs call for today, the   *)
(* copied ones included; a dividend that waits for its record date or its  *)
(* stock's next trade is decided again when it comes.                      *)
AuditTrue ==
    Published => \A x \in Dividend :
        resolution[x] = IF x \in Current THEN Decide(x) ELSE NoDecision

(* No history of splits, gaps, corrections, reloads and stopped rebuilds   *)
(* leaves the label beyond repair: closing the contract succeeds again.    *)
Recertified == []<>(session # 0 => Published)

(* DATA_CONTRACT.md, total_return_close: the first row of an episode is    *)
(* anchored at adj_close.                                                  *)
Anchored ==
    Published => \A a \in Asset : \A d \in trade[a] :
        Opens(a, d) => total[a][d].level = price[a][d]

=============================================================================
