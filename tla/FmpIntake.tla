----------------------------- MODULE FmpIntake -----------------------------
(***************************************************************************)
(* The American leg of the daily task and its backfill: the FMP objects of  *)
(* a day in Bronze (bronze/fmp.py, fmp_macro.py, fmp_external.py,           *)
(* fmp_regime.py), the step of the task that takes them into Silver         *)
(* (daily_full._run_fmp_incremental, silver/fmp_load.py) and what decides   *)
(* which security an American price belongs to (silver/fmp.py).             *)
(*                                                                         *)
(* A security has a history of tickers, of which the provider shows the     *)
(* active list, the delisted list and the list of renames.  Dates are day   *)
(* numbers: DateMin is date.min, Open is a missing valid_to.  A price is named  *)
(* by the security it really is a price of; its numbers are left out, as    *)
(* are CIK, CUSIP and ISIN, which never decide an identity, and currencies  *)
(* and commodities.  Each security listed on EventDay files one statement   *)
(* and pays one dividend that day.                                          *)
(***************************************************************************)
EXTENDS Integers, Sequences, FiniteSets, FiniteSetsExt

CONSTANTS
    NumDays,      \* sessions that can be targets
    Sec,          \* securities
    NumTickers,   \* tickers are numbers, so that they can be sorted
    Histories,    \* possible histories: functions from securities and days to tickers
    EventDay,     \* the day of the statement and of the dividend
    Beside,       \* TRUE when a backfill may run beside the daily task
    MaxBackfills, \* invocations of the backfill in one behaviour
    MaxStops      \* stops of a task in one behaviour

Days == 1 .. NumDays
Tickers == 1 .. NumTickers
DateMin == 0
Open == NumDays + 1

\* What has been delisted stays delisted (_all_snapshot_files).
ListedOnce(tickers) ==
    \A d, e, f \in Days : d < e /\ e < f /\ tickers[d] # 0 /\ tickers[f] # 0 => tickers[e] # 0

ASSUME FmpAssumption ==
    /\ NumDays \in Nat \ {0}
    /\ NumTickers \in Nat \ {0}
    /\ MaxStops \in Nat /\ MaxBackfills \in Nat
    /\ Beside \in BOOLEAN
    /\ EventDay \in Days
    /\ Histories \subseteq [Sec -> [Days -> Tickers \cup {0}]]
    /\ \A h \in Histories : \A s \in Sec : ListedOnce(h[s])

\* The objects of a target day, in the order the daily step collects them.
Feeds == <<"macro", "external", "regime", "universe", "eod">>
Feed == {"macro", "external", "regime", "universe", "eod"}
\* The feeds that refuse to touch a body without a manifest.
Strict == {"external", "regime"}

VARIABLES
    history,    \* the ticker of each security on each day, 0 when not listed
    today,      \* the calendar; the target is the day before
    arrived,    \* days whose end-of-day prices the provider has
    body,       \* per day and feed: the stored body
    sealed,     \* per day: the feeds with a manifest
    observed,   \* days with regime observations in Silver
    ids,        \* asset_identifier: asset, ticker, valid_from, valid_to
    next,       \* number of the next asset
    prices,     \* price_daily: asset, day and the security priced
    facts,      \* fundamental and corporate_action: asset, security, kind and key
    certified,  \* days with a CERTIFIED fmp_daily run
    task,       \* the daily step: its target and its place in Feeds, 0: idle
    fill,       \* the backfill task
    parent,     \* the backfill's parent run and its certified partitions
    fills,      \* invocations of the backfill so far
    stops       \* stops so far

world == <<history, today, arrived>>
bronze == <<body, sealed>>
silver == <<observed, ids, next, prices, facts, certified>>
vars == <<world, bronze, silver, task, fill, parent, fills, stops>>

Identifier == [asset : Nat, ticker : Tickers, from : 0 .. NumDays, to : 0 .. Open]
Price == [asset : Nat, day : Days, sec : Sec]
Fact == [asset : Nat, sec : Sec, kind : {"statement", "dividend"}, key : Tickers \cup {0}]
Partition == {0} \cup Days      \* 0 is "asset:all", a day stands for a year

TypeOK ==
    /\ history \in Histories
    /\ today \in 1 .. NumDays + 1
    /\ arrived \subseteq Days
    /\ body \in [Days -> [Feed -> {"none", "empty", "full"}]]
    /\ sealed \in [Days -> SUBSET Feed]
    /\ observed \subseteq Days /\ certified \subseteq Days
    /\ ids \subseteq Identifier
    /\ next \in Nat
    /\ prices \subseteq Price /\ facts \subseteq Fact
    /\ task \in [day : Days \cup {0}, at : 0 .. 6, put : BOOLEAN]
    /\ fill \in [pc : {"idle", "asset", "price"}, asof : Days \cup {0}, days : SUBSET Days]
    /\ parent \in [status : {"NONE", "BUILDING", "CERTIFIED", "FAILED"},
                   input : [Days -> SUBSET Feed], done : SUBSET Partition]
    /\ fills \in 0 .. MaxBackfills /\ stops \in 0 .. MaxStops

-----------------------------------------------------------------------------
(***************************************************************************)
(* What the provider shows of the world as of day d.                        *)
(***************************************************************************)
ListedOn(d) == {s \in Sec : history[s][d] # 0}
FirstDay(s) == CHOOSE d \in Days : /\ history[s][d] # 0
                                   /\ \A e \in Days : history[s][e] # 0 => d <= e
LastDay(s, d) == CHOOSE e \in 1 .. d : /\ history[s][e] # 0
                                       /\ \A x \in 1 .. d : history[s][x] # 0 => x <= e
Gone(d) == {s \in Sec : history[s][d] = 0 /\ \E e \in 1 .. d : history[s][e] # 0}

\* company-screener, profile-bulk and delisted-companies, as ticker, ipoDate
\* and, in the delisted list only, delistedDate.
Active(d) == {[ticker |-> history[s][d], ipo |-> FirstDay(s)] : s \in ListedOn(d)}
Delisted(d) == {[ticker |-> history[s][LastDay(s, d)], ipo |-> FirstDay(s),
                 last |-> LastDay(s, d)] : s \in Gone(d)}

RenameDays(s) == {d \in 2 .. NumDays : /\ history[s][d - 1] # 0 /\ history[s][d] # 0
                                       /\ history[s][d - 1] # history[s][d]}
Renames(d) == UNION {{[old |-> history[s][e - 1], new |-> history[s][e], on |-> e] :
                          e \in {e \in RenameDays(s) : e <= d}} : s \in Sec}

-----------------------------------------------------------------------------
(***************************************************************************)
(* prepare_universe.  The rows of a ticker are merged whatever security     *)
(* they speak of: the active row keeps its own fields and takes             *)
(* delistedDate from a delisted row of the same ticker.                     *)
(***************************************************************************)
Latest(S) == CHOOSE x \in S : \A y \in S : y.last <= x.last

Merged(t, d) ==
    LET active == {a \in Active(d) : a.ticker = t}
        gone == {g \in Delisted(d) : g.ticker = t}
    IN  [from |-> IF active # {} THEN (CHOOSE a \in active : TRUE).ipo ELSE Latest(gone).ipo,
         to |-> IF gone # {} THEN Latest(gone).last ELSE Open]

Symbols(d) == {a.ticker : a \in Active(d)} \cup {g.ticker : g \in Delisted(d)}

\* The changes are taken in the order of their dates, those of one date in the
\* order of their old tickers.
Turn(c) == c.on * (NumTickers + 1) + c.old
LastTurn == NumDays * (NumTickers + 1) + NumTickers

\* A rename into an admitted ticker bounds the old one, which is no longer
\* admitted in its own right.
Rename(u, changes) ==
    LET taken == {c \in changes : c.new \in u.admitted}
    IN  [admitted |-> u.admitted \ {c.old : c \in taken}, legs |-> u.legs \cup taken]

Renamed(d) ==
    LET u[i \in 0 .. LastTurn] ==
            IF i = 0 THEN [admitted |-> Symbols(d), legs |-> {}]
            ELSE Rename(u[i - 1], {c \in Renames(d) : Turn(c) = i})
    IN  u[LastTurn]

\* Mutant of LegsOf: the changes are looked up by the old ticker.
LegsByOld(u, t) == {c \in u.legs : c.old = t}
LegsOf(u, t) == {c \in u.legs : c.new = t}

\* The identifier candidates of the asset whose current ticker is t: when each
\* of its tickers was valid.  Of several rows of an old ticker the last is kept.
RowsOf(u, t, d) ==
    LET legs == LegsOf(u, t)
        left(o) == Max({c.on : c \in {c \in legs : c.old = o}})
        moved == Max({Merged(t, d).from} \cup {c.on : c \in legs})
    IN  [o \in {t} \cup {c.old : c \in legs} |->
            IF o = t THEN [from |-> moved, to |-> Merged(t, d).to]
            ELSE [from |-> DateMin, to |-> left(o) - 1]]

\* The natural key of an asset is its current ticker; the frame holds the keys
\* in ascending order, and of each the old tickers before the current one.
Universe(d) == LET u == Renamed(d) IN [t \in u.admitted |-> RowsOf(u, t, d)]

\* _ticker_metadata: one row per ticker, the last one.
Holders(rows, t) == {k \in DOMAIN rows : t \in DOMAIN rows[k]}
MetaOf(rows, t) == LET k == Max(Holders(rows, t))
                   IN  [key |-> k, from |-> rows[k][t].from, to |-> rows[k][t].to]

\* prepare_prices: the rows of eod-bulk whose ticker is valid on the day.
PriceCandidates(rows, e) ==
    {[key |-> MetaOf(rows, history[s][e]).key, day |-> e, sec |-> s] :
        s \in {s \in ListedOn(e) :
            /\ Holders(rows, history[s][e]) # {}
            /\ MetaOf(rows, history[s][e]).from <= e
            /\ e <= MetaOf(rows, history[s][e]).to}}

\* Mutant of FactKey: a statement is keyed as a dividend is.
FactKeyBySymbol(kind, k) == k

\* prepare_fundamentals and prepare_actions: what the latest statements and the
\* calendar of the neighbouring days show as of day d.  The key of a dividend is
\* a hash of its row with the natural key for its symbol; the key of a statement
\* is its acceptance date.
FactKey(kind, k) == IF kind = "dividend" THEN k ELSE 0

FactCandidates(rows, d) ==
    {[key |-> MetaOf(rows, history[s][EventDay]).key, sec |-> s, kind |-> kind] :
        s \in {s \in ListedOn(EventDay) :
            /\ EventDay - 1 <= d /\ d <= EventDay + 1
            /\ Holders(rows, history[s][EventDay]) # {}},
        kind \in {"statement", "dividend"}}

-----------------------------------------------------------------------------
(***************************************************************************)
(* publish_assets.                                                          *)
(***************************************************************************)
OpenRows(db, t) == {i \in db : i.ticker = t /\ i.to = Open}
AnAsset(S) == (CHOOSE i \in S : TRUE).asset

\* The asset a natural key stands for, 0 when it is a new one: the owner of an
\* old ticker that is still open, of the open ticker, or of the same episode.
AssetOfKey(rows, k, db) ==
    LET own == rows[k]
        same(t) == {x \in db : x.ticker = t /\ x.from = own[t].from /\ x.to = own[t].to}
        bounded == {t \in DOMAIN own : own[t].to # Open}
        bridges == {t \in bounded : same(t) = {} /\ OpenRows(db, t) # {}}
        current == {t \in DOMAIN own \ bounded : OpenRows(db, t) # {}}
        earlier == {t \in bounded : same(t) # {}}
        first(S) == CHOOSE t \in S : \A o \in S : o = k \/ (t # k /\ own[t].to <= own[o].to)
    IN  IF bridges # {} THEN AnAsset(OpenRows(db, first(bridges)))
        ELSE IF current # {} THEN AnAsset(OpenRows(db, first(current)))
        ELSE IF earlier # {} THEN AnAsset(same(first(earlier)))
        ELSE 0

Keys(rows) == DOMAIN rows
NewKeys(rows, db) == {k \in Keys(rows) : AssetOfKey(rows, k, db) = 0}

\* natural_to_id: a new asset takes the next number, in the order of the keys.
NaturalToId(rows, db, n) ==
    [k \in Keys(rows) |->
        IF AssetOfKey(rows, k, db) # 0 THEN AssetOfKey(rows, k, db)
        ELSE n + Cardinality({j \in NewKeys(rows, db) : j < k})]

Upsert(db, r) == {i \in db : ~ (i.asset = r.asset /\ i.ticker = r.ticker /\ i.from = r.from)}
                 \cup {r}
\* Mutant of CloseAt: valid_to taken as exclusive.
CloseExclusive(db, x, day) == (db \ {x}) \cup {[x EXCEPT !.to = day - 1]}
CloseAt(db, x, day) == (db \ {x}) \cup {[x EXCEPT !.to = day]}

\* The identifier candidate r of ticker t and asset a against the stored rows
\* of the ticker, of which at most one is open.
Conflict(db, t, r, a) ==
    LET x == CHOOSE i \in OpenRows(db, t) : TRUE
    IN  /\ OpenRows(db, t) # {}
        /\ IF r.to # Open THEN x.asset # a \/ x.from > r.to
           ELSE x.asset # a /\ (r.from = DateMin \/ x.from > r.from - 1)

Identify(db, t, r, a) ==
    LET open == OpenRows(db, t)
        x == CHOOSE i \in open : TRUE
        new == [asset |-> a, ticker |-> t, from |-> r.from, to |-> r.to]
    IN  CASE open = {} -> Upsert(db, new)
          [] open # {} /\ r.to # Open -> CloseAt(db, x, r.to)
          [] open # {} /\ r.to = Open /\ x.asset = a -> db
          [] open # {} /\ r.to = Open /\ x.asset # a ->
                 Upsert(CloseAt(db, x, r.from - 1), new)

\* The candidates of one key are of different tickers, so that their order does
\* not matter.
PublishKey(p, own, a) ==
    LET stored(t) == {i \in p.ids : i.ticker = t}
    IN  IF \E t \in DOMAIN own : Conflict(stored(t), t, own[t], a)
        THEN [p EXCEPT !.ok = FALSE]
        ELSE [p EXCEPT !.ids = {i \in @ : i.ticker \notin DOMAIN own}
                               \cup UNION {Identify(stored(t), t, own[t], a) : t \in DOMAIN own}]

PublishAssets(rows, db, n) ==
    LET map == NaturalToId(rows, db, n)
        p[k \in 0 .. NumTickers] ==
            IF k = 0 THEN [ids |-> db, ok |-> TRUE]
            ELSE IF k \in Keys(rows) THEN PublishKey(p[k - 1], rows[k], map[k])
            ELSE p[k - 1]
    IN  p[NumTickers]

Placed(candidates, map) == {[asset |-> map[c.key], day |-> c.day, sec |-> c.sec] : c \in candidates}
Facts(candidates, map) ==
    {[asset |-> map[c.key], sec |-> c.sec, kind |-> c.kind, key |-> FactKey(c.kind, c.key)] :
        c \in candidates}
\* The upsert replaces the row of the same asset and key, whose statement or
\* dividend is the same.
Merge(stored, new) ==
    {f \in stored : ~ \E n \in new : n.asset = f.asset /\ n.kind = f.kind /\ n.key = f.key} \cup new
\* _publish_frame refuses two candidates with the same publish key.
Distinct(S) == \A x, y \in S : x.asset = y.asset /\ x.day = y.day => x = y

-----------------------------------------------------------------------------
(***************************************************************************)
(* The world.                                                               *)
(***************************************************************************)
Init ==
    /\ history \in Histories
    /\ today = 1
    /\ arrived = {}
    /\ body = [d \in Days |-> [f \in Feed |-> "none"]]
    /\ sealed = [d \in Days |-> {}]
    /\ observed = {} /\ ids = {} /\ next = 1 /\ prices = {} /\ facts = {} /\ certified = {}
    /\ task = [day |-> 0, at |-> 0, put |-> FALSE]
    /\ fill = [pc |-> "idle", asof |-> 0, days |-> {}]
    /\ parent = [status |-> "NONE", input |-> [d \in Days |-> {}], done |-> {}]
    /\ fills = 0 /\ stops = 0

\* The days before today are over; the daily task of a day has ended by then.
NextDay ==
    /\ today <= NumDays /\ task.at = 0
    /\ today' = today + 1
    /\ UNCHANGED <<history, arrived, bronze, silver, task, fill, parent, fills, stops>>

Arrive(d) ==
    /\ d < today /\ d \notin arrived
    /\ arrived' = arrived \cup {d}
    /\ UNCHANGED <<history, today, bronze, silver, task, fill, parent, fills, stops>>

-----------------------------------------------------------------------------
(***************************************************************************)
(* The daily step.                                                          *)
(***************************************************************************)
Busy == fill.pc # "idle"
ThisFeed == Feeds[task.at]
Finished == [day |-> 0, at |-> 0, put |-> FALSE]

\* Mutant of StartDaily: the target is the day itself, not the day before.
StartToday ==
    /\ task.at = 0 /\ today > 1
    /\ Beside \/ ~ Busy
    /\ task' = [day |-> today, at |-> 1, put |-> FALSE]
    /\ UNCHANGED <<world, bronze, silver, fill, parent, fills, stops>>

StartDaily ==
    /\ task.at = 0 /\ today > 1
    /\ Beside \/ ~ Busy
    /\ task' = [day |-> today - 1, at |-> 1, put |-> FALSE]
    /\ UNCHANGED <<world, bronze, silver, fill, parent, fills, stops>>

Advance == [task EXCEPT !.at = @ + 1, !.put = FALSE]

\* The regime feed goes straight to Silver; a certified day ends after it.
Leave(f, d) ==
    /\ observed' = IF f = "regime" THEN observed \cup {d} ELSE observed
    /\ task' = IF f = "regime" /\ d \in certified THEN Finished ELSE Advance
    /\ UNCHANGED <<ids, next, prices, facts, certified>>

\* An object with a manifest is taken as it is.
Reuse ==
    /\ task.at \in 1 .. 5 /\ ~ task.put
    /\ ThisFeed \in sealed[task.day]
    /\ Leave(ThisFeed, task.day)
    /\ UNCHANGED <<world, bronze, fill, parent, fills, stops>>

\* A body without its manifest is fetched again, except by the strict feeds.
Fetch ==
    /\ task.at \in 1 .. 5 /\ ~ task.put
    /\ ThisFeed \notin sealed[task.day]
    /\ ~ (ThisFeed \in Strict /\ body[task.day][ThisFeed] # "none")
    /\ body' = [body EXCEPT ![task.day][ThisFeed] =
                   IF ThisFeed = "eod" /\ task.day \notin arrived THEN "empty" ELSE "full"]
    /\ task' = [task EXCEPT !.put = TRUE]
    /\ UNCHANGED <<world, sealed, silver, fill, parent, fills, stops>>

RefuseOrphan ==
    /\ task.at \in 1 .. 5 /\ ~ task.put
    /\ ThisFeed \in Strict \ sealed[task.day]
    /\ body[task.day][ThisFeed] # "none"
    /\ task' = Finished
    /\ UNCHANGED <<world, bronze, silver, fill, parent, fills, stops>>

Seal ==
    /\ task.at \in 1 .. 5 /\ task.put
    /\ sealed' = [sealed EXCEPT ![task.day] = @ \cup {ThisFeed}]
    /\ Leave(ThisFeed, task.day)
    /\ UNCHANGED <<world, body, fill, parent, fills, stops>>

\* fmp_load._daily: candidates, gate and one transaction.  A failed run writes
\* no data.
DayRows == Universe(task.day)
DayCandidates == IF body[task.day]["eod"] = "full"
                 THEN PriceCandidates(DayRows, task.day) ELSE {}
DayResult == PublishAssets(DayRows, ids, next)
DayPrices == Placed(DayCandidates, NaturalToId(DayRows, ids, next))
\* Mutant of Publishable: the gate lets a session without prices through.
PublishableEmpty == DayResult.ok /\ Distinct(DayPrices)
DayFacts == IF EventDay < today
            THEN Facts(FactCandidates(DayRows, task.day), NaturalToId(DayRows, ids, next)) ELSE {}
Publishable == DayCandidates # {} /\ DayResult.ok /\ Distinct(DayPrices)

LoadDaily ==
    /\ task.at = 6 /\ Publishable
    /\ ids' = DayResult.ids
    /\ next' = next + Cardinality(NewKeys(DayRows, ids))
    /\ prices' = {p \in prices : p.day # task.day} \cup DayPrices
    /\ facts' = Merge(facts, DayFacts)
    /\ certified' = certified \cup {task.day}
    /\ task' = Finished
    /\ UNCHANGED <<world, bronze, observed, fill, parent, fills, stops>>

LoadFails ==
    /\ task.at = 6 /\ ~ Publishable
    /\ task' = Finished
    /\ UNCHANGED <<world, bronze, silver, fill, parent, fills, stops>>

StopDaily ==
    /\ task.at # 0 /\ stops < MaxStops
    /\ stops' = stops + 1
    /\ task' = Finished
    /\ UNCHANGED <<world, bronze, silver, fill, parent, fills>>

-----------------------------------------------------------------------------
(***************************************************************************)
(* The backfill: it works from a download of what is stored, certifies one  *)
(* partition at a time and takes no lock.                                   *)
(***************************************************************************)
Snapshots == {d \in Days : body[d]["universe"] # "none"}
LatestSnapshot == CHOOSE d \in Snapshots : \A e \in Snapshots : e <= d

\* A new parent run, or the one of --resume, whose fingerprint must be that of
\* the objects stored now.
StartFill(resumed) ==
    /\ fill.pc = "idle" /\ fills < MaxBackfills
    /\ Beside \/ task.at = 0
    /\ Snapshots # {}
    /\ IF resumed
       THEN /\ parent.status # "NONE" /\ parent.input = sealed
            /\ parent' = [parent EXCEPT !.status = "BUILDING"]
       ELSE parent' = [status |-> "BUILDING", input |-> sealed, done |-> {}]
    /\ fill' = [pc |-> IF resumed /\ 0 \in parent.done THEN "price" ELSE "asset",
                asof |-> LatestSnapshot,
                days |-> {d \in Days : body[d]["eod"] = "full"}]
    /\ fills' = fills + 1
    /\ UNCHANGED <<world, bronze, silver, task, stops>>

FillIdle == [pc |-> "idle", asof |-> 0, days |-> {}]
FillRows == Universe(fill.asof)
FillFails == /\ parent' = [parent EXCEPT !.status = "FAILED"]
             /\ fill' = FillIdle

FillAssets ==
    /\ fill.pc = "asset"
    /\ LET result == PublishAssets(FillRows, ids, next)
       IN  IF result.ok
           THEN /\ ids' = result.ids
                /\ next' = next + Cardinality(NewKeys(FillRows, ids))
                /\ parent' = [parent EXCEPT !.done = @ \cup {0}]
                /\ fill' = [fill EXCEPT !.pc = "price"]
           ELSE FillFails /\ UNCHANGED <<ids, next>>
    /\ UNCHANGED <<world, bronze, observed, prices, facts, certified, task, fills, stops>>

\* _existing_identifier_map: the stored owner of a key's ticker, the open row
\* first and the latest one otherwise.
Stored(t) == {i \in ids : i.ticker = t}
Preferred(t) == CHOOSE i \in Stored(t) : \A j \in Stored(t) :
                    \/ i.to = Open
                    \/ j.to # Open /\ j.from <= i.from
FillMap == [k \in {k \in Tickers : Stored(k) # {}} |-> Preferred(k).asset]

\* Mutant of Remaining: the last year of the range is left out.
RemainingShort == {d \in fill.days \ parent.done : d < fill.asof}
Remaining == fill.days \ parent.done

FillPrices(d) ==
    /\ fill.pc = "price"
    /\ d \in Remaining /\ \A e \in Remaining : d <= e
    /\ LET candidates == PriceCandidates(FillRows, d)
           placed == Placed(candidates, FillMap)
           events == {c \in FactCandidates(FillRows, d) : d = EventDay /\ c.key \in DOMAIN FillMap}
       IN  CASE candidates = {} ->
                    /\ parent' = [parent EXCEPT !.done = @ \cup {d}]
                    /\ UNCHANGED <<prices, facts, fill>>
             [] candidates # {} /\ {c.key : c \in candidates} \subseteq DOMAIN FillMap
                    /\ Distinct(placed) ->
                    /\ prices' = {p \in prices : ~ \E q \in placed : q.asset = p.asset /\ q.day = p.day}
                                 \cup placed
                    /\ facts' = Merge(facts, Facts(events, FillMap))
                    /\ parent' = [parent EXCEPT !.done = @ \cup {d}]
                    /\ UNCHANGED fill
             [] OTHER -> FillFails /\ UNCHANGED <<prices, facts>>
    /\ UNCHANGED <<world, bronze, observed, ids, next, certified, task, fills, stops>>

FinishFill ==
    /\ fill.pc = "price" /\ Remaining = {}
    /\ parent' = [parent EXCEPT !.status = "CERTIFIED"]
    /\ fill' = FillIdle
    /\ UNCHANGED <<world, bronze, silver, task, fills, stops>>

StopFill ==
    /\ Busy /\ stops < MaxStops
    /\ stops' = stops + 1
    /\ fill' = FillIdle
    /\ UNCHANGED <<world, bronze, silver, task, parent, fills>>

-----------------------------------------------------------------------------
(***************************************************************************)
(* fmp_targeted_repair: an operator drops the assets none of whose tickers  *)
(* is in the universe of the latest snapshot, with all their rows, and the  *)
(* identifiers that are not in it.  Its transactions are taken as one.      *)
(***************************************************************************)
Repair ==
    /\ ~ Busy /\ task.at = 0 /\ Snapshots # {}
    /\ LET rows == Universe(LatestSnapshot)
           admitted == UNION {DOMAIN rows[k] : k \in DOMAIN rows}
           kept == {i.asset : i \in {i \in ids : i.ticker \in admitted}}
       IN  /\ ids' = {i \in ids : i.ticker \in admitted}
           /\ prices' = {p \in prices : p.asset \in kept}
           /\ facts' = {f \in facts : f.asset \in kept}
    /\ UNCHANGED <<world, bronze, observed, next, certified, task, fill, parent, fills, stops>>

-----------------------------------------------------------------------------
DailyStep == StartDaily \/ Reuse \/ Fetch \/ RefuseOrphan \/ Seal \/ LoadDaily \/ LoadFails
FillStep == FillAssets \/ FinishFill \/ \E d \in Days : FillPrices(d)

Next ==
    \/ NextDay \/ \E d \in Days : Arrive(d)
    \/ DailyStep \/ StopDaily
    \/ \E resumed \in BOOLEAN : StartFill(resumed)
    \/ FillStep \/ StopFill \/ Repair

Spec == Init /\ [][Next]_vars

\* The scheduler retries a failed task and the provider does publish the day.
FairSpec == /\ Spec /\ WF_vars(DailyStep) /\ WF_vars(FillStep)
            /\ \A d \in Days : WF_vars(Arrive(d))

-----------------------------------------------------------------------------
(***************************************************************************)
(* Properties.                                                              *)
(***************************************************************************)
\* No other security ever has a ticker of this one.
Plain(s) == \A r \in Sec \ {s} : \A d, e \in Days :
                history[s][d] # 0 => history[r][e] # history[s][d]

\* A day was certified under each ticker of the security.
Linked(s) == \A d, e \in RenameDays(s) :
                 d < e => \E c \in certified : d <= c /\ c < e

\* One security, one asset: a security that owns its tickers alone is never
\* priced under the asset of another, and it keeps its asset across renames,
\* delistings and backfills unless it is renamed twice with no certified day in
\* between (publish_assets, _existing_identifier_map).
OneAsset ==
    \A p, q \in prices : Plain(p.sec) =>
        /\ p.asset = q.asset => p.sec = q.sec
        /\ p.sec = q.sec /\ Linked(p.sec) => p.asset = q.asset

\* Of a chain of renames prepare_universe keeps the last, and the history before
\* it is lost to a backfill and dropped by a repair.
Simple(s) == Plain(s) /\ Cardinality(RenameDays(s)) < 2

\* A certified day has the price of each listed security that owns its tickers
\* alone, and no later day, backfill or repair takes one away (_publish,
\* prepare_prices, _stale_assets).
PricesOfDay ==
    \A d \in certified : \A s \in ListedOn(d) :
        Simple(s) => \E p \in prices : p.day = d /\ p.sec = s

\* The identifiers answer a question about the past: the ticker a priced
\* security had on the day leads to its asset and to no other.
PointInTime ==
    \A p \in prices : Simple(p.sec) =>
        {i.asset : i \in {i \in ids : /\ i.ticker = history[p.sec][p.day]
                                      /\ i.from <= p.day /\ p.day <= i.to}} = {p.asset}

\* However often a statement is seen, before and after a rename, there is one row
\* of it; of a dividend there is one row as long as the natural key stays
\* (prepare_fundamentals, prepare_actions, _publish_frame).
FactOnce ==
    \A f, g \in facts :
        f.sec = g.sec /\ f.kind = g.kind /\ Simple(f.sec) =>
            /\ f.asset = g.asset
            /\ f.kind = "statement" \/ RenameDays(f.sec) = {} => f = g

\* A certified backfill has published every price of the end-of-day objects it
\* was given, whatever stops and resumes it took (_completed_partitions).
FillComplete ==
    parent.status = "CERTIFIED" =>
        \A d \in Days : "eod" \in parent.input[d] /\ body[d]["eod"] = "full" =>
            \A s \in ListedOn(d) : Simple(s) => \E p \in prices : p.day = d /\ p.sec = s

\* Stated by the name of a test of publish_assets: the reuse of a ticker does not
\* merge its new issuer with the asset of the earlier one.
NotMerged == \A p, q \in prices : p.asset = q.asset => p.sec = q.sec

\* Stated by the comment in daily_full: a task retry safely reuses the objects.
\* A day that is retried for long enough is certified.
RetrySucceeds ==
    \A d \in Days : (task.day = d) ~> (d \in certified \/ today > d + 1)
=============================================================================
