-------------------------- MODULE MarketFollowups --------------------------
(***************************************************************************)
(* The tail of the daily task and of a deferred gap replay: the KIS flows   *)
(* of the last sessions (kis_flows.py, kis_provider_daily.py,               *)
(* bronze/kis_history.py, silver/kis_flows.py), the Gold factors of the day *)
(* (gold/run.py, gold/bulk_daily.py, gold/promote_daily.py) and the rest.   *)
(* The certification lock lets one task run at a time.                      *)
(*                                                                         *)
(* Days are the numbers of the sessions.  A flow is the number of the value *)
(* the provider shows; "J" stands for the KRX investor flow and its short   *)
(* sales, which one partition publishes together.  Only tasks publish, so   *)
(* the order in which observations are stored is the order in which they    *)
(* were first observed.  The status of a security on NXT is settled once    *)
(* its daily page is posted.                                                *)
(***************************************************************************)
EXTENDS Integers, FiniteSets, SequencesExt, FiniteSetsExt

CONSTANTS
    NumDays,       \* sessions
    Seed,          \* the session the first reference checkpoint reaches
    Window,        \* sessions collected again, five in the code
    MaxGap,        \* sessions a reference checkpoint may lag, forty days
    Asset,         \* the pinned research universe, by asset number
    Gone,          \* per asset: its delisting date, 0: listed throughout
    Nxt,           \* per day: the assets eligible on NXT
    Factor,        \* the factors of the image's manifest, the legacy batch being one
    Workers,       \* partitions read ahead
    Revised,       \* assets and days whose flows the provider revises
    MaxRevisions,  \* revisions of flows by the provider
    MaxStops       \* stops of a task, and reads that fail

Day == 1 .. NumDays
Venue == {"J", "NX", "UN"}
Value == {0, 1}
Key == Asset \X Day \X Venue
Plan == [asset : Asset, venue : Venue, days : SUBSET Day]

ASSUME FollowupAssumption ==
    /\ NumDays \in Nat \ {0} /\ Seed \in Day
    /\ Window \in Nat \ {0} /\ MaxGap \in Nat /\ Workers \in Nat \ {0}
    /\ MaxRevisions \in Nat /\ MaxStops \in Nat
    /\ IsFiniteSet(Asset) /\ Asset \subseteq Nat /\ IsFiniteSet(Factor)
    /\ Gone \in [Asset -> 0 .. NumDays]
    /\ Nxt \in [Day -> SUBSET Asset]
    /\ Revised \subseteq Asset \X Day

Listed(a, d) == Gone[a] = 0 \/ d < Gone[a]

VARIABLES
    today,     \* the newest completed session
    core,      \* the newest session with certified prices; there is no hole before it
    flow,      \* what the provider shows per asset and day
    delivered, \* days whose flows the provider has
    posted,    \* days whose NXT page and delistings are posted
    revisions, \* revisions so far
    ref,       \* the reference checkpoint: through, and the closed listing periods
    pending,   \* captured references: from a window and a checkpoint to what was prepared
    listings,  \* asset_listing_snapshot: number of snapshots published
    checks,    \* partition checkpoints: the manifest and the plan
    obs,       \* kis_market_observation: the versions of each key, oldest first
    approved,  \* factors whose status is APPROVED
    gold,      \* per factor: days with a partition
    finished,  \* per day: the factors its task found approved, or Unfinished
    task,      \* the running task
    plans,     \* its partitions that are not done
    got,       \* partitions read ahead and what was read
    stops      \* stops and failed reads so far

world == <<today, flow, delivered, posted, revisions>>
kis == <<ref, pending, listings, checks, obs>>
factors == <<approved, gold>>
vars == <<world, core, kis, factors, finished, task, plans, got, stops>>

Unfinished == {"unfinished"}
Reference == [through : Day, closed : SUBSET Asset]
Identity == [sessions : SUBSET Day, ref : Reference]
Idle == [pc |-> "idle", day |-> 0, from |-> 0, sessions |-> {}, manifest |-> 0,
         next |-> ref, failed |-> FALSE, list |-> {}, todo |-> {}]

TypeOK ==
    /\ today \in Day /\ core \in Day /\ core <= today
    /\ flow \in [Asset -> [Day -> Value]]
    /\ delivered \subseteq 1 .. today /\ posted \subseteq 1 .. today
    /\ ref \in Reference /\ ref.through <= core
    /\ \A p \in pending : /\ p.of \in Identity /\ p.next \in Reference
                          /\ p.manifest \in 1 .. listings
    /\ \A c \in checks : c.manifest \in 1 .. listings /\ c.plan \in Plan
    /\ obs \in [Key -> Seq(Value)]
    /\ approved \subseteq Factor
    /\ gold \in [Factor -> SUBSET (1 .. core)]
    /\ finished \in [Day -> (SUBSET Factor) \cup {Unfinished}]
    /\ task.pc \in {"idle", "reference", "flows", "mark", "list", "gold"}
    /\ task.day \in 0 .. core /\ task.sessions \subseteq Day
    /\ DOMAIN got \subseteq plans
    /\ revisions \in 0 .. MaxRevisions /\ stops \in 0 .. MaxStops

-----------------------------------------------------------------------------
(***************************************************************************)
(* The window of a target and what is expected of it.                       *)
(***************************************************************************)
\* The last Window sessions, and all since the checkpoint when it lags more.
Sessions(d) == {e \in 1 .. d : e >= Min({d - Window + 1, ref.through + 1})}

Periods(r) == [a \in Asset |-> IF a \in r.closed THEN Gone[a] ELSE 0]
InPeriod(r, a, d) == Periods(r)[a] = 0 \/ d < Periods(r)[a]
Priced(a, d) == d <= core /\ Listed(a, d)

\* expected_partitions: every day of the window within a listing period.
Expected(r, S, a) == {d \in S : InPeriod(r, a, d)}

Entries(a, days, eligible) ==
    {p \in {[asset |-> a, venue |-> "J", days |-> days],
            [asset |-> a, venue |-> "NX", days |-> eligible],
            [asset |-> a, venue |-> "UN", days |-> eligible],
            [asset |-> a, venue |-> "UN", days |-> days \ eligible]} : p.days # {}}

PlansByLatestPage(r, S, a) ==
    LET days == Expected(r, S, a)
    IN  Entries(a, days, IF days # {} /\ a \in Nxt[Max(S)] THEN days ELSE {})

\* The partitions of an asset: the KRX flows of all days, NXT and integrated
\* flows of the eligible days, and integrated flows from KRX alone for the others.
PlansOf(r, S, a) ==
    LET days == Expected(r, S, a)
    IN  Entries(a, days, {d \in days : a \in Nxt[d]})
AllPlans(r, S) == UNION {PlansOf(r, S, a) : a \in Asset}

\* Their order in the plan of a run: by asset, and as above for each.
Place(p) == 4 * p.asset + (IF p.venue = "J" THEN 0 ELSE IF p.venue = "NX" THEN 1
                           ELSE IF \E d \in p.days : p.asset \in Nxt[d] THEN 2 ELSE 3)

Keys(p) == {<<p.asset, d, p.venue>> : d \in p.days}
KeysOf(r, S) == UNION {Keys(p) : p \in AllPlans(r, S)}
Stored(S) == {k \in Key : k[2] \in S /\ obs[k] # <<>>}

-----------------------------------------------------------------------------
Init ==
    /\ today = Seed /\ core = Seed
    /\ flow = [a \in Asset |-> [d \in Day |-> 0]]
    /\ delivered = 1 .. Seed /\ posted = 1 .. Seed
    /\ revisions = 0 /\ stops = 0
    /\ ref = [through |-> Seed, closed |-> {a \in Asset : Gone[a] \in 1 .. Seed}]
    /\ pending = {} /\ listings = 0 /\ checks = {}
    /\ obs = [k \in Key |-> IF k \in KeysOf(ref, 1 .. Seed) THEN <<0>> ELSE <<>>]
    /\ approved = {}
    /\ gold = [f \in Factor |-> {}]
    /\ finished = [d \in Day |-> IF d <= Seed THEN {} ELSE Unfinished]
    /\ task = Idle /\ plans = {} /\ got = <<>>

(***************************************************************************)
(* The provider, the exchange and the reviewer of factors.                  *)
(***************************************************************************)
NextDay ==
    /\ today < NumDays
    /\ today' = today + 1
    /\ UNCHANGED <<core, flow, delivered, posted, revisions, kis, factors, finished,
                   task, plans, got, stops>>

Deliver(d) ==
    /\ d \in 1 .. today \ delivered
    /\ delivered' = delivered \cup {d}
    /\ UNCHANGED <<today, core, flow, posted, revisions, kis, factors, finished,
                   task, plans, got, stops>>

Post(d) ==
    /\ d \in 1 .. today \ posted
    /\ posted' = posted \cup {d}
    /\ UNCHANGED <<today, core, flow, delivered, revisions, kis, factors, finished,
                   task, plans, got, stops>>

Revise(a, d) ==
    /\ <<a, d>> \in Revised /\ d \in delivered /\ revisions < MaxRevisions
    /\ flow' = [flow EXCEPT ![a][d] = 1 - @]
    /\ revisions' = revisions + 1
    /\ UNCHANGED <<today, core, delivered, posted, kis, factors, finished,
                   task, plans, got, stops>>

\* register, promote and register_and_promote: all factors of the image in one
\* transaction, without the certification lock.
Promote ==
    /\ approved # Factor
    /\ approved' = Factor
    /\ UNCHANGED <<world, core, kis, gold, finished, task, plans, got, stops>>

-----------------------------------------------------------------------------
(***************************************************************************)
(* A task reaches its tail with certified prices up to its target.          *)
(***************************************************************************)
Start(d, from) ==
    /\ task.pc = "idle"
    /\ core' = d
    /\ task' = [Idle EXCEPT !.pc = "reference", !.day = d, !.from = from,
                            !.sessions = Sessions(d)]
    /\ UNCHANGED <<world, kis, factors, finished, plans, got, stops>>

\* The next day, or the last one again while its task has not succeeded.
Daily ==
    \/ core < today /\ Start(core + 1, core + 1)
    \/ finished[core] = Unfinished /\ Start(core, core)

\* gap_replay with --defer-followups: one collection and one range of factors
\* for all its days, from --gold-from on.
GapReplay == \E to \in core + 2 .. today, from \in Seed + 1 .. core + 1 : Start(to, from)

\* A task that stops or raises; the caches of the process go with it.
Leave ==
    /\ task' = Idle /\ plans' = {} /\ got' = <<>>

Stop ==
    /\ task.pc # "idle" /\ stops < MaxStops
    /\ stops' = stops + 1
    /\ Leave
    /\ UNCHANGED <<world, core, kis, factors, finished>>

-----------------------------------------------------------------------------
(***************************************************************************)
(* kis_provider_daily.daily: the reference of the window, captured once.    *)
(***************************************************************************)
Capture == {p \in pending : p.of = [sessions |-> task.sessions, ref |-> ref]}

\* refresh_listing: assets without an expected price, of which the provider
\* has to confirm the delisting on the first missing day.
Vanished == {a \in Asset : \E d \in Expected(ref, task.sessions, a) : ~Priced(a, d)}
Confirmed(a) == /\ Gone[a] \in posted
                /\ Gone[a] \in ref.through + 1 .. task.day
                /\ \A d \in Expected(ref, task.sessions, a) : ~Priced(a, d) => d >= Gone[a]

Preparable ==
    /\ ref.through <= task.day
    /\ task.day - ref.through <= MaxGap
    /\ ref.through + 1 .. task.day \subseteq posted
    /\ \A a \in Vanished : Confirmed(a)

PreparedToday == [through |-> today, closed |-> ref.closed \cup Vanished]
Prepared == [through |-> task.day, closed |-> ref.closed \cup Vanished]

\* run: the plans of the captured manifest without those it has a checkpoint for.
Remaining(r, m) ==
    {p \in AllPlans(r, task.sessions) : [manifest |-> m, plan |-> p] \notin checks}

Begin(r, m) ==
    /\ task' = [task EXCEPT !.pc = "flows", !.manifest = m, !.next = r]
    /\ plans' = Remaining(r, m) /\ got' = <<>>

Prepare ==
    /\ task.pc = "reference" /\ Capture = {} /\ Preparable
    /\ listings' = listings + 1
    /\ pending' = pending \cup {[of |-> [sessions |-> task.sessions, ref |-> ref],
                                 manifest |-> listings + 1, next |-> Prepared]}
    /\ Begin(Prepared, listings + 1)
    /\ UNCHANGED <<world, core, ref, checks, obs, factors, finished, stops>>

Refuse ==
    /\ task.pc = "reference" /\ Capture = {} /\ ~Preparable
    /\ Leave
    /\ UNCHANGED <<world, core, kis, factors, finished, stops>>

Resume ==
    /\ task.pc = "reference"
    /\ \E p \in Capture : Begin(p.next, p.manifest)
    /\ UNCHANGED <<world, core, kis, factors, finished, stops>>

-----------------------------------------------------------------------------
(***************************************************************************)
(* run: the pool reads ahead, the caller publishes in the order of the plan *)
(* and marks a partition once its rows are committed.                       *)
(***************************************************************************)
Ahead == {p \in plans : Cardinality({q \in plans : Place(q) < Place(p)}) < Workers} \ DOMAIN got
Failure == <<>>

\* What the provider answers; a day it has not delivered yet fails the partition.
Answer(p) == IF p.days \subseteq delivered THEN [d \in p.days |-> flow[p.asset][d]] ELSE Failure

Obtain(p, answer) ==
    got' = [q \in DOMAIN got \cup {p} |-> IF q = p THEN answer ELSE got[q]]

Read(p) ==
    /\ task.pc \in {"flows", "mark"}
    /\ Obtain(p, Answer(p))
    /\ UNCHANGED <<world, core, kis, factors, finished, task, plans, stops>>

\* A read that fails for good after its retries.
ReadFails(p) ==
    /\ task.pc \in {"flows", "mark"}
    /\ stops < MaxStops
    /\ stops' = stops + 1
    /\ Obtain(p, Failure)
    /\ UNCHANGED <<world, core, kis, factors, finished, task, plans>>

Head1 == CHOOSE p \in plans : \A q \in plans : Place(p) <= Place(q)
Drop == /\ plans' = plans \ {Head1}
        /\ got' = [p \in DOMAIN got \ {Head1} |-> got[p]]

MarkPartition == checks' = checks \cup {[manifest |-> task.manifest, plan |-> Head1]}

FailedMarked ==
    /\ task.pc = "flows" /\ plans # {} /\ Head1 \in DOMAIN got /\ got[Head1] = Failure
    /\ Drop /\ MarkPartition
    /\ task' = [task EXCEPT !.failed = TRUE]
    /\ UNCHANGED <<world, core, ref, pending, listings, obs, factors, finished, stops>>
Failed ==
    /\ task.pc = "flows" /\ plans # {} /\ Head1 \in DOMAIN got /\ got[Head1] = Failure
    /\ Drop
    /\ task' = [task EXCEPT !.failed = TRUE]
    /\ UNCHANGED <<world, core, kis, factors, finished, stops>>

\* silver.publish: one transaction per partition; a key whose latest version
\* is the same keeps its first observation.
StoreUnlessKnown(versions, v) == IF v \in ToSet(versions) THEN versions ELSE Append(versions, v)
Store(versions, v) ==
    IF versions # <<>> /\ Last(versions) = v THEN versions ELSE Append(versions, v)

PublishPartition ==
    obs' = [k \in Key |-> IF k \in Keys(Head1) THEN Store(obs[k], got[Head1][k[2]]) ELSE obs[k]]

Publish ==
    /\ task.pc = "flows" /\ plans # {} /\ Head1 \in DOMAIN got /\ got[Head1] # Failure
    /\ task' = [task EXCEPT !.pc = "mark"]
    /\ PublishPartition
    /\ UNCHANGED <<world, core, ref, pending, listings, checks, factors, finished, plans, got, stops>>

Mark ==
    /\ task.pc = "mark"
    /\ task' = [task EXCEPT !.pc = "flows"]
    /\ MarkPartition /\ Drop
    /\ UNCHANGED <<world, core, ref, pending, listings, obs, factors, finished, stops>>

\* verify_collection against the keys the captured manifest asks for; only
\* then does the checkpoint advance.
Covered == Stored(task.sessions) = KeysOf(task.next, task.sessions)

Certify ==
    /\ task.pc = "flows" /\ plans = {}
    /\ ~task.failed /\ Covered
    /\ ref' = task.next
    /\ task' = [task EXCEPT !.pc = "list"]
    /\ UNCHANGED <<world, core, pending, listings, checks, obs, factors, finished, plans, got, stops>>

Incomplete ==
    /\ task.pc = "flows" /\ plans = {}
    /\ task.failed \/ ~Covered
    /\ Leave
    /\ UNCHANGED <<world, core, kis, factors, finished, stops>>

-----------------------------------------------------------------------------
(***************************************************************************)
(* run_approved_range: the approved factors are listed, then each replaces  *)
(* its range in a transaction of its own.                                   *)
(***************************************************************************)
GoldDaysShort == task.from + 1 .. task.day
GoldDays == task.from .. task.day

ListFactors ==
    /\ task.pc = "list"
    /\ task' = [task EXCEPT !.pc = "gold", !.list = approved, !.todo = approved]
    /\ UNCHANGED <<world, core, kis, factors, finished, plans, got, stops>>

RunFactor(f) ==
    /\ task.pc = "gold" /\ f \in task.todo
    /\ gold' = [gold EXCEPT ![f] = @ \cup GoldDays]
    /\ task' = [task EXCEPT !.todo = @ \ {f}]
    /\ UNCHANGED <<world, core, kis, approved, finished, plans, got, stops>>

\* The rest of the tail: the FMP day (FmpIntake) and the freshness report.
Finish ==
    /\ task.pc = "gold" /\ task.todo = {}
    /\ finished' = [d \in Day |-> IF d \in task.from .. task.day THEN task.list ELSE finished[d]]
    /\ Leave
    /\ UNCHANGED <<world, core, kis, factors, stops>>

-----------------------------------------------------------------------------
TaskStep ==
    \/ Prepare \/ Refuse \/ Resume
    \/ \E p \in Ahead : Read(p)
    \/ Failed \/ Publish \/ Mark \/ Certify \/ Incomplete
    \/ ListFactors \/ (\E f \in Factor : RunFactor(f)) \/ Finish

Next ==
    \/ NextDay \/ (\E d \in Day : Deliver(d) \/ Post(d))
    \/ \E a \in Asset, d \in Day : Revise(a, d)
    \/ Promote
    \/ Daily \/ GapReplay \/ Stop
    \/ \E p \in Ahead : ReadFails(p)
    \/ TaskStep

Spec == Init /\ [][Next]_vars

\* The schedule starts a task every day, a failed last day is run again, and
\* the provider and the exchange answer in the end.
FairSpec ==
    /\ Spec
    /\ WF_vars(TaskStep) /\ WF_vars(Daily) /\ WF_vars(NextDay)
    /\ WF_vars(\E d \in Day : Deliver(d) \/ Post(d))

-----------------------------------------------------------------------------
(***************************************************************************)
(* Properties.                                                              *)
(***************************************************************************)
\* The reference checkpoint advances only over sessions that are complete:
\* up to it each key that the listings and the NXT pages ask for has a
\* certified observation and no other key has one, whatever failed, stopped
\* or was resumed on the way (kis_provider_daily.py:258).
ReferenceCovered ==
    Stored(Seed .. ref.through) =
        {k \in Key : /\ k[2] \in Seed .. ref.through /\ Listed(k[1], k[2])
                     /\ k[3] = "NX" => k[1] \in Nxt[k[2]]}

\* What a partition has read is what readers of kis_market_latest see once it
\* is published, also when the provider returns to a value that an earlier
\* task stored; and no version repeats the one before it, so an unchanged
\* value keeps its first observation (silver/kis_flows.py:93).
LatestAsFetched ==
    /\ task.pc = "mark" => \A k \in Key \cap Keys(Head1) : Last(obs[k]) = got[Head1][k[2]]
    /\ \A k \in Key : \A i \in 1 .. Len(obs[k]) - 1 : obs[k][i] # obs[k][i + 1]

\* A task that ended well left the KIS reference at its last day or later and
\* a partition of each factor it found approved on each of its days, whatever
\* was promoted meanwhile and whatever came after (daily_full.py:661).
FollowupsComplete ==
    \A d \in Seed + 1 .. NumDays : finished[d] # Unfinished =>
        /\ ref.through >= d
        /\ \A f \in finished[d] : d \in gold[f]

\* The flows catch up with the prices: after stops, failed reads, late
\* deliveries and gap replays the reference reaches the last session
\* (kis_provider_daily.py:273).
CaughtUp == <>[](ref.through = NumDays)
=============================================================================
