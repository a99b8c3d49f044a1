------------------------- MODULE CertificationEpoch -------------------------
(***************************************************************************)
(* The certification epoch of the daily pipeline: every way in which one   *)
(* ECS task moves KRX raw prices, DART action evidence and the derived     *)
(* total-return label from one certified state to the next.                *)
(*                                                                         *)
(*   pipeline/daily_full.py             the scheduled task                 *)
(*   pipeline/gap_replay.py             the bounded multi-day replay       *)
(*   pipeline/dart_silver_backfill_ecs.py   the epoch lock, the action     *)
(*                                      snapshot and the closing sequence  *)
(*   pipeline/bronze/corporate_actions.py   the asynchronous collector     *)
(*   pipeline/silver/return_contract.py, load.py, dart_extra_load.py,      *)
(*   total_return_rebuild.py            the PostgreSQL transactions        *)
(*                                                                         *)
(* S3 and PostgreSQL share no transaction: a task is a sequence of steps,  *)
(* each atomic in one store, and may stop between any two of them.         *)
(* Days are 0..LastDay; day 0 stands for the certified history, and the    *)
(* 14-day discovery window of the collector reaches back over all of them. *)
(***************************************************************************)
EXTENDS Integers, FiniteSets

CONSTANTS
    Task,       \* ECS task invocations
    NoTask,     \* owner of a free epoch lock
    LastDay,    \* the last calendar day of the model
    Session,    \* the days on which the KRX trades
    Action,     \* DART disclosures of return-relevant corporate actions
    Filed,      \* Filed[a]: the receipt date of disclosure a
    Documented, \* disclosures whose evidence is a document body (ZIP), the
                \* others are rows of a structured API
    Kinds,      \* the entry points in use
    MaxFaults,  \* bound: how many times a task stops or loses its session
    FaultDay,   \* bound: the last day on which a task stops
    SessionLoss \* whether PostgreSQL sessions may die under a live process

Day  == 0..LastDay
Null == -1

ASSUME EpochConstants ==
    /\ LastDay \in Nat
    /\ MaxFaults \in Nat
    /\ FaultDay \in Nat
    /\ Session \subseteq 1..LastDay
    /\ Filed \in [Action -> 1..LastDay]
    /\ Documented \subseteq Action
    /\ Kinds \subseteq {"daily", "gap", "extras"}
    /\ NoTask \notin Task
    /\ SessionLoss \in BOOLEAN
    /\ {"listing", "marker"} \cap Action = {}

VARIABLES
    today,      \* the last completed calendar day
    epochLock,  \* owner of DAILY_CERTIFICATION_LOCK_KEY
    bronze,     \* action bodies durable in S3
    listed,     \* days whose discovery manifest is durable in S3
    collected,  \* days whose collection has durable completion markers
    lastPrice,  \* the last trade date with CERTIFIED raw prices
    priced,     \* all of those trade dates
    daily,      \* target days with a CERTIFIED dq_run of mode daily
    snapshots,  \* snapshots[e]: evidence of the newest certified action
                \* snapshot run that reaches day e, or NoSnapshot
    pointer,    \* the published snapshot pointer
    contract,   \* the price_return_contract row
    task,       \* the program of every task
    inflight,   \* S3 PUTs a task has scheduled and not completed
    faults      \* stops and lost sessions so far

objects == <<bronze, listed, collected>>
silver  == <<lastPrice, priced, daily>>
vars == <<today, epochLock, objects, silver, snapshots, pointer, contract,
          task, inflight, faults>>

NoSnapshot == {"none"}
Object     == Action \cup {"listing", "marker"}

(* Receipts accepted by the end of day d.                                  *)
FiledBy(S, d) == {a \in S : Filed[a] <= d}

(* `known` is the S3 key index of the task's writer, `acts` and `end` the  *)
(* evidence manifest on its local disk, `fresh` a gap replay that started  *)
(* from a certified contract.                                              *)
Idle == [pc |-> "idle", kind |-> "none", day |-> 0, last |-> 0,
         fresh |-> FALSE, ready |-> TRUE, changed |-> FALSE,
         refiled |-> FALSE, known |-> {}, stage |-> "none",
         end |-> Null, acts |-> {}]

Pc == {"idle", "guard", "collect", "plan", "build", "publish", "load",
       "restore", "apply", "mark", "certify", "next"}

Program ==
    [pc : Pc, kind : {"none", "daily", "gap", "extras"}, day : Day, last : Day,
     fresh : BOOLEAN, ready : BOOLEAN, changed : BOOLEAN, refiled : BOOLEAN,
     known : SUBSET Object, stage : {"none", "inherited", "current"},
     end : Day \cup {Null}, acts : SUBSET Action]

(* The run a contract row names: a certified rebuild, an unfinished one,   *)
(* a certified daily or action run, or NULL.                               *)
Run == {"rebuild", "unfinished", "daily", "actions", "null"}

Contract ==
    [status : {"CERTIFIED", "BUILDING"}, end : Day \cup {Null},
     acts : SUBSET Action, run : Run,
     seen : Day \cup {Null},   \* day of a retained observed-action reason
     by : Day \cup {Null}]     \* target of a retained invalidating daily run

TypeOK ==
    /\ today \in Day
    /\ epochLock \in Task \cup {NoTask}
    /\ bronze \subseteq Action
    /\ listed \subseteq Day
    /\ collected \subseteq Day
    /\ lastPrice \in Day
    /\ priced \subseteq Day
    /\ daily \subseteq Day
    /\ snapshots \in [Day -> (SUBSET Action) \cup {NoSnapshot}]
    /\ pointer \in [end : Day, acts : SUBSET Action]
    /\ contract \in Contract
    /\ task \in [Task -> Program]
    /\ inflight \in [Task -> SUBSET Object]
    /\ faults \in 0..MaxFaults

Init ==
    /\ today = 0
    /\ epochLock = NoTask
    /\ bronze = {}
    /\ listed = {0}
    /\ collected = {0}
    /\ lastPrice = 0
    /\ priced = {0}
    /\ daily = {0}
    /\ snapshots = [d \in Day |-> IF d = 0 THEN {} ELSE NoSnapshot]
    /\ pointer = [end |-> 0, acts |-> {}]
    /\ contract = [status |-> "CERTIFIED", end |-> 0, acts |-> {},
                   run |-> "rebuild", seen |-> Null, by |-> Null]
    /\ task = [t \in Task |-> Idle]
    /\ inflight = [t \in Task |-> {}]
    /\ faults = 0

-----------------------------------------------------------------------------
(* Readers of the stored state.                                            *)

(* total_return_contract_report: the label is usable by research.          *)
Ready ==
    /\ contract.status = "CERTIFIED"
    /\ contract.run = "rebuild"
    /\ contract.end = lastPrice

(* _pending_krx_sessions.  PendingBefore is a seeded fault: the target day  *)
(* itself is left out of the range.                                        *)
PendingBefore(d) == {s \in Session : lastPrice < s /\ s < d}

Pending(d) == {s \in Session : lastPrice < s /\ s <= d}

AtMostOne(S) == \A x, y \in S : x = y

(* _observed_action_resume_proof *)
ObservedActionProof(first) ==
    /\ contract.run = "null"
    /\ contract.seen = first
    /\ contract.by = lastPrice

(* _validate_building_resume *)
BuildingResume(first) ==
    /\ contract.status = "BUILDING"
    /\ contract.end # Null
    /\ contract.end <= lastPrice
    /\ lastPrice < first
    /\ contract.run \in {"daily", "rebuild"} \/ ObservedActionProof(first)
    /\ AtMostOne(Pending(first))

(* build_snapshot_manifest: a complete native interval reaches the         *)
(* requested day, and every document a complete interval promises exists.  *)
Complete == listed \cap collected

Buildable(end) ==
    /\ \E d \in Complete : end <= d
    /\ \A d \in Complete : FiledBy(FiledBy(Documented, d), end) \subseteq bronze

(* _evidence_paths: what a snapshot through day `end` takes from Bronze.   *)
(* Seeded fault: the last day is lost to a half-open interval.             *)
EvidenceBefore(end) == FiledBy(bronze, end - 1)

Evidence(end) == FiledBy(bronze, end)

-----------------------------------------------------------------------------
(* Pieces of the steps.  Each step that is not local to the process uses   *)
(* the session that owns the epoch: assert_daily_certification_lock, or a   *)
(* transaction on that very connection.                                    *)

(* Seeded fault: the step does not prove that it still owns the epoch.     *)
AtUnfenced(t, pc) == task[t].pc = pc

At(t, pc) == epochLock = t /\ task[t].pc = pc

Go(t, pc) == task' = [task EXCEPT ![t].pc = pc]

(* release_daily_certification_lock, then the process exits.               *)
Exit(t) ==
    /\ epochLock' = NoTask
    /\ task' = [task EXCEPT ![t] = Idle]

(* invalidate_krx_total_return: coverage and old metadata are retained.    *)
(* Seeded fault: the run is replaced and the status is forgotten.          *)
DemotedRunOnly(run) == [contract EXCEPT !.run = run]

Demoted(run) == [contract EXCEPT !.status = "BUILDING", !.run = run]

(* The target day is the last one of its invocation.                       *)
(* Seeded fault: an off-by-one that runs one day too many.                 *)
FinalTooLate(t) == task[t].day > task[t].last

Final(t) == task[t].day = task[t].last
-----------------------------------------------------------------------------
(* The calendar and the launches.  A launch fails fast when another task   *)
(* owns the epoch, so only its success is a step.                          *)

Tick ==
    /\ today < LastDay
    /\ today' = today + 1
    /\ UNCHANGED <<epochLock, objects, silver, snapshots, pointer, contract,
                   task, inflight, faults>>

Launch(t, program) ==
    /\ epochLock = NoTask
    /\ task[t].pc = "idle"
    /\ inflight[t] = {}
    /\ epochLock' = t
    /\ task' = [task EXCEPT ![t] = program]
    /\ UNCHANGED <<today, objects, silver, snapshots, pointer, contract,
                   inflight, faults>>

(* The scheduled task targets the previous calendar day.                   *)
LaunchDaily(t) ==
    /\ "daily" \in Kinds
    /\ today > 0
    /\ Launch(t, [Idle EXCEPT !.pc = "guard", !.kind = "daily",
                              !.day = today, !.last = today])

(* gap_replay.run replays completed days only.  Seeded fault: an off-by-one *)
(* that takes the last completed day for an open one.                      *)
CompletedBefore(day) == day < today

Completed(day) == day <= today

(* gap_replay.run: entry requires a certified contract, or --resume-building *)
(* and a BUILDING contract that continues from the first replayed day.       *)
LaunchGap(t, from, to) ==
    /\ "gap" \in Kinds
    /\ 0 < from /\ from <= to /\ Completed(to)
    /\ Ready \/ BuildingResume(from)
    /\ Launch(t, [Idle EXCEPT !.pc = "guard", !.kind = "gap", !.day = from,
                              !.last = to, !.fresh = Ready])

(* _run_dart_extras_locked with DART_SNAPSHOT_EXPECTED_END = end.          *)
LaunchExtras(t, end) ==
    /\ "extras" \in Kinds
    /\ end <= today
    /\ Launch(t, [Idle EXCEPT !.pc = "build", !.kind = "extras", !.day = end,
                              !.last = end, !.stage = "current", !.end = end])

-----------------------------------------------------------------------------
(* _main_locked, one target day.                                           *)

(* A certified day with a usable label is skipped, one with an unfinished  *)
(* label takes the retry-only repair, any other day starts its collection  *)
(* with the key index of a new writer.                                     *)
Guard(t) ==
    LET day == task[t].day IN
    /\ At(t, "guard")
    /\ task[t].kind = "daily" => AtMostOne(Pending(day))
    /\ task' = [task EXCEPT
         ![t].ready = Ready,
         ![t].changed = FALSE,
         ![t].known = bronze \cup {"listing" : d \in listed \cap {day}}
                             \cup {"marker" : d \in collected \cap {day}},
         ![t].stage = "none",
         ![t].pc = IF day \notin daily THEN "collect"
                   ELSE IF Ready THEN "next" ELSE "restore"]
    /\ UNCHANGED <<today, epochLock, objects, silver, snapshots, pointer,
                   contract, inflight, faults>>

(* The order of the collector: discovery manifest, bodies, markers.  A day *)
(* that has its markers already skips the bodies.                          *)
Wanted(t) ==
    LET known == task[t].known
        todo  == FiledBy(Action, task[t].day)
    IN  CASE "listing" \notin known -> {"listing"}
          [] "listing" \in known /\ "marker" \notin known
               -> IF todo \subseteq known THEN {"marker"} ELSE todo \ known
          [] OTHER -> {}

(* _BronzeWriter._submit: before_change proves the epoch and, before the   *)
(* first new object of this task, demotes the label; only then is the      *)
(* asynchronous PUT scheduled.                                             *)
Put(t, o) ==
    /\ At(t, "collect")
    /\ o \in Wanted(t)
    /\ contract' = IF task[t].changed THEN contract
                   ELSE [Demoted("null") EXCEPT !.seen = task[t].day]
    /\ inflight' = [inflight EXCEPT ![t] = @ \cup {o}]
    /\ task' = [task EXCEPT ![t].changed = TRUE, ![t].known = @ \cup {o}]
    /\ UNCHANGED <<today, epochLock, objects, silver, snapshots, pointer,
                   faults>>

(* _put_s3 on a worker thread: it holds no lock, and a task that has lost  *)
(* its session still completes it.                                         *)
Land(t, o) ==
    /\ o \in inflight[t]
    /\ inflight' = [inflight EXCEPT ![t] = @ \ {o}]
    /\ listed' = listed \cup {task[t].day : x \in {"listing"} \cap {o}}
    /\ collected' = collected \cup {task[t].day : x \in {"marker"} \cap {o}}
    /\ bronze' = bronze \cup (Action \cap {o})
    /\ UNCHANGED <<today, epochLock, silver, snapshots, pointer, contract,
                   task, faults>>

(* _BronzeWriter.close: the collector returns when every PUT has completed. *)
CloseWriter(t) ==
    /\ At(t, "collect")
    /\ Wanted(t) = {}
    /\ inflight[t] = {}
    /\ Go(t, "plan")
    /\ UNCHANGED <<today, epochLock, objects, silver, snapshots, pointer,
                   contract, inflight, faults>>

(* Whether the day needs a closing sequence, and which evidence comes      *)
(* first.  A daily task that inherited an unusable label repairs the raw   *)
(* horizon already published before its own day; an intermediate gap day   *)
(* works on the bounded local evidence and defers.                         *)
Plan(t, refiled) ==
    LET p == task[t]
        closure == \/ p.day \in Session \/ p.changed
                   \/ refiled \/ ~p.ready
        prepared == p.kind = "daily" \/ Final(t)
        inherited == ~p.ready /\ p.kind = "daily"
    IN
    /\ At(t, "plan")
    /\ closure /\ inherited => lastPrice <= p.day
    /\ task' = [task EXCEPT ![t] =
         IF closure /\ prepared
         THEN [p EXCEPT !.refiled = refiled, !.pc = "build",
                 !.stage = IF inherited THEN "inherited" ELSE "current",
                 !.end = IF inherited THEN lastPrice ELSE p.day]
         ELSE [p EXCEPT !.refiled = refiled, !.pc = "load",
                 !.end = p.day, !.acts = Evidence(p.day)]]
    /\ UNCHANGED <<today, epochLock, objects, silver, snapshots, pointer,
                   contract, inflight, faults>>

(* build_snapshot_manifest on the synchronised Bronze objects.  The        *)
(* inherited snapshot is prepared with publish=False.                      *)
Build(t) ==
    LET p == task[t] IN
    /\ At(t, "build")
    /\ Buildable(p.end)
    /\ task' = [task EXCEPT
         ![t].acts = Evidence(p.end),
         ![t].pc = IF p.stage = "inherited" THEN "apply" ELSE "publish"]
    /\ UNCHANGED <<today, epochLock, objects, silver, snapshots, pointer,
                   contract, inflight, faults>>

(* _publish_generated_snapshot, then the preview: prices must not be ahead. *)
Publish(t) ==
    LET p == task[t] IN
    /\ At(t, "publish")
    /\ pointer.end <= p.end
    /\ pointer' = [end |-> p.end, acts |-> p.acts]
    /\ \/ /\ lastPrice <= p.end
          /\ Go(t, IF p.kind = "extras" THEN "apply" ELSE "load")
          /\ UNCHANGED epochLock
       \/ lastPrice > p.end /\ Exit(t)
    /\ UNCHANGED <<today, objects, silver, snapshots, contract, inflight,
                   faults>>

(* restore_published_total_return_snapshot: exactly the retried day.       *)
Restorable(day) == pointer.end = day

Restore(t) ==
    LET p == task[t] IN
    /\ At(t, "restore")
    /\ Restorable(p.day)
    /\ task' = [task EXCEPT ![t].end = pointer.end, ![t].acts = pointer.acts,
                            ![t].pc = "apply"]
    /\ UNCHANGED <<today, epochLock, objects, silver, snapshots, pointer,
                   contract, inflight, faults>>

(* After the commit the label is read again: an unusable one is closed now *)
(* or, on an intermediate gap day, later.                                  *)
AfterLoad(t, ready) ==
    Go(t, IF ~ready /\ (task[t].kind = "daily" \/ Final(t))
          THEN "apply" ELSE "next")

(* load.incremental without any input: the run ends SKIPPED.               *)
Quiet(t) ==
    /\ task[t].day \notin Session
    /\ ~task[t].refiled
    /\ ~task[t].changed

SkipDay(t) ==
    /\ At(t, "load")
    /\ Quiet(t)
    /\ AfterLoad(t, Ready)
    /\ UNCHANGED <<today, epochLock, objects, silver, snapshots, pointer,
                   contract, inflight, faults>>

(* load.incremental, one transaction: the price publisher demotes the      *)
(* label, the action publisher does so when its frame holds an issuer      *)
(* event (`touched`).                                                      *)
LoadDay(t, touched) ==
    LET day == task[t].day IN
    /\ At(t, "load")
    /\ ~Quiet(t)
    /\ daily' = daily \cup {day}
    /\ priced' = priced \cup ({day} \cap Session)
    /\ lastPrice' = IF day \in Session /\ day > lastPrice
                    THEN day ELSE lastPrice
    /\ contract' = IF day \in Session \/ touched
                   THEN [Demoted("daily") EXCEPT !.by = day, !.seen = Null]
                   ELSE contract
    /\ AfterLoad(t, Ready /\ contract' = contract)
    /\ UNCHANGED <<today, epochLock, objects, snapshots, pointer, inflight,
                   faults>>

-----------------------------------------------------------------------------
(* close_total_return_contract: three PostgreSQL transactions.             *)

(* dart_extra_load.run *)
Apply(t) ==
    LET p == task[t] IN
    /\ At(t, "apply")
    /\ snapshots' = [e \in Day |-> IF e <= p.end THEN p.acts ELSE snapshots[e]]
    /\ contract' = [Demoted("actions") EXCEPT !.by = Null, !.seen = Null]
    /\ Go(t, "mark")
    /\ UNCHANGED <<today, epochLock, objects, silver, pointer, inflight,
                   faults>>

(* _mark_contract_building: coverage and metadata are replaced.            *)
Mark(t) ==
    /\ At(t, "mark")
    /\ contract' = [contract EXCEPT !.status = "BUILDING", !.end = Null,
                       !.run = "unfinished", !.seen = Null, !.by = Null]
    /\ Go(t, "certify")
    /\ UNCHANGED <<today, epochLock, objects, silver, snapshots, pointer,
                   inflight, faults>>

(* _certify_contract: the label covers the certified prices.  Seeded       *)
(* fault: it covers the target day of the closure.                         *)
RebuiltThroughTarget(p) ==
    [status |-> "CERTIFIED", end |-> p.end, acts |-> snapshots[lastPrice],
     run |-> "rebuild", seen |-> Null, by |-> Null]

Rebuilt(p) ==
    [status |-> "CERTIFIED", end |-> lastPrice, acts |-> snapshots[lastPrice],
     run |-> "rebuild", seen |-> Null, by |-> Null]

(* The rebuild transaction.  After an inherited closure the task turns to  *)
(* its own day, unless the snapshot it holds reaches that day already.     *)
Certify(t) ==
    LET p == task[t] IN
    /\ At(t, "certify")
    /\ snapshots[lastPrice] # NoSnapshot
    /\ contract' = Rebuilt(p)
    /\ task' = [task EXCEPT ![t] =
         IF p.stage # "inherited" THEN [p EXCEPT !.pc = "next"]
         ELSE IF p.end = p.day THEN [p EXCEPT !.pc = "load", !.stage = "none"]
         ELSE [p EXCEPT !.pc = "build", !.stage = "current", !.end = p.day]]
    /\ UNCHANGED <<today, epochLock, objects, silver, snapshots, pointer,
                   inflight, faults>>

(* The next day of a gap replay, or the end of the task.                   *)
NextDay(t) ==
    /\ At(t, "next")
    /\ IF Final(t) THEN Exit(t)
       ELSE /\ task' = [task EXCEPT ![t].day = @ + 1, ![t].pc = "guard"]
            /\ UNCHANGED epochLock
    /\ UNCHANGED <<today, objects, silver, snapshots, pointer, contract,
                   inflight, faults>>

-----------------------------------------------------------------------------
(* Failures.                                                               *)

(* The checks that raise.                                                  *)
Refused(t) ==
    LET p == task[t] IN
    \/ /\ At(t, "guard")
       /\ p.kind = "daily"
       /\ ~AtMostOne(Pending(p.day))
    \/ At(t, "plan") /\ ~p.ready /\ p.kind = "daily" /\ lastPrice > p.day
    \/ At(t, "build") /\ ~Buildable(p.end)
    \/ At(t, "publish") /\ pointer.end > p.end
    \/ At(t, "restore") /\ ~Restorable(p.day)
    \/ At(t, "certify") /\ snapshots[lastPrice] = NoSnapshot

Raise(t) ==
    /\ Refused(t)
    /\ Exit(t)
    /\ UNCHANGED <<today, objects, silver, snapshots, pointer, contract,
                   inflight, faults>>

(* A crash, or a failed call: whatever was scheduled and has not landed is *)
(* lost, the database rolls back the open transaction.                     *)
Stop(t) ==
    /\ epochLock = t
    /\ faults < MaxFaults
    /\ today <= FaultDay
    /\ faults' = faults + 1
    /\ inflight' = [inflight EXCEPT ![t] = {}]
    /\ Exit(t)
    /\ UNCHANGED <<today, objects, silver, snapshots, pointer, contract>>

(* The PostgreSQL session dies and frees its advisory lock.  The process   *)
(* lives on until its next use of the session; its worker threads complete *)
(* the PUTs they were given even after that.                               *)
LoseSession(t) ==
    /\ SessionLoss
    /\ epochLock = t
    /\ faults < MaxFaults
    /\ today <= FaultDay
    /\ faults' = faults + 1
    /\ epochLock' = NoTask
    /\ UNCHANGED <<today, objects, silver, snapshots, pointer, contract,
                   task, inflight>>

FailOnLostSession(t) ==
    /\ task[t].pc # "idle"
    /\ epochLock # t
    /\ task' = [task EXCEPT ![t] =
         [Idle EXCEPT !.day = IF inflight[t] = {} THEN 0 ELSE task[t].day]]
    /\ UNCHANGED <<today, epochLock, objects, silver, snapshots, pointer,
                   contract, inflight, faults>>

-----------------------------------------------------------------------------
Step(t) ==
    \/ Guard(t)
    \/ \E o \in Object : Put(t, o)
    \/ CloseWriter(t)
    \/ \E refiled \in BOOLEAN : Plan(t, refiled)
    \/ Build(t)
    \/ Publish(t)
    \/ Restore(t)
    \/ SkipDay(t)
    \/ \E touched \in BOOLEAN : LoadDay(t, touched)
    \/ Apply(t)
    \/ Mark(t)
    \/ Certify(t)
    \/ NextDay(t)
    \/ Raise(t)
    \/ FailOnLostSession(t)

Launches(t) ==
    \/ LaunchDaily(t)
    \/ \E from, to \in Day : LaunchGap(t, from, to)
    \/ \E end \in Day : LaunchExtras(t, end)

Next ==
    \/ Tick
    \/ \E t \in Task :
        \/ Launches(t)
        \/ Step(t)
        \/ \E o \in Object : Land(t, o)
        \/ Stop(t)
        \/ LoseSession(t)

Spec == Init /\ [][Next]_vars

(* A process that does not fail runs on, EventBridge starts the daily task *)
(* again and again, and the operator runs the two repairs the README names *)
(* while they are needed: a replay from the oldest missed session, and     *)
(* dart-extras up to the day the prices or the snapshot have reached.  A   *)
(* launch meets a free epoch only between two tasks: strong fairness.      *)
ReplayOldest(t) ==
    \E from \in Pending(today) :
        /\ \A s \in Pending(today) : from <= s
        /\ LaunchGap(t, from, today)

RepairLabel(t) ==
    /\ ~Ready
    /\ \E end \in {lastPrice, pointer.end} :
        /\ lastPrice <= end /\ pointer.end <= end
        /\ LaunchExtras(t, end)

Fairness ==
    /\ WF_vars(Tick)
    /\ \A t \in Task :
        /\ WF_vars(Step(t))
        /\ WF_vars(\E o \in Object : Land(t, o))
        /\ SF_vars(LaunchDaily(t))
        /\ SF_vars(ReplayOldest(t))
        /\ SF_vars(RepairLabel(t))

FairSpec == Spec /\ Fairness

-----------------------------------------------------------------------------
(* Properties.                                                             *)

(* A CERTIFIED label always covers exactly the certified raw prices: no    *)
(* price publication and no interrupted closure of daily_full or           *)
(* gap_replay leaves a label that claims more or less than the prices.     *)
CertifiedCoversPrices ==
    contract.status = "CERTIFIED" =>
        contract.run = "rebuild" /\ contract.end = lastPrice

(* A CERTIFIED label was computed from every durable disclosure received   *)
(* by the end of its coverage, whichever task collected it and whichever   *)
(* snapshot, built or restored, close_total_return_contract applied.       *)
PointInTimeComplete ==
    contract.status = "CERTIFIED" =>
        FiledBy(bronze, contract.end) \subseteq contract.acts

(* The certified prices have no hole: the guard of the daily task and its  *)
(* inherited closure never let it step over a trading session.             *)
NoSkippedSession == {s \in Session : s <= lastPrice} \subseteq priced

Skips == \E s \in Session : lastPrice < s /\ s < lastPrice'

(* With gap replays around, only such a replay steps over a session.       *)
DailyNeverSkips ==
    [][lastPrice' > lastPrice /\ Skips =>
         \E t \in Task : epochLock = t /\ task[t].kind = "gap"]_vars

(* test_building_resume_rejects_reprocessing_or_skipping_raw_sessions:     *)
(* a replay that resumes a BUILDING contract steps over no raw session.    *)
ResumeNeverSkips ==
    [][lastPrice' > lastPrice /\ Skips =>
         \E t \in Task : epochLock = t /\ task[t].fresh]_vars

(* The collector makes action evidence visible only under a BUILDING label. *)
DemoteBeforeVisible ==
    [][bronze' # bronze => contract.status = "BUILDING"]_vars

(* README.md: a failed task that has observed new actions leaves the label *)
(* BUILDING, so a label that is CERTIFIED between two tasks has seen every *)
(* durable action.                                                         *)
FailureLeavesBuilding ==
    epochLock = NoTask /\ contract.status = "CERTIFIED" =>
        bronze \subseteq contract.acts

(* README.md: completion markers let an interrupted collection resume      *)
(* without repeating a finished phase, so a marker that outlives its task  *)
(* proves the bodies of its interval.                                      *)
MarkersProveBodies ==
    epochLock = NoTask =>
        \A d \in Complete : FiledBy(Action, d) \subseteq bronze

(* A completed phase proved its bodies, but one of its documents was lost.  *)
DocumentLost == \E d \in Complete : ~(FiledBy(Documented, d) \subseteq bronze)

(* Once the faults are over, the tasks recover the label, whatever state   *)
(* they left behind, and bring it to the last session; a lost document is  *)
(* only collected again by a later window.                                 *)
Repaired == []<>(DocumentLost \/ (Ready /\ Pending(today) = {}))

=============================================================================
