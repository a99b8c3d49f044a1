---------------------------- MODULE FilingIntake ----------------------------
(***************************************************************************)
(* What a periodic report, an ownership disclosure or a licensed KRX file   *)
(* goes through on its way from the provider into Silver: the lists of the  *)
(* day, the statements and dividends of the daily core                      *)
(* (bronze/financials.py, bronze/dividends.py, silver/load.py), and the     *)
(* alternative increment behind it (alternative_data_incremental.py,        *)
(* bronze/dart_full_statements.py, dart_ownership.py,                       *)
(* dart_company_profiles.py, silver/alternative_data.py).                   *)
(*                                                                         *)
(* An input is a scope (company and report, ownership snapshot or profile)  *)
(* in some version; content is the version number.  Bronze and the database *)
(* survive a task, its lists of changed inputs do not.  The total-return    *)
(* contract, whose part of the task is CertificationEpoch, is left out.     *)
(***************************************************************************)
EXTENDS Integers, FiniteSets

CONSTANTS
    NumDays,    \* target days
    Corps,      \* companies that file
    Listed,     \* companies in the stored corpCode.xml, never downloaded again
    Schedules,  \* possible filings: functions from days to sets of scopes
    KrxFiles,   \* licensed KRX sources an operator may deposit
    Slots,      \* number of shards the company profiles are spread over
    BatchSize,  \* scopes in one batch of the bootstrap
    None,       \* an object that is not stored
    MaxStops    \* stops, quota errors and refused gates in one behaviour

Days == 1 .. NumDays
Reports == {"annual", "first", "third"}
Codes == Reports \cup {"ownership", "profile"}
Scope == Corps \X Codes
Versions == 0 .. NumDays
Stored == Scope \X Versions

ASSUME IntakeAssumption ==
    /\ NumDays \in Nat \ {0}
    /\ MaxStops \in Nat
    /\ Slots \in Nat \ {0}
    /\ BatchSize \in Nat \ {0}
    /\ Listed \subseteq Corps
    /\ IsFiniteSet(Corps)
    /\ Schedules \subseteq [Days -> SUBSET Scope]
    /\ \A stored \in SUBSET Stored : stored # None

\* The collectors of the alternative increment, in the order they run.
Collectors == <<"full-statements", "ownership", "industry">>
Turns == 1 .. 3

VARIABLES
    filed,      \* what is filed on each day
    today,      \* the calendar: the days before it can be targets
    exposed,    \* the version the provider returns for a scope, 0: none yet
    lists,      \* stored disclosure lists, by target day
    deferred,   \* stored requirements that the provider did not answer yet
    major,      \* stored statement of a scope
    resp, mani, \* stored dividend responses and their manifests
    pointer,    \* latest.json of a full statement, ownership or profile scope
    pending,    \* pending-<collector>.json of a day
    done,       \* days with complete.json of the alternative increment
    krx,        \* deposited KRX sources
    krxKnown,   \* KRX sources the incremental state counts as published
    cache,      \* the bootstrap's stored list of scopes
    batch,      \* the bootstrap's stored batch
    silver,     \* statements, dividends and alternative inputs of CERTIFIED runs
    certified,  \* targets with a CERTIFIED daily run
    task,       \* the daily task and what it holds in memory
    boot,       \* the bootstrap task and what it holds in memory
    stops,      \* stops so far
    lost        \* history: inputs a stopped task had stored and not handed on

env == <<filed, today, exposed, krx>>
core == <<lists, deferred, major, resp, mani>>
alt == <<pointer, pending, done, krxKnown>>
bootstrap == <<cache, batch, boot>>
faults == <<stops, lost>>
vars == <<env, core, alt, bootstrap, silver, certified, task, faults>>

\* A requirement is a company and the report codes any of which satisfies it.
Requirement == Corps \X {{"annual"}, {"first", "third"}}

Silver == [statements : SUBSET Stored, dividends : SUBSET Stored, lines : SUBSET Stored,
           krx : SUBSET KrxFiles]

Task == [pc : {"idle", "lists", "fetch", "dividends", "manifest", "load", "select", "collect",
               "publish", "mark", "complete"},
         day : Days \cup {0}, todo : SUBSET Scope, reqs : SUBSET Requirement,
         met : SUBSET Scope, changed : SUBSET Scope, pairs : SUBSET Stored, got : SUBSET Stored,
         turn : 1 .. 4, files : SUBSET Stored, krx : SUBSET KrxFiles]

Idle == [pc |-> "idle", day |-> 0, todo |-> {}, reqs |-> {}, met |-> {}, changed |-> {},
         pairs |-> {}, got |-> {}, turn |-> 1, files |-> {}, krx |-> {}]

Boot == [pc : {"idle", "collect", "publish", "mark"}, todo : SUBSET Scope, files : SUBSET Stored]
BootIdle == [pc |-> "idle", todo |-> {}, files |-> {}]

Batch == [status : {"NONE", "COLLECTING", "COLLECTED", "CERTIFIED"}, scopes : SUBSET Scope]

TypeOK ==
    /\ filed \in Schedules
    /\ today \in 1 .. NumDays + 1
    /\ exposed \in [Scope -> Versions]
    /\ lists \in [Days -> (SUBSET Scope) \cup {None}]
    /\ deferred \subseteq Requirement
    /\ major \in [Scope -> Versions]
    /\ resp \subseteq Stored /\ mani \subseteq Stored
    /\ pointer \in [Scope -> Versions \cup {-1}]
    /\ pending \in [Days -> [Turns -> (SUBSET Stored) \cup {None}]]
    /\ done \subseteq Days /\ certified \subseteq Days
    /\ krx \subseteq KrxFiles /\ krxKnown \subseteq KrxFiles
    /\ cache \in (SUBSET Scope) \cup {None}
    /\ batch \in Batch
    /\ silver \in Silver
    /\ task \in Task /\ boot \in Boot
    /\ stops \in 0 .. MaxStops
    /\ lost \subseteq Stored

-----------------------------------------------------------------------------
(***************************************************************************)
(* What the collectors derive from lists, titles and stored objects.        *)
(***************************************************************************)
\* The title of a quarterly report does not say which quarter it is: both
\* quarter codes are queried.
ReportScopes(code) == IF code = "annual" THEN {"annual"} ELSE {"first", "third"}

\* Requirements of the listed companies on a list.
Required(list) ==
    {<<s[1], ReportScopes(s[2])>> : s \in {t \in list : t[1] \in Listed /\ t[2] \in Reports}}

ScopesOf(requirements) == UNION {{r[1]} \X r[2] : r \in requirements}

\* Requirements with no answered code.
Missing(requirements, answered) ==
    {r \in requirements : ({r[1]} \X r[2]) \cap answered = {}}

\* Shard of the company profiles that a target probes: one more every weekday.
Shard(d) == (d - 1) % Slots
Position == CHOOSE f \in [Listed -> 0 .. Cardinality(Listed) - 1] :
                \A c, e \in Listed : c # e => f[c] # f[e]

\* Scopes that a collector of the alternative increment asks for on day d.
AltScopes(collector, d) ==
    IF collector = "full-statements"
    THEN {s \in ScopesOf(Required(lists[d])) : major[s] > 0}
    ELSE IF collector = "ownership"
    THEN {s \in filed[d] : s[1] \in Listed /\ s[2] = "ownership"}
    ELSE {c \in Listed : Position[c] % Slots = Shard(d)} \X {"profile"}

\* Mutant of Answers: the provider's next filing is taken for an answer.
AnswersEarly(s) == 0 .. exposed[s] + 1

\* What the endpoint of a scope answers.  The statement endpoints may lag
\* behind the one that is asked first, and no data is an answer.
Answers(s) == IF s[2] \in Reports THEN 0 .. exposed[s] ELSE {exposed[s]}

\* Filings of a scope that have been made so far.
Editions(s) == Cardinality({d \in Days : d <= today /\ s \in filed[d]})

Init ==
    /\ filed \in Schedules
    /\ today = 1
    /\ exposed = [s \in Scope |-> 0]
    /\ lists = [d \in Days |-> None]
    /\ deferred = {} /\ resp = {} /\ mani = {}
    /\ major = [s \in Scope |-> 0]
    /\ pointer = [s \in Scope |-> -1]
    /\ pending = [d \in Days |-> [n \in Turns |-> None]]
    /\ done = {} /\ certified = {} /\ krx = {} /\ krxKnown = {}
    /\ cache = None /\ batch = [status |-> "NONE", scopes |-> {}]
    /\ silver = [statements |-> {}, dividends |-> {}, lines |-> {}, krx |-> {}]
    /\ task = Idle /\ boot = BootIdle
    /\ stops = 0 /\ lost = {}

-----------------------------------------------------------------------------
(***************************************************************************)
(* The provider and the operator.                                           *)
(***************************************************************************)
NextDay ==
    /\ today <= NumDays
    /\ today' = today + 1
    /\ UNCHANGED <<filed, exposed, krx, core, alt, bootstrap, silver, certified, task, faults>>

\* The API returns a filing some time after it was made.
Expose(s) ==
    /\ exposed[s] < Editions(s)
    /\ exposed' = [exposed EXCEPT ![s] = @ + 1]
    /\ UNCHANGED <<filed, today, krx, core, alt, bootstrap, silver, certified, task, faults>>

Deposit(f) ==
    /\ f \notin krx
    /\ krx' = krx \cup {f}
    /\ UNCHANGED <<filed, today, exposed, core, alt, bootstrap, silver, certified, task, faults>>

-----------------------------------------------------------------------------
(***************************************************************************)
(* The daily core.                                                          *)
(***************************************************************************)
\* The task owns the certification epoch.  A target whose sessions before it
\* are certified is collected; a certified one only gets its follow-ups.
Launch(d) ==
    /\ task.pc = "idle" /\ d < today /\ d \notin done
    /\ \A e \in Days : e < d => e \in certified
    /\ task' = [Idle EXCEPT !.day = d, !.pc = IF d \in certified THEN "select" ELSE "lists"]
    /\ UNCHANGED <<env, core, alt, bootstrap, silver, certified, faults>>

\* The list of the day is stored once and read ever after.
ReadLists ==
    LET list == IF lists[task.day] = None THEN filed[task.day] ELSE lists[task.day]
        reqs == deferred \cup Required(list)
    IN  /\ task.pc = "lists"
        /\ lists' = [lists EXCEPT ![task.day] = list]
        /\ task' = [task EXCEPT !.pc = "fetch", !.reqs = reqs, !.todo = ScopesOf(reqs)]
        /\ UNCHANGED <<env, deferred, major, resp, mani, alt, bootstrap, silver, certified,
                       faults>>

\* Mutant of FetchStatement: a stored statement is never taken for changed.
FetchStatementOnce(s) ==
    /\ task.pc = "fetch" /\ s \in task.todo
    /\ task' = [task EXCEPT !.todo = @ \ {s},
                            !.met = IF exposed[s] = 0 THEN @ ELSE @ \cup {s},
                            !.changed = IF exposed[s] = 0 \/ major[s] > 0 THEN @ ELSE @ \cup {s}]
    /\ major' = IF exposed[s] = 0 THEN major ELSE [major EXCEPT ![s] = exposed[s]]
    /\ UNCHANGED <<env, lists, deferred, resp, mani, alt, bootstrap, silver, certified, faults>>

\* One answer of the statement endpoint: nothing yet, the stored statement or
\* another one, which is stored and remembered as changed.
FetchStatement(s) ==
    /\ task.pc = "fetch" /\ s \in task.todo
    /\ task' = [task EXCEPT !.todo = @ \ {s},
                            !.met = IF exposed[s] = 0 THEN @ ELSE @ \cup {s},
                            !.changed = IF exposed[s] \in {0, major[s]} THEN @ ELSE @ \cup {s}]
    /\ major' = IF exposed[s] = 0 THEN major ELSE [major EXCEPT ![s] = exposed[s]]
    /\ UNCHANGED <<env, lists, deferred, resp, mani, alt, bootstrap, silver, certified, faults>>

\* Mutant of SaveDeferred: the list is rebuilt from the day's list alone.
SaveDeferredOfDay ==
    /\ task.pc = "fetch" /\ task.todo = {}
    /\ deferred' = Missing(Required(lists[task.day]), task.met)
    /\ task' = [task EXCEPT !.pc = "dividends", !.todo = task.changed]
    /\ UNCHANGED <<env, lists, major, resp, mani, alt, bootstrap, silver, certified, faults>>

\* Only after the last answer the unanswered requirements are stored.
SaveDeferred ==
    /\ task.pc = "fetch" /\ task.todo = {}
    /\ deferred' = Missing(task.reqs, task.met)
    /\ task' = [task EXCEPT !.pc = "dividends", !.todo = task.changed]
    /\ UNCHANGED <<env, lists, major, resp, mani, alt, bootstrap, silver, certified, faults>>

\* Mutant of PutResponse: a stored response counts as complete.
PutResponseOnly(s) ==
    /\ task.pc = "dividends" /\ s \in task.todo
    /\ \E v \in Answers(s) :
        IF <<s, v>> \in resp
        THEN /\ task' = [task EXCEPT !.todo = @ \ {s}, !.pairs = @ \cup {<<s, v>>}]
             /\ UNCHANGED resp
        ELSE /\ task' = [task EXCEPT !.todo = @ \ {s}, !.pc = "manifest", !.got = {<<s, v>>}]
             /\ resp' = resp \cup {<<s, v>>}
    /\ UNCHANGED <<env, lists, deferred, major, mani, alt, bootstrap, silver, certified, faults>>

\* The dividends of a changed statement, stored under the receipt of the
\* answer: the response first ...
PutResponse(s) ==
    /\ task.pc = "dividends" /\ s \in task.todo
    /\ \E v \in Answers(s) :
        IF <<s, v>> \in resp /\ <<s, v>> \in mani
        THEN /\ task' = [task EXCEPT !.todo = @ \ {s}]
             /\ UNCHANGED resp
        ELSE /\ task' = [task EXCEPT !.todo = @ \ {s}, !.pc = "manifest", !.got = {<<s, v>>}]
             /\ resp' = resp \cup {<<s, v>>}
    /\ UNCHANGED <<env, lists, deferred, major, mani, alt, bootstrap, silver, certified, faults>>

\* ... and the manifest that completes the pair last.
PutManifest ==
    /\ task.pc = "manifest"
    /\ mani' = mani \cup task.got
    /\ task' = [task EXCEPT !.pc = "dividends", !.pairs = @ \cup task.got, !.got = {}]
    /\ UNCHANGED <<env, lists, deferred, major, resp, alt, bootstrap, silver, certified, faults>>

Collected ==
    /\ task.pc = "dividends" /\ task.todo = {}
    /\ task' = [task EXCEPT !.pc = "load"]
    /\ UNCHANGED <<env, core, alt, bootstrap, silver, certified, faults>>

\* Candidates are built from the changed inputs; if the gate passes, one
\* transaction upserts them and certifies the run.
LoadDay ==
    /\ task.pc = "load"
    /\ silver' = [silver EXCEPT !.statements = @ \cup {<<s, major[s]>> : s \in task.changed},
                                !.dividends = @ \cup task.pairs]
    /\ certified' = certified \cup {task.day}
    /\ task' = [Idle EXCEPT !.pc = "select", !.day = task.day]
    /\ UNCHANGED <<env, core, alt, bootstrap, faults>>

-----------------------------------------------------------------------------
(***************************************************************************)
(* The alternative increment of the same day.                               *)
(***************************************************************************)
\* A collector that has stored its pending list is not run again.
Reuse ==
    /\ task.pc = "select" /\ task.turn \in Turns
    /\ pending[task.day][task.turn] # None
    /\ task' = [task EXCEPT !.turn = @ + 1, !.files = @ \cup pending[task.day][task.turn]]
    /\ UNCHANGED <<env, core, alt, bootstrap, silver, certified, faults>>

\* Mutant of Collect: an earlier attempt's pending list is not looked at.
CollectAgain ==
    /\ task.pc = "select" /\ task.turn \in Turns
    /\ task' = [task EXCEPT !.pc = "collect", !.todo = AltScopes(Collectors[task.turn], task.day)]
    /\ UNCHANGED <<env, core, alt, bootstrap, silver, certified, faults>>

Collect ==
    /\ task.pc = "select" /\ task.turn \in Turns
    /\ pending[task.day][task.turn] = None
    /\ task' = [task EXCEPT !.pc = "collect", !.todo = AltScopes(Collectors[task.turn], task.day)]
    /\ UNCHANGED <<env, core, alt, bootstrap, silver, certified, faults>>

\* The body of an answer is content-addressed; the scope's pointer moves to it.
\* An unchanged answer is not an input of the day.
FetchInput(s) ==
    /\ task.pc = "collect" /\ s \in task.todo
    /\ \E v \in Answers(s) :
        /\ pointer' = [pointer EXCEPT ![s] = v]
        /\ task' = [task EXCEPT !.todo = @ \ {s},
                                !.got = IF pointer[s] = v THEN @ ELSE @ \cup {<<s, v>>}]
    /\ UNCHANGED <<env, core, pending, done, krxKnown, bootstrap, silver, certified, faults>>

SavePending ==
    /\ task.pc = "collect" /\ task.todo = {}
    /\ pending' = [pending EXCEPT ![task.day][task.turn] = task.got]
    /\ task' = [task EXCEPT !.pc = "select", !.turn = @ + 1, !.files = @ \cup task.got, !.got = {}]
    /\ UNCHANGED <<env, core, pointer, done, krxKnown, bootstrap, silver, certified, faults>>

\* Mutant of Request: only new KRX sources ask for a publication.
RequestKrx ==
    /\ task.pc = "select" /\ task.turn \notin Turns
    /\ task' = [task EXCEPT !.krx = krx \ krxKnown,
                            !.pc = IF krx \subseteq krxKnown THEN "complete" ELSE "publish"]
    /\ UNCHANGED <<env, core, alt, bootstrap, silver, certified, faults>>

\* The KRX sources are those deposited and not yet counted as published.
Request ==
    /\ task.pc = "select" /\ task.turn \notin Turns
    /\ task' = [task EXCEPT !.krx = krx \ krxKnown,
                            !.pc = IF task.files = {} /\ krx \subseteq krxKnown
                                   THEN "complete" ELSE "publish"]
    /\ UNCHANGED <<env, core, alt, bootstrap, silver, certified, faults>>

\* publish_files: all data sets in one transaction.
PublishFiles ==
    /\ task.pc = "publish"
    /\ silver' = [silver EXCEPT !.lines = @ \cup task.files, !.krx = @ \cup task.krx]
    /\ task' = [task EXCEPT !.pc = "mark"]
    /\ UNCHANGED <<env, core, alt, bootstrap, certified, faults>>

MarkKrx ==
    /\ task.pc = "mark"
    /\ krxKnown' = krxKnown \cup task.krx
    /\ task' = [task EXCEPT !.pc = "complete"]
    /\ UNCHANGED <<env, core, pointer, pending, done, bootstrap, silver, certified, faults>>

CompleteDay ==
    /\ task.pc = "complete"
    /\ done' = done \cup {task.day}
    /\ task' = Idle
    /\ UNCHANGED <<env, core, pointer, pending, krxKnown, bootstrap, silver, certified, faults>>

-----------------------------------------------------------------------------
(***************************************************************************)
(* The bootstrap of full statements: it has a lock of its own for           *)
(* collecting, so that it runs beside the daily task, and takes the epoch   *)
(* only to publish.                                                         *)
(***************************************************************************)
Discovered == {s \in Scope : s[2] \in Reports /\ major[s] > 0}
Unpointed(scopes) == {s \in scopes : pointer[s] = -1}

\* Scopes to choose from: the cached list, read again from the statements when
\* it is absent or has nothing left.
Selectable == IF cache = None \/ Unpointed(cache) = {} THEN Discovered ELSE cache

\* A bounded batch is recorded before it is collected.
BootSelect ==
    /\ boot.pc = "idle" /\ batch.status \in {"NONE", "CERTIFIED"}
    /\ cache' = Selectable
    /\ \E chosen \in SUBSET Unpointed(Selectable) :
        /\ Cardinality(chosen) = IF Cardinality(Unpointed(Selectable)) < BatchSize
                                 THEN Cardinality(Unpointed(Selectable)) ELSE BatchSize
        /\ chosen # {}
        /\ batch' = [status |-> "COLLECTING", scopes |-> chosen]
        /\ boot' = [BootIdle EXCEPT !.pc = "collect", !.todo = chosen]
    /\ UNCHANGED <<env, core, alt, silver, certified, task, faults>>

\* Mutant of BootResume: a resumed batch publishes only what it fetches itself.
BootResumeNew ==
    /\ boot.pc = "idle" /\ batch.status \in {"COLLECTING", "COLLECTED"}
    /\ boot' = [BootIdle EXCEPT !.pc = "collect", !.todo = Unpointed(batch.scopes)]
    /\ UNCHANGED <<env, core, alt, cache, batch, silver, certified, task, faults>>

\* An unfinished batch is resumed with the scopes it recorded: the inventory
\* and the pointers of all of them are read once, before anything is asked for.
BootResume ==
    /\ boot.pc = "idle" /\ batch.status \in {"COLLECTING", "COLLECTED"}
    /\ boot' = [pc |-> "collect", todo |-> Unpointed(batch.scopes),
                files |-> {<<s, pointer[s]>> : s \in batch.scopes \ Unpointed(batch.scopes)}]
    /\ UNCHANGED <<env, core, alt, cache, batch, silver, certified, task, faults>>

\* A scope that had no pointer is asked for, whatever the daily task has stored
\* there since; an older response of the daily collector is promoted, which is
\* an answer like any other.
BootFetch(s) ==
    /\ boot.pc = "collect" /\ s \in boot.todo
    /\ \E v \in Answers(s) :
        /\ pointer' = [pointer EXCEPT ![s] = v]
        /\ boot' = [boot EXCEPT !.todo = @ \ {s}, !.files = @ \cup {<<s, v>>}]
    /\ UNCHANGED <<env, core, pending, done, krxKnown, cache, batch, silver, certified, task,
                   faults>>

BootCollected ==
    /\ boot.pc = "collect" /\ boot.todo = {}
    /\ batch' = [batch EXCEPT !.status = "COLLECTED"]
    /\ boot' = [boot EXCEPT !.pc = "publish"]
    /\ UNCHANGED <<env, core, alt, cache, silver, certified, task, faults>>

\* The epoch is free only when no daily task runs.
BootPublish ==
    /\ boot.pc = "publish" /\ task.pc = "idle"
    /\ silver' = [silver EXCEPT !.lines = @ \cup boot.files]
    /\ boot' = [boot EXCEPT !.pc = "mark"]
    /\ UNCHANGED <<env, core, alt, cache, batch, certified, task, faults>>

BootMark ==
    /\ boot.pc = "mark"
    /\ batch' = [batch EXCEPT !.status = "CERTIFIED"]
    /\ boot' = BootIdle
    /\ UNCHANGED <<env, core, alt, cache, silver, certified, task, faults>>

-----------------------------------------------------------------------------
\* Inputs that a task has stored and holds only in memory.
Unsaved == {<<s, major[s]>> : s \in task.changed}
             \cup (IF task.pc = "collect" THEN task.got ELSE {})

\* A stop, a quota error, or a gate that refuses the candidates: the run is
\* FAILED, the task ends and its memory is gone.
Stop ==
    /\ task.pc # "idle" /\ stops < MaxStops
    /\ stops' = stops + 1
    /\ lost' = lost \cup Unsaved
    /\ task' = Idle
    /\ UNCHANGED <<env, core, alt, bootstrap, silver, certified>>

BootStop ==
    /\ boot.pc # "idle" /\ stops < MaxStops
    /\ stops' = stops + 1
    /\ boot' = BootIdle
    /\ UNCHANGED <<env, core, alt, cache, batch, silver, certified, task, lost>>

DailyStep ==
    \/ ReadLists \/ SaveDeferred \/ PutManifest \/ Collected \/ LoadDay
    \/ Reuse \/ Collect \/ SavePending \/ Request \/ PublishFiles \/ MarkKrx \/ CompleteDay
    \/ \E s \in Scope : FetchStatement(s) \/ PutResponse(s) \/ FetchInput(s)

BootStep ==
    \/ BootSelect \/ BootResume \/ BootCollected \/ BootPublish \/ BootMark
    \/ \E s \in Scope : BootFetch(s)

Next ==
    \/ NextDay \/ Stop \/ BootStop \/ DailyStep \/ BootStep
    \/ \E s \in Scope : Expose(s)
    \/ \E f \in KrxFiles : Deposit(f)
    \/ \E d \in Days : Launch(d)

Spec == Init /\ [][Next]_vars

-----------------------------------------------------------------------------
\* Inputs that the pending lists record.
Recorded ==
    UNION {IF pending[d][c] = None THEN {} ELSE pending[d][c] : d \in Days, c \in Turns}

\* Stored versions that are in Silver, in a pending list or in a task's hands.
Held == silver.lines \cup task.files \cup (IF task.pc = "collect" THEN task.got ELSE {})
          \cup Recorded

Pointed(s) == <<s, pointer[s]>>
Unfinished == IF batch.status = "CERTIFIED" THEN {} ELSE batch.scopes

\* A filed scope is not forgotten: after its target is certified, a listed
\* company's report is stored, or a requirement for it waits in the deferred
\* list, whatever stopped in between (financials.run_incremental).  Quarterly
\* reports are the subject of QuarterKept.
Kept(d, s) == major[s] > 0 \/ <<s[1], ReportScopes(s[2])>> \in deferred
FilingKept ==
    \A d \in certified : \A s \in filed[d] :
        s[1] \in Listed /\ s[2] = "annual" => Kept(d, s)

\* The same of the report on the third quarter: the stored requirements are "periodic-report
\* scopes that were filed before the API exposed them".
QuarterKept ==
    \A d \in certified : \A s \in filed[d] :
        s[1] \in Listed /\ s[2] = "third" => Kept(d, s)

\* The stored statement of a scope is in Silver, among the changed inputs of
\* the running task, or was in the memory of a task that stopped: nothing but a
\* stop between the write and the certification can lose an input
\* (run_incremental returns changed paths, daily_full hands only those on).
StatementsAccounted ==
    \A s \in Scope : major[s] > 0 =>
        <<s, major[s]>> \in silver.statements \cup lost \/ s \in task.changed

\* A dividend in Silver has its response and the manifest that completes it,
\* however often its collection was interrupted (_Writer.save_pair).
DividendsComplete == silver.dividends \subseteq resp \cap mani

\* The version a pointer names is in Silver, in a pending list, in the hands of
\* the daily task, in the recorded batch of the bootstrap, or was lost by a stop
\* of the collector: bootstrap and daily task may collect the same scope at the
\* same time and neither makes the other drop an input.
CollectedAccounted ==
    \A s \in Scope : pointer[s] >= 0 =>
        Pointed(s) \in Held \cup lost \/ s \in Unfinished

\* No stored input of either collection is forgotten, but by a stopped process.
InputsAccounted == StatementsAccounted /\ CollectedAccounted

\* _collect_once: "Retain collected immutable inputs until Silver publication
\* succeeds": as above, and a stop is no excuse.
CollectedRetained ==
    \A s \in Scope : pointer[s] >= 0 => Pointed(s) \in Held \/ s \in Unfinished

\* A completed day has published every input its collectors recorded, also
\* those that an earlier, interrupted attempt collected.
CompletePublished ==
    \A d \in done : \A c \in Turns : pending[d][c] \subseteq silver.lines

\* What the incremental state or the bootstrap counts as published is.
MarkedPublished ==
    /\ krxKnown \subseteq silver.krx
    /\ batch.status = "CERTIFIED" =>
         \A s \in batch.scopes : \E v \in Versions : <<s, v>> \in silver.lines

\* Every mark that something is complete - a dividend pair, a day, a known file,
\* a certified batch - is backed by what it stands for.
MarksTrue == DividendsComplete /\ CompletePublished /\ MarkedPublished
=============================================================================
