--------------------------- MODULE WarningWorklist ---------------------------
(***************************************************************************)
(* The review worklist of data-quality warnings, dq_warning_state, beside  *)
(* the immutable observations in dq_run and dq_result.                     *)
(*                                                                         *)
(*   pipeline/silver_quality/repository.py   start_run, finish_run, the    *)
(*       live projection of a certified run, the acknowledgement and the   *)
(*       retroactive projection of the history                             *)
(*   pipeline/silver_quality/review.py       the reviewer's commands       *)
(*                                                                         *)
(* A run evaluates one WARNING rule on one batch of inputs; the row it     *)
(* updates is named by the mode, the scope, the dataset and the rule.  It  *)
(* has one result per row: _incremental_warning_entries would join several,*)
(* but every rule of the repository reports once per dataset and partition.*)
(* Batches are the inputs of runs of one tracked mode, Scope[b] is the row  *)
(* of batch b: batches of their own date or partition have a row each, all *)
(* batches of a mode without either share the row of the dataset.          *)
(***************************************************************************)
EXTENDS Naturals

CONSTANTS
    Batch,    \* inputs of a run
    Key,      \* rows of the worklist
    Scope,    \* Scope[b]: the row a run on batch b updates
    Value,    \* what a failing rule reports: actual_value
    Pass,     \* the report of a passing rule
    NoValue,  \* NULL
    Tools,    \* the review commands in use: "ack", "project"
    Overlap,  \* whether runs and a projection may overlap
    MaxRuns   \* bound: runs

ASSUME WorklistConstants ==
    /\ Scope \in [Batch -> Key]
    /\ Pass \notin Value
    /\ NoValue \notin Value \cup {Pass}
    /\ Tools \subseteq {"ack", "project"}
    /\ Overlap \in BOOLEAN
    /\ MaxRuns \in Nat

VARIABLES
    run,      \* dq_run and its dq_result, in the order of started_at
    commits,  \* certified runs so far
    tracking, \* the deployed code projects certified runs of this mode
    row,      \* dq_warning_state
    found     \* the result of a projection's query, before its upsert

worklist == <<run, commits, tracking, row, found>>

Id     == 1..MaxRuns
Report == Value \cup {Pass}

(* `done` is the commit number of a certified run, `live` whether the run  *)
(* was projected by its own transaction.                                   *)
NewRun == [state |-> "new", batch |-> NoValue, out |-> NoValue, done |-> 0,
           live |-> FALSE]

NoRow == [status |-> "absent", actual |-> NoValue, fingerprint |-> NoValue]

RunRow ==
    [state : {"new", "running", "stopped", "certified"},
     batch : Batch \cup {NoValue}, out : Report \cup {NoValue},
     done : Nat, live : BOOLEAN]

StateRow ==
    [status : {"absent", "OPEN", "ACKNOWLEDGED", "RESOLVED"},
     actual : Report \cup {NoValue}, fingerprint : Report \cup {NoValue}]

Finding == [query : BOOLEAN, fails : [Key -> Value \cup {NoValue}]]

WorklistTypeOK ==
    /\ run \in [Id -> RunRow]
    /\ commits \in Nat
    /\ tracking \in BOOLEAN
    /\ row \in [Key -> StateRow]
    /\ found \in Finding

NotFound == [query |-> FALSE, fails |-> [k \in Key |-> NoValue]]

WorklistInit ==
    /\ run = [i \in Id |-> NewRun]
    /\ commits = 0
    /\ tracking = FALSE
    /\ row = [k \in Key |-> NoRow]
    /\ found = NotFound

-----------------------------------------------------------------------------
Running   == {i \in Id : run[i].state = "running"}
Certified == {i \in Id : run[i].state = "certified"}

(* _warning_scope_key: the row a run on batch b updates.                   *)
RowOf(b) == Scope[b]

(* The certified observations of a row.                                    *)
Observed(k) == {i \in Certified : RowOf(run[i].batch) = k}

(* The row after a failing observation: an acknowledgement survives while  *)
(* the observed value is unchanged, anything else opens the row and clears *)
(* it.  Seeded fault: no acknowledgement survives.                         *)
FailedReopens(r, v) ==
    [status |-> "OPEN", actual |-> v, fingerprint |-> NoValue]

Failed(r, v) ==
    IF r.status = "ACKNOWLEDGED" /\ r.fingerprint = v
    THEN [r EXCEPT !.actual = v]
    ELSE [status |-> "OPEN", actual |-> v, fingerprint |-> NoValue]

(* The row after a passing observation.  Seeded fault: acknowledged rows   *)
(* are left alone.                                                         *)
PassedOpen(r) ==
    IF r.status = "OPEN" THEN [r EXCEPT !.status = "RESOLVED", !.actual = Pass]
    ELSE r

Passed(r) ==
    IF r.status \in {"OPEN", "ACKNOWLEDGED"}
    THEN [r EXCEPT !.status = "RESOLVED", !.actual = Pass]
    ELSE r

-----------------------------------------------------------------------------
(* start_run: committed before the inputs are read.                        *)
StartRun(i, b) ==
    /\ run[i].state = "new"
    /\ \A j \in Id : j < i => run[j].state # "new"
    /\ ~Overlap => Running = {} /\ ~found.query
    /\ run' = [run EXCEPT ![i].state = "running", ![i].batch = b]
    /\ UNCHANGED <<commits, tracking, row, found>>

(* finish_run(CERTIFIED) in the transaction that publishes the data:       *)
(* save_results and, for a tracked mode, sync_incremental_warning_state.   *)
CertifyRun(i, v) ==
    LET k == RowOf(run[i].batch) IN
    /\ run[i].state = "running"
    /\ commits' = commits + 1
    /\ run' = [run EXCEPT ![i].state = "certified", ![i].out = v,
                          ![i].done = commits + 1, ![i].live = tracking]
    /\ row' = IF ~tracking THEN row
              ELSE [row EXCEPT ![k] = IF v = Pass THEN Passed(@)
                                      ELSE Failed(@, v)]
    /\ UNCHANGED <<tracking, found>>

(* finish_run(FAILED), or a process that dies and leaves the row RUNNING:  *)
(* results of such a run are not projected by anyone.                      *)
StopRun(i) ==
    /\ run[i].state = "running"
    /\ run' = [run EXCEPT ![i].state = "stopped"]
    /\ UNCHANGED <<commits, tracking, row, found>>

(* The deployment that adds this mode to WARNING_TRACKED_MODES.            *)
Deploy ==
    /\ ~tracking
    /\ tracking' = TRUE
    /\ UNCHANGED <<run, commits, row, found>>

-----------------------------------------------------------------------------
(* review ack, acknowledge_warning: the value of the row when it commits   *)
(* is the fingerprint.                                                     *)
Acknowledge(k) ==
    /\ "ack" \in Tools
    /\ row[k].status = "OPEN"
    /\ row' = [row EXCEPT ![k].status = "ACKNOWLEDGED",
                          ![k].fingerprint = row[k].actual]
    /\ UNCHANGED <<run, commits, tracking, found>>

(* project_result_history_to_warning_state, the query: of the observations *)
(* started in the window (`first` is --since), the most recent one of each *)
(* row, when it failed.  Seeded faults: passing observations are selected  *)
(* too, or they are not ranked.                                            *)
SelectedAny(i) == TRUE

Selected(i) == run[i].out # Pass

MostRecentFailure(k, first, i) ==
    /\ i \in Observed(k) /\ first <= i /\ run[i].out # Pass
    /\ \A j \in Observed(k) : run[j].out # Pass => j <= i

MostRecent(k, first, i) ==
    /\ i \in Observed(k) /\ first <= i
    /\ \A j \in Observed(k) : j <= i

Query(first) ==
    /\ "project" \in Tools
    /\ tracking /\ ~found.query
    /\ ~Overlap => Running = {}
    /\ found' = [query |-> TRUE, fails |-> [k \in Key |->
         IF \E i \in Id : MostRecent(k, first, i) /\ Selected(i)
         THEN run[CHOOSE i \in Id : MostRecent(k, first, i)].out
         ELSE NoValue]]
    /\ UNCHANGED <<run, commits, tracking, row>>

(* ... and its upsert: at READ COMMITTED a row that a run has changed      *)
(* since the query is updated all the same.                                *)
Upsert ==
    /\ found.query
    /\ row' = [k \in Key |->
         IF found.fails[k] = NoValue THEN row[k]
         ELSE LET r == row[k]
                  v == found.fails[k]
              IN  IF r.status = "ACKNOWLEDGED" /\ r.fingerprint = v
                  THEN [r EXCEPT !.actual = v]
                  ELSE [r EXCEPT !.status = "OPEN", !.actual = v]]
    /\ found' = NotFound
    /\ UNCHANGED <<run, commits, tracking>>

WorklistNext ==
    \/ \E i \in Id :
        \/ \E b \in Batch : StartRun(i, b)
        \/ \E v \in Report : CertifyRun(i, v)
        \/ StopRun(i)
    \/ Deploy
    \/ \E k \in Key : Acknowledge(k)
    \/ \E first \in Id : Query(first)
    \/ Upsert

WorklistSpec == WorklistInit /\ [][WorklistNext]_worklist

-----------------------------------------------------------------------------
(* Properties.                                                             *)

(* The last certified observation of a row, in commit order.               *)
Last(k, i) ==
    /\ i \in Observed(k)
    /\ \A j \in Observed(k) : run[j].done <= run[i].done

(* A row of the worklist says what its last certified observation said,    *)
(* and a failure since the mode is tracked has one: neither failed runs,   *)
(* acknowledgements nor repeated projections of any window hide a warning  *)
(* that still fails or bring back one that has passed.                     *)
WorklistCurrent ==
    \A k \in Key : \A i \in Id : Last(k, i) =>
        /\ run[i].live /\ run[i].out # Pass => row[k].status # "absent"
        /\ row[k].status # "absent" =>
             /\ row[k].status = "RESOLVED" <=> run[i].out = Pass
             /\ row[k].actual = run[i].out
             /\ row[k].status = "ACKNOWLEDGED" =>
                  row[k].fingerprint = run[i].out

(* An acknowledged warning comes back only through a new observation of    *)
(* its row whose value differs: a projection of the history never undoes a *)
(* review.                                                                 *)
ReviewsStand ==
    [][\A k \in Key :
         row[k].status = "ACKNOWLEDGED" /\ row'[k].status = "OPEN" =>
           \E i \in Running : /\ run'[i].state = "certified"
                              /\ Scope[run[i].batch] = k
                              /\ run'[i].out # row[k].fingerprint]_worklist

(* repository.py: a scope cleared by a later PASS is not reopened from a   *)
(* stale FAIL, a projection is safe to repeat.                             *)
ClearedStaysCleared ==
    [][\A k \in Key :
         row[k].status = "RESOLVED" /\ row'[k].status = "OPEN" =>
           commits' = commits + 1]_worklist

(* What a reader may take the list for: a row that has been resolved       *)
(* covers no batch whose own last tracked observation failed.  It does not *)
(* hold: with batches that share a row, the PASS of one resolves the       *)
(* warning of another.                                                     *)
FailsStill(b) ==
    \E i \in Certified :
        /\ run[i].batch = b /\ run[i].live /\ run[i].out # Pass
        /\ \A j \in Certified : run[j].batch = b => run[j].done <= run[i].done

ResolvedByRecheck ==
    \A b \in Batch : FailsStill(b) => row[Scope[b]].status # "RESOLVED"

=============================================================================
