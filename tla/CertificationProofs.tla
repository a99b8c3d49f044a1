------------------------- MODULE CertificationProofs -------------------------
(***************************************************************************)
(* Proofs about certification.  CertificationEpoch, for every set of       *)
(* tasks, calendar, disclosure dates, entry points and fault bounds, and   *)
(* that it implements ReturnLabel when PostgreSQL sessions live as long as *)
(* their tasks and all evidence is documents or no gap replay is around.   *)
(* WarningWorklist, the list that certified quality runs leave behind, for *)
(* every number of rows, batches, reported values and runs.                *)
(***************************************************************************)
EXTENDS CertificationEpochRefinement, WarningWorklist, TLAPS

-----------------------------------------------------------------------------
(* Type correctness.  A replay never runs past its last day, so the next   *)
(* day is a day of the calendar.                                           *)

InRange == \A t \in Task : task[t].pc # "idle" => task[t].day <= task[t].last

TInv == TypeOK /\ InRange

LEMMA IdleType ==
    /\ Idle \in Program
    /\ Idle.pc = "idle"
<1>1. 0 \in Day /\ Null \in Day \cup {Null}
  BY EpochConstants DEF Day
<1>2. QED
  BY <1>1 DEF Idle, Program, Pc

LEMMA TInit == Init => TInv
<1> SUFFICES ASSUME Init PROVE TInv
  OBVIOUS
<1>1. 0 \in Day
  BY EpochConstants DEF Day
<1>2. contract \in Contract
  BY <1>1 DEF Init, Contract, Run, Null
<1>3. faults \in 0..MaxFaults
  BY EpochConstants DEF Init
<1>4. task \in [Task -> Program] /\ InRange
  BY IdleType DEF Init, InRange
<1>5. snapshots \in [Day -> (SUBSET Action) \cup {NoSnapshot}]
  BY DEF Init
<1>6. QED
  BY <1>1, <1>2, <1>3, <1>4, <1>5 DEF Init, TInv, TypeOK

LEMMA EvidenceType ==
    ASSUME TypeOK, NEW d
    PROVE  Evidence(d) \in SUBSET Action
BY DEF TypeOK, Evidence, FiledBy

(* The demotion of the contract row keeps it well-typed.                   *)
LEMMA DemotedType ==
    ASSUME TypeOK, NEW r \in Run
    PROVE  Demoted(r) \in Contract
BY DEF TypeOK, Demoted, Contract

LEMMA TStep ==
    ASSUME TInv, NEW t \in Task, Step(t)
    PROVE  TInv'
<1> USE DEF TInv
<1>0. /\ task[t] \in Program
      /\ task \in [Task -> Program]
      /\ contract \in Contract
      /\ lastPrice \in Day
  BY DEF TypeOK
<1>1. CASE Guard(t)
  <2>1. task' \in [Task -> Program]
    <3> DEFINE day == task[t].day
               known == bronze \cup {"listing" : d \in listed \cap {day}}
                               \cup {"marker" : d \in collected \cap {day}}
               pc == IF day \notin daily THEN "collect"
                     ELSE IF Ready THEN "next" ELSE "restore"
    <3>1. known \in SUBSET Object
      BY DEF TypeOK, Object
    <3>2. Ready \in BOOLEAN /\ pc \in Pc
      BY DEF Ready, Pc
    <3>3. task' = [task EXCEPT ![t] =
             [task[t] EXCEPT !.ready = Ready, !.changed = FALSE,
                !.known = known, !.stage = "none", !.pc = pc]]
      BY <1>0, <1>1 DEF Guard, Program
    <3> HIDE DEF known, pc
    <3>4. QED
      BY <1>0, <3>1, <3>2, <3>3 DEF Program
  <2>2. InRange'
    BY <1>0, <1>1 DEF Guard, At, InRange, TypeOK, Program
  <2>3. QED
    BY <1>1, <2>1, <2>2 DEF Guard, TypeOK, objects, silver
<1>2. ASSUME NEW o \in Object, Put(t, o) PROVE TInv'
  <2>1. task' \in [Task -> Program]
    BY <1>0, <1>2 DEF Put, Program, TypeOK
  <2>2. InRange'
    BY <1>0, <1>2 DEF Put, At, InRange, TypeOK, Program
  <2>3. contract' \in Contract
    BY <1>0, <1>2, DemotedType DEF Put, Contract, Run, Program
  <2>4. inflight' \in [Task -> SUBSET Object]
    BY <1>2 DEF Put, TypeOK
  <2>5. QED
    BY <1>2, <2>1, <2>2, <2>3, <2>4 DEF Put, TypeOK, objects, silver
<1>3. CASE CloseWriter(t)
  <2>1. task' \in [Task -> Program] /\ InRange'
    BY <1>0, <1>3 DEF CloseWriter, Go, At, Program, Pc, InRange
  <2>2. QED
    BY <1>3, <2>1 DEF CloseWriter, TypeOK, objects, silver
<1>4. ASSUME NEW refiled \in BOOLEAN, Plan(t, refiled) PROVE TInv'
  <2>1. Evidence(task[t].day) \in SUBSET Action
    BY EvidenceType
  <2>2. task' \in [Task -> Program]
    BY <1>0, <1>4, <2>1 DEF Plan, Program, Pc
  <2>3. InRange'
    BY <1>0, <1>4 DEF Plan, At, InRange, Program
  <2>4. QED
    BY <1>4, <2>2, <2>3 DEF Plan, TypeOK, objects, silver
<1>5. CASE Build(t)
  <2>1. Evidence(task[t].end) \in SUBSET Action
    BY EvidenceType
  <2>2. task' \in [Task -> Program] /\ InRange'
    BY <1>0, <1>5, <2>1 DEF Build, At, Program, Pc, InRange
  <2>3. QED
    BY <1>5, <2>2 DEF Build, TypeOK, objects, silver
<1>6. CASE Publish(t)
  <2>1. task[t].end \in Day
    BY <1>0, <1>6, EpochConstants DEF Publish, Program, TypeOK, Day, Null
  <2>2. task' \in [Task -> Program] /\ InRange'
    BY <1>0, <1>6, IdleType DEF Publish, Go, Exit, At, Program, Pc, InRange
  <2>3. epochLock' \in Task \cup {NoTask}
    BY <1>6 DEF Publish, Exit, TypeOK
  <2>4. QED
    BY <1>0, <1>6, <2>1, <2>2, <2>3 DEF Publish, TypeOK, objects, silver, Program
<1>7. CASE Restore(t)
  <2>1. task' \in [Task -> Program] /\ InRange'
    BY <1>0, <1>7 DEF Restore, At, Program, Pc, InRange, TypeOK
  <2>2. QED
    BY <1>7, <2>1 DEF Restore, TypeOK, objects, silver
<1>8. CASE SkipDay(t)
  <2>1. task' \in [Task -> Program] /\ InRange'
    BY <1>0, <1>8 DEF SkipDay, AfterLoad, Go, At, Program, Pc, InRange
  <2>2. QED
    BY <1>8, <2>1 DEF SkipDay, TypeOK, objects, silver
<1>9. ASSUME NEW touched \in BOOLEAN, LoadDay(t, touched) PROVE TInv'
  <2>1. task' \in [Task -> Program] /\ InRange'
    BY <1>0, <1>9 DEF LoadDay, AfterLoad, Go, At, Program, Pc, InRange
  <2>2. contract' \in Contract
    BY <1>0, <1>9 DEF LoadDay, Demoted, Contract, Run, Program
  <2>3. QED
    BY <1>0, <1>9, <2>1, <2>2 DEF LoadDay, TypeOK, objects, silver, Program
<1>10. CASE Apply(t)
  <2>1. task' \in [Task -> Program] /\ InRange'
    BY <1>0, <1>10 DEF Apply, Go, At, Program, Pc, InRange
  <2>2. contract' \in Contract
    BY <1>0, <1>10 DEF Apply, Demoted, Contract, Run
  <2>3. snapshots' \in [Day -> (SUBSET Action) \cup {NoSnapshot}]
    BY <1>0, <1>10 DEF Apply, TypeOK, Program
  <2>4. QED
    BY <1>10, <2>1, <2>2, <2>3 DEF Apply, TypeOK, objects, silver
<1>11. CASE Mark(t)
  <2>1. task' \in [Task -> Program] /\ InRange'
    BY <1>0, <1>11 DEF Mark, Go, At, Program, Pc, InRange
  <2>2. contract' \in Contract
    BY <1>0, <1>11 DEF Mark, Contract, Run
  <2>3. QED
    BY <1>11, <2>1, <2>2 DEF Mark, TypeOK, objects, silver
<1>12. CASE Certify(t)
  <2>1. task' \in [Task -> Program] /\ InRange'
    BY <1>0, <1>12 DEF Certify, At, Program, Pc, InRange
  <2>2. snapshots[lastPrice] \in SUBSET Action
    BY <1>0, <1>12 DEF Certify, TypeOK
  <2>3. contract' \in Contract
    BY <1>0, <1>12, <2>2 DEF Certify, Rebuilt, Contract, Run
  <2>4. QED
    BY <1>12, <2>1, <2>3 DEF Certify, TypeOK, objects, silver
<1>13. CASE NextDay(t)
  <2>1. CASE Final(t)
    BY <1>0, <1>13, <2>1, IdleType
    DEF NextDay, Exit, TypeOK, InRange, objects, silver
  <2>2. CASE ~Final(t)
    <3>1. task[t].day < task[t].last /\ task[t].day + 1 \in Day
      BY <1>0, <1>13, <2>2, EpochConstants
      DEF NextDay, Final, At, InRange, Program, Day
    <3>2. task' \in [Task -> Program] /\ InRange'
      BY <1>0, <1>13, <2>2, <3>1 DEF NextDay, Program, Pc, InRange, Day
    <3>3. QED
      BY <1>13, <2>2, <3>2 DEF NextDay, TypeOK, objects, silver
  <2>3. QED
    BY <2>1, <2>2
<1>14. CASE Raise(t)
  BY <1>0, <1>14, IdleType DEF Raise, Exit, TypeOK, InRange, objects, silver
<1>15. CASE FailOnLostSession(t)
  <2>1. 0 \in Day
    BY EpochConstants DEF Day
  <2>2. task' \in [Task -> Program] /\ InRange'
    BY <1>0, <1>15, <2>1, IdleType DEF FailOnLostSession, Program, InRange
  <2>3. QED
    BY <1>15, <2>2 DEF FailOnLostSession, TypeOK, objects, silver
<1>16. QED
  BY <1>1, <1>2, <1>3, <1>4, <1>5, <1>6, <1>7, <1>8, <1>9, <1>10, <1>11,
     <1>12, <1>13, <1>14, <1>15 DEF Step

LEMMA TNext == TInv /\ [Next]_vars => TInv'
<1> SUFFICES ASSUME TInv, [Next]_vars PROVE TInv'
  OBVIOUS
<1> USE DEF TInv
<1>1. CASE Tick
  BY <1>1, EpochConstants DEF Tick, TypeOK, InRange, objects, silver, Day
<1>2. ASSUME NEW t \in Task, NEW program \in Program, Launch(t, program),
             program.day <= program.last
      PROVE  TInv'
  BY <1>2 DEF Launch, TypeOK, InRange, objects, silver
<1>3. ASSUME NEW t \in Task, Launches(t) PROVE TInv'
  <2>1. CASE LaunchDaily(t)
    <3> DEFINE program == [Idle EXCEPT !.pc = "guard", !.kind = "daily",
                                       !.day = today, !.last = today]
    <3>1. today \in Day /\ today <= today
      BY EpochConstants DEF TypeOK, Day
    <3>2. program \in Program /\ program.day <= program.last
      BY <3>1, IdleType DEF Program, Pc
    <3>3. QED
      BY <1>2, <2>1, <3>2 DEF LaunchDaily
  <2>2. ASSUME NEW from \in Day, NEW to \in Day, LaunchGap(t, from, to)
        PROVE  TInv'
    <3> DEFINE program == [Idle EXCEPT !.pc = "guard", !.kind = "gap",
                             !.day = from, !.last = to, !.fresh = Ready]
    <3>1. Ready \in BOOLEAN
      BY DEF Ready
    <3>2. program \in Program /\ program.day <= program.last
      BY <2>2, <3>1, IdleType DEF Program, Pc, LaunchGap
    <3>3. QED
      BY <1>2, <2>2, <3>2 DEF LaunchGap
  <2>3. ASSUME NEW end \in Day, LaunchExtras(t, end)
        PROVE  TInv'
    <3> DEFINE program == [Idle EXCEPT !.pc = "build", !.kind = "extras",
          !.day = end, !.last = end, !.stage = "current", !.end = end]
    <3>1. end <= end
      BY EpochConstants DEF Day
    <3>2. program \in Program /\ program.day <= program.last
      BY <3>1, IdleType DEF Program, Pc
    <3>3. QED
      BY <1>2, <2>3, <3>2 DEF LaunchExtras
  <2>4. QED
    BY <1>3, <2>1, <2>2, <2>3 DEF Launches
<1>4. ASSUME NEW t \in Task, Step(t) PROVE TInv'
  BY <1>4, TStep
<1>5. ASSUME NEW t \in Task, NEW o \in Object, Land(t, o) PROVE TInv'
  <2>1. task[t].day \in Day
    BY DEF TypeOK, Program
  <2>2. QED
    BY <1>5, <2>1 DEF Land, TypeOK, InRange, silver
<1>6. ASSUME NEW t \in Task, Stop(t) \/ LoseSession(t) PROVE TInv'
  BY <1>6, IdleType, EpochConstants
  DEF Stop, LoseSession, Exit, TypeOK, InRange, objects, silver
<1>7. CASE UNCHANGED vars
  BY <1>7 DEF vars, TypeOK, InRange, objects, silver
<1>8. QED
  BY <1>1, <1>3, <1>4, <1>5, <1>6, <1>7 DEF Next

(* Every value stays well-typed, and no replay runs past its last day.     *)
THEOREM TypeCorrect == Spec => [](TypeOK /\ InRange)
<1>1. Init => TypeOK /\ InRange
  BY TInit DEF TInv
<1>2. TypeOK /\ InRange /\ [Next]_vars => (TypeOK /\ InRange)'
  BY TNext DEF TInv
<1>3. QED
  BY <1>1, <1>2, PTL DEF Spec

-----------------------------------------------------------------------------
(* A CERTIFIED label covers exactly the certified prices, in every         *)
(* interleaving of tasks, stops and lost sessions: the invariant is        *)
(* inductive beside the type invariant, because prices only grow in the    *)
(* transaction that demotes the label.                                     *)
THEOREM CoversPrices == Spec => []CertifiedCoversPrices
<1>1. Init => CertifiedCoversPrices
  BY DEF Init, CertifiedCoversPrices
<1>2. TInv /\ CertifiedCoversPrices /\ [Next]_vars => CertifiedCoversPrices'
  <2> SUFFICES ASSUME TInv, CertifiedCoversPrices, [Next]_vars
               PROVE  CertifiedCoversPrices'
    OBVIOUS
  <2>0. contract \in Contract /\ lastPrice \in Day
    BY DEF TInv, TypeOK
  <2>1. CASE UNCHANGED <<contract, lastPrice>>
    BY <2>1 DEF CertifiedCoversPrices
  <2>2. ASSUME NEW t \in Task, NEW o \in Object, Put(t, o)
        PROVE  CertifiedCoversPrices'
    BY <2>0, <2>2 DEF Put, Demoted, Contract, silver, CertifiedCoversPrices
  <2>3. ASSUME NEW t \in Task, NEW touched \in BOOLEAN, LoadDay(t, touched)
        PROVE  CertifiedCoversPrices'
    BY <2>0, <2>3 DEF LoadDay, Demoted, Contract, CertifiedCoversPrices
  <2>4. ASSUME NEW t \in Task, Apply(t) \/ Mark(t)
        PROVE  CertifiedCoversPrices'
    BY <2>0, <2>4 DEF Apply, Mark, Demoted, Contract, CertifiedCoversPrices
  <2>5. ASSUME NEW t \in Task, Certify(t) PROVE CertifiedCoversPrices'
    BY <2>5 DEF Certify, Rebuilt, silver, CertifiedCoversPrices
  <2>6. QED
    <3>1. ASSUME NEW t \in Task, Step(t) PROVE CertifiedCoversPrices'
      BY <2>1, <2>2, <2>3, <2>4, <2>5, <3>1
      DEF Step, Guard, CloseWriter, Plan, Build, Publish, Restore, SkipDay,
          NextDay, Raise, FailOnLostSession, silver
    <3>2. ASSUME NEW t \in Task, Launches(t) PROVE CertifiedCoversPrices'
      BY <2>1, <3>2
      DEF Launches, LaunchDaily, LaunchGap, LaunchExtras, Launch, silver
    <3>3. QED
      BY <2>1, <3>1, <3>2
      DEF Next, Tick, Land, Stop, LoseSession, vars, silver
<1>3. QED
  BY <1>1, <1>2, TypeCorrect, PTL DEF Spec, TInv

-----------------------------------------------------------------------------
(* Point-in-time completeness when all evidence is documents.  The build   *)
(* refuses an interval that promises a body Bronze does not hold, so what  *)
(* it collects is full: nothing received by its end is missing from it,    *)
(* durable or not.  Fullness then follows the evidence through the pointer *)
(* or the local manifest into a certified action run and into the label.   *)
(*                                                                         *)
(* The delicate step is a load without prepared evidence: the task has     *)
(* concluded from an older reading of the label that its day needs no      *)
(* closure.  Only the epoch owner moves the label, so that reading still   *)
(* stands after the load, and the unprepared evidence is never applied.    *)

Full(acts, end) == FiledBy(Action, end) \subseteq acts

LabelFull ==
    contract.status = "CERTIFIED" =>
        contract.end = lastPrice /\ Full(contract.acts, contract.end)

PointerFull == Full(pointer.acts, pointer.end)

SnapshotsFull ==
    \A e \in Day : snapshots[e] # NoSnapshot => Full(snapshots[e], e)

PreparedFull ==
    \A t \in Task : task[t].pc \in {"publish", "apply", "mark", "certify"} =>
        Full(task[t].acts, task[t].end)

ReadyStands ==
    \A t \in Task :
        /\ epochLock = t
        /\ task[t].pc \in {"collect", "plan"}
        /\ task[t].ready
        /\ ~task[t].changed
        => Ready

LoadPrepared ==
    \A t \in Task :
        /\ epochLock = t
        /\ task[t].pc = "load"
        /\ task[t].kind = "daily" \/ Final(t)
        => Full(task[t].acts, task[t].end) \/ (Ready /\ Quiet(t))

FullInv ==
    /\ LabelFull
    /\ PointerFull
    /\ SnapshotsFull
    /\ PreparedFull
    /\ ReadyStands
    /\ LoadPrepared

LEMMA FullInit == Init => FullInv
<1> SUFFICES ASSUME Init PROVE FullInv
  OBVIOUS
<1>1. 0 \in Day /\ \A acts : Full(acts, 0)
  BY EpochConstants DEF Day, Full, FiledBy
<1>2. \A e \in Day : snapshots[e] # NoSnapshot => e = 0 /\ snapshots[e] = {}
  BY <1>1 DEF Init
<1>3. QED
  BY <1>1, <1>2 DEF Init, Idle, FullInv, LabelFull, PointerFull,
     SnapshotsFull, PreparedFull, ReadyStands, LoadPrepared

(* Evidence that reaches a later day is full for every earlier one.        *)
LEMMA FullEarlier ==
    ASSUME NEW acts, NEW d \in Day, NEW e \in Day \cup {Null}, d <= e,
           Full(acts, e)
    PROVE  Full(acts, d)
<1> SUFFICES ASSUME NEW a \in Action, Filed[a] <= d PROVE a \in acts
  BY DEF Full, FiledBy
<1>1. Filed[a] \in Int /\ d \in Int /\ e \in Int
  BY EpochConstants DEF Day, Null
<1>2. Filed[a] <= e
  BY <1>1
<1>3. QED
  BY <1>2 DEF Full, FiledBy

(* What a build collects is full.                                          *)
LEMMA BuildFull ==
    ASSUME TypeOK, Documented = Action, NEW end \in Day \cup {Null},
           Buildable(end)
    PROVE  Full(Evidence(end), end)
<1>1. PICK d \in Complete : end <= d
  BY DEF Buildable
<1>2. FiledBy(FiledBy(Action, d), end) \subseteq bronze
  BY <1>1 DEF Buildable
<1>3. ASSUME NEW a \in Action, Filed[a] <= end PROVE a \in Evidence(end)
  <2>1. Filed[a] \in Int /\ d \in Int /\ end \in Int
    BY <1>1, EpochConstants DEF TypeOK, Complete, Day, Null
  <2>2. Filed[a] <= d
    BY <1>1, <1>3, <2>1
  <2>3. QED
    BY <1>2, <1>3, <2>2 DEF FiledBy, Evidence
<1>4. QED
  BY <1>3 DEF Full, FiledBy

(* A step of one task leaves the readings of the others alone: only the    *)
(* owner of the epoch moves the label and the prices.                      *)
LEMMA FullStep ==
    ASSUME TInv, FullInv, Documented = Action, NEW t \in Task, Step(t)
    PROVE  FullInv'
<1>0. /\ task \in [Task -> Program]
      /\ task[t] \in Program
      /\ contract \in Contract
      /\ lastPrice \in Day
      /\ NoTask \notin Task
  BY EpochConstants DEF TInv, TypeOK
<1>1. CASE Guard(t)
  BY <1>0, <1>1
  DEF Guard, At, Ready, Full, Final, Quiet, FullInv, LabelFull, PointerFull,
      SnapshotsFull, PreparedFull, ReadyStands, LoadPrepared, silver, Program
<1>2. ASSUME NEW o \in Object, Put(t, o) PROVE FullInv'
  BY <1>0, <1>2
  DEF Put, At, Demoted, Ready, Full, Final, Quiet, FullInv, LabelFull,
      PointerFull, SnapshotsFull, PreparedFull, ReadyStands, LoadPrepared,
      silver, Program, Contract
<1>3. CASE CloseWriter(t)
  BY <1>0, <1>3
  DEF CloseWriter, Go, At, Ready, Full, Final, Quiet, FullInv, LabelFull,
      PointerFull, SnapshotsFull, PreparedFull, ReadyStands, LoadPrepared,
      silver, Program
<1>4. ASSUME NEW refiled \in BOOLEAN, Plan(t, refiled) PROVE FullInv'
  BY <1>0, <1>4
  DEF Plan, At, Ready, Full, Final, Quiet, FullInv, LabelFull,
      PointerFull, SnapshotsFull, PreparedFull, ReadyStands, LoadPrepared,
      silver, Program
<1>5. CASE Build(t)
  <2>1. Full(Evidence(task[t].end), task[t].end)
    BY <1>0, <1>5, BuildFull DEF Build, Program, TInv
  <2>2. QED
    BY <1>0, <1>5, <2>1
    DEF Build, At, Ready, Full, Final, Quiet, FullInv, LabelFull,
        PointerFull, SnapshotsFull, PreparedFull, ReadyStands, LoadPrepared,
        silver, Program
<1>6. CASE Publish(t)
  BY <1>0, <1>6
  DEF Publish, Go, Exit, At, Idle, Ready, Full, Final, Quiet, FullInv,
      LabelFull, PointerFull, SnapshotsFull, PreparedFull, ReadyStands,
      LoadPrepared, silver, Program
<1>7. CASE Restore(t)
  BY <1>0, <1>7
  DEF Restore, At, Ready, Full, Final, Quiet, FullInv, LabelFull,
      PointerFull, SnapshotsFull, PreparedFull, ReadyStands, LoadPrepared,
      silver, Program
<1>8. CASE SkipDay(t)
  BY <1>0, <1>8
  DEF SkipDay, AfterLoad, Go, At, Ready, Full, Final, Quiet, FullInv,
      LabelFull, PointerFull, SnapshotsFull, PreparedFull, ReadyStands,
      LoadPrepared, silver, Program
<1>9. ASSUME NEW touched \in BOOLEAN, LoadDay(t, touched) PROVE FullInv'
  BY <1>0, <1>9
  DEF LoadDay, AfterLoad, Go, At, Demoted, Ready, Full, Final, Quiet, FullInv,
      LabelFull, PointerFull, SnapshotsFull, PreparedFull, ReadyStands,
      LoadPrepared, Program, Contract
<1>10. CASE Apply(t)
  <2>1. SnapshotsFull'
    <3> SUFFICES ASSUME NEW e \in Day, snapshots'[e] # NoSnapshot
                 PROVE  Full(snapshots'[e], e)
      BY DEF SnapshotsFull, Full, FiledBy
    <3>1. CASE e <= task[t].end
      <4>1. snapshots'[e] = task[t].acts /\ Full(task[t].acts, task[t].end)
        BY <1>10, <3>1 DEF Apply, At, FullInv, PreparedFull
      <4>2. QED
        BY <1>0, <3>1, <4>1, FullEarlier DEF Program
    <3>2. CASE ~(e <= task[t].end)
      BY <1>10, <3>2 DEF Apply, FullInv, SnapshotsFull
    <3>3. QED
      BY <3>1, <3>2
  <2>2. QED
    BY <1>0, <1>10, <2>1
    DEF Apply, Go, At, Demoted, Ready, Full, Final, Quiet, FullInv, LabelFull,
        PointerFull, PreparedFull, ReadyStands, LoadPrepared, silver, Program,
        Contract
<1>11. CASE Mark(t)
  BY <1>0, <1>11
  DEF Mark, Go, At, Ready, Full, Final, Quiet, FullInv, LabelFull,
      PointerFull, SnapshotsFull, PreparedFull, ReadyStands, LoadPrepared,
      silver, Program, Contract
<1>12. CASE Certify(t)
  BY <1>0, <1>12
  DEF Certify, Rebuilt, At, Ready, Full, Final, Quiet, FullInv, LabelFull,
      PointerFull, SnapshotsFull, PreparedFull, ReadyStands, LoadPrepared,
      silver, Program
<1>13. CASE NextDay(t)
  BY <1>0, <1>13
  DEF NextDay, Exit, At, Idle, Ready, Full, Final, Quiet, FullInv, LabelFull,
      PointerFull, SnapshotsFull, PreparedFull, ReadyStands, LoadPrepared,
      silver, Program
<1>14. CASE Raise(t)
  BY <1>0, <1>14
  DEF Raise, Exit, Idle, Ready, Full, Final, Quiet, FullInv, LabelFull,
      PointerFull, SnapshotsFull, PreparedFull, ReadyStands, LoadPrepared,
      silver, Program
<1>15. CASE FailOnLostSession(t)
  BY <1>0, <1>15
  DEF FailOnLostSession, Idle, Ready, Full, Final, Quiet, FullInv, LabelFull,
      PointerFull, SnapshotsFull, PreparedFull, ReadyStands, LoadPrepared,
      silver, Program
<1>16. QED
  BY <1>1, <1>2, <1>3, <1>4, <1>5, <1>6, <1>7, <1>8, <1>9, <1>10, <1>11,
     <1>12, <1>13, <1>14, <1>15 DEF Step

(* Every launch starts a program at its guard or, for dart-extras, at the  *)
(* build.                                                                  *)
Launchable(program) ==
    /\ program.pc \in {"guard", "build"}
    /\ program.kind \in Kinds
    /\ program.kind = "daily" => program.pc = "guard"
    /\ program.kind = "extras" =>
         program.pc = "build" /\ program.stage = "current"

LEMMA Launched ==
    ASSUME NEW t \in Task, Launches(t)
    PROVE  \E program : Launch(t, program) /\ Launchable(program)
<1>1. CASE LaunchDaily(t)
  <2>1. PICK p : p = [Idle EXCEPT !.pc = "guard", !.kind = "daily",
                                  !.day = today, !.last = today]
    OBVIOUS
  <2>2. Launch(t, p) /\ "daily" \in Kinds
    BY <1>1, <2>1 DEF LaunchDaily
  <2>3. Launchable(p)
    BY <2>1, <2>2 DEF Idle, Launchable
  <2>4. QED
    BY <2>2, <2>3
<1>2. ASSUME NEW from \in Day, NEW to \in Day, LaunchGap(t, from, to)
      PROVE  \E program : Launch(t, program) /\ Launchable(program)
  <2>1. PICK p : p = [Idle EXCEPT !.pc = "guard", !.kind = "gap", !.day = from,
                                  !.last = to, !.fresh = Ready]
    OBVIOUS
  <2>2. Launch(t, p) /\ "gap" \in Kinds
    BY <1>2, <2>1 DEF LaunchGap
  <2>3. Launchable(p)
    BY <2>1, <2>2 DEF Idle, Launchable
  <2>4. QED
    BY <2>2, <2>3
<1>3. ASSUME NEW end \in Day, LaunchExtras(t, end)
      PROVE  \E program : Launch(t, program) /\ Launchable(program)
  <2>1. PICK p : p = [Idle EXCEPT !.pc = "build", !.kind = "extras",
                !.day = end, !.last = end, !.stage = "current", !.end = end]
    OBVIOUS
  <2>2. Launch(t, p) /\ "extras" \in Kinds
    BY <1>3, <2>1 DEF LaunchExtras
  <2>3. Launchable(p)
    BY <2>1, <2>2 DEF Idle, Launchable
  <2>4. QED
    BY <2>2, <2>3
<1>4. QED
  BY <1>1, <1>2, <1>3 DEF Launches

LEMMA FullNext ==
    ASSUME TInv, FullInv, Documented = Action, [Next]_vars
    PROVE  FullInv'
<1>0. /\ task \in [Task -> Program]
      /\ NoTask \notin Task
  BY EpochConstants DEF TInv, TypeOK
<1>1. ASSUME NEW t \in Task, Launches(t) PROVE FullInv'
  <2>1. PICK program : Launch(t, program) /\ Launchable(program)
    BY <1>1, Launched
  <2>2. epochLock' = t /\ task'[t].pc \in {"guard", "build"}
    BY <1>0, <2>1 DEF Launch, Launchable
  <2>3. \A u \in Task \ {t} : task'[u] = task[u]
    BY <1>0, <2>1 DEF Launch
  <2>4. UNCHANGED <<lastPrice, snapshots, pointer, contract>>
    BY <2>1 DEF Launch, silver
  <2>5. QED
    BY <2>2, <2>3, <2>4
    DEF Full, FullInv, LabelFull, PointerFull, SnapshotsFull, PreparedFull,
        ReadyStands, LoadPrepared
<1>2. ASSUME NEW t \in Task, Step(t) PROVE FullInv'
  BY <1>2, FullStep
<1>3. CASE UNCHANGED <<epochLock, silver, snapshots, pointer, contract, task>>
  BY <1>3
  DEF Ready, Full, Final, Quiet, FullInv, LabelFull, PointerFull,
      SnapshotsFull, PreparedFull, ReadyStands, LoadPrepared, silver
<1>4. ASSUME NEW t \in Task, Stop(t) PROVE FullInv'
  BY <1>0, <1>4
  DEF Stop, Exit, Idle, Ready, Full, Final, Quiet, FullInv, LabelFull,
      PointerFull, SnapshotsFull, PreparedFull, ReadyStands, LoadPrepared,
      silver
<1>5. ASSUME NEW t \in Task, LoseSession(t) PROVE FullInv'
  BY <1>0, <1>5
  DEF LoseSession, Ready, Full, Final, Quiet, FullInv, LabelFull,
      PointerFull, SnapshotsFull, PreparedFull, ReadyStands, LoadPrepared,
      silver
<1>6. ASSUME NEW t \in Task, NEW o \in Object, Land(t, o) PROVE FullInv'
  BY <1>3, <1>6 DEF Land
<1>7. QED
  BY <1>1, <1>2, <1>3, <1>4, <1>5, <1>6 DEF Next, Tick, vars

LEMMA FullAlways == Documented = Action /\ Spec => [](TInv /\ FullInv)
<1>1. Init => FullInv
  BY FullInit
<1>2. Documented = Action /\ TInv /\ FullInv /\ [Next]_vars => FullInv'
  BY FullNext
<1>3. Spec => []TInv
  BY TypeCorrect DEF TInv
<1>4. Documented = Action => [](Documented = Action)
  OBVIOUS
<1>5. QED
  BY <1>1, <1>2, <1>3, <1>4, PTL DEF Spec

(* With document evidence a CERTIFIED label has seen every disclosure      *)
(* received by the end of its coverage, for any number of tasks, entry     *)
(* points, stops and lost sessions.                                        *)
THEOREM PointInTime == Documented = Action /\ Spec => []PointInTimeComplete
<1>1. TInv /\ FullInv => PointInTimeComplete
  BY DEF TInv, TypeOK, FullInv, LabelFull, Full, FiledBy, PointInTimeComplete
<1>2. QED
  BY <1>1, FullAlways, PTL

-----------------------------------------------------------------------------
(* The calendar guard.  What the daily task has checked under the epoch    *)
(* stays true until its load: the target is the only session that is       *)
(* pending, so publishing it steps over nothing.                           *)

KindsOK ==
    \A t \in Task :
        task[t].pc # "idle" =>
            /\ task[t].kind \in Kinds
            /\ task[t].kind = "extras" =>
                 /\ task[t].stage = "current"
                 /\ task[t].pc \in {"build", "publish", "apply", "mark",
                                    "certify", "next"}

TargetOnly ==
    \A t \in Task :
        epochLock = t /\ task[t].kind = "daily" /\ task[t].pc \notin {"idle", "guard"}
        => AtMostOne(Pending(task[t].day))

SkipInv == KindsOK /\ TargetOnly

LEMMA SkipStep ==
    ASSUME TInv, SkipInv, NEW t \in Task, Step(t)
    PROVE  SkipInv'
<1>0. /\ task \in [Task -> Program]
      /\ task[t] \in Program
      /\ NoTask \notin Task
      /\ "none" \notin Kinds
  BY EpochConstants DEF TInv, TypeOK
<1>1. CASE Guard(t)
  BY <1>0, <1>1
  DEF Guard, At, SkipInv, KindsOK, TargetOnly, AtMostOne, Pending, silver, Program
<1>2. ASSUME NEW o \in Object, Put(t, o) PROVE SkipInv'
  BY <1>0, <1>2
  DEF Put, At, SkipInv, KindsOK, TargetOnly, AtMostOne, Pending, silver, Program
<1>3. CASE CloseWriter(t)
  BY <1>0, <1>3
  DEF CloseWriter, Go, At, SkipInv, KindsOK, TargetOnly, AtMostOne, Pending, silver, Program
<1>4. ASSUME NEW refiled \in BOOLEAN, Plan(t, refiled) PROVE SkipInv'
  BY <1>0, <1>4
  DEF Plan, At, SkipInv, KindsOK, TargetOnly, AtMostOne, Pending, silver, Program
<1>5. CASE Build(t)
  BY <1>0, <1>5
  DEF Build, At, SkipInv, KindsOK, TargetOnly, AtMostOne, Pending, silver, Program
<1>6. CASE Publish(t)
  BY <1>0, <1>6
  DEF Publish, Go, Exit, Idle, At, SkipInv, KindsOK, TargetOnly, AtMostOne,
      Pending, silver, Program
<1>7. CASE Restore(t)
  BY <1>0, <1>7
  DEF Restore, At, SkipInv, KindsOK, TargetOnly, AtMostOne, Pending, silver, Program
<1>8. CASE SkipDay(t)
  BY <1>0, <1>8
  DEF SkipDay, AfterLoad, Go, At, SkipInv, KindsOK, TargetOnly, AtMostOne,
      Pending, silver, Program
<1>9. ASSUME NEW touched \in BOOLEAN, LoadDay(t, touched) PROVE SkipInv'
  <2>1. lastPrice \in Int /\ lastPrice' \in Int /\ lastPrice <= lastPrice'
    BY <1>0, <1>9, EpochConstants DEF LoadDay, TInv, TypeOK, Program, Day
  <2>2. /\ task'[t].kind = task[t].kind /\ task'[t].day = task[t].day
        /\ task'[t].stage = task[t].stage
        /\ task'[t].pc \in {"apply", "next"}
        /\ task[t].pc = "load" /\ epochLock = t /\ epochLock' = epochLock
        /\ \A u \in Task \ {t} : task'[u] = task[u]
    BY <1>0, <1>9 DEF LoadDay, AfterLoad, Go, At, Program
  <2>3. KindsOK'
    BY <2>2 DEF SkipInv, KindsOK
  <2>4. TargetOnly'
    <3> SUFFICES ASSUME task[t].kind = "daily"
                 PROVE  AtMostOne(Pending(task[t].day))'
      BY <2>2 DEF TargetOnly
    <3>1. AtMostOne(Pending(task[t].day))
      BY <2>2 DEF SkipInv, TargetOnly
    <3>2. {s \in Session : lastPrice' < s /\ s <= task'[t].day}
            \subseteq Pending(task[t].day)
      <4>1. ASSUME NEW x \in Session, lastPrice' < x PROVE lastPrice < x
        <5>1. x \in Int
          BY EpochConstants
        <5>2. QED
          BY <2>1, <4>1, <5>1
      <4>2. QED
        BY <2>2, <4>1 DEF Pending
    <3>3. QED
      BY <3>1, <3>2 DEF Pending, AtMostOne
  <2>5. QED
    BY <2>3, <2>4 DEF SkipInv
<1>10. CASE Apply(t)
  BY <1>0, <1>10
  DEF Apply, Go, At, SkipInv, KindsOK, TargetOnly, AtMostOne, Pending, silver, Program
<1>11. CASE Mark(t)
  BY <1>0, <1>11
  DEF Mark, Go, At, SkipInv, KindsOK, TargetOnly, AtMostOne, Pending, silver, Program
<1>12. CASE Certify(t)
  BY <1>0, <1>12
  DEF Certify, At, SkipInv, KindsOK, TargetOnly, AtMostOne, Pending, silver, Program
<1>13. CASE NextDay(t)
  BY <1>0, <1>13
  DEF NextDay, Exit, Idle, At, SkipInv, KindsOK, TargetOnly, AtMostOne,
      Pending, silver, Program
<1>14. CASE Raise(t)
  BY <1>0, <1>14
  DEF Raise, Exit, Idle, SkipInv, KindsOK, TargetOnly, AtMostOne, Pending, silver
<1>15. CASE FailOnLostSession(t)
  BY <1>0, <1>15
  DEF FailOnLostSession, Idle, SkipInv, KindsOK, TargetOnly, AtMostOne,
      Pending, silver, Program
<1>16. QED
  BY <1>1, <1>2, <1>3, <1>4, <1>5, <1>6, <1>7, <1>8, <1>9, <1>10, <1>11,
     <1>12, <1>13, <1>14, <1>15 DEF Step

LEMMA SkipNext == TInv /\ SkipInv /\ [Next]_vars => SkipInv'
<1> SUFFICES ASSUME TInv, SkipInv, [Next]_vars PROVE SkipInv'
  OBVIOUS
<1>0. /\ task \in [Task -> Program]
      /\ NoTask \notin Task
  BY EpochConstants DEF TInv, TypeOK
<1>1. ASSUME NEW t \in Task, Launches(t) PROVE SkipInv'
  <2>1. PICK program : Launch(t, program) /\ Launchable(program)
    BY <1>1, Launched
  <2>2. /\ epochLock = NoTask /\ epochLock' = t
        /\ task'[t] = program
        /\ \A u \in Task \ {t} : task'[u] = task[u]
        /\ lastPrice' = lastPrice
    BY <1>0, <2>1 DEF Launch, silver
  <2>3. Launchable(task'[t])
    BY <2>1, <2>2
  <2>4. QED
    BY <2>2, <2>3
    DEF Launchable, SkipInv, KindsOK, TargetOnly, AtMostOne, Pending
<1>2. ASSUME NEW t \in Task, Step(t) PROVE SkipInv'
  BY <1>2, SkipStep
<1>3. CASE UNCHANGED <<epochLock, silver, task>>
  BY <1>3 DEF SkipInv, KindsOK, TargetOnly, AtMostOne, Pending, silver
<1>4. ASSUME NEW t \in Task, Stop(t) \/ LoseSession(t) PROVE SkipInv'
  BY <1>0, <1>4
  DEF Stop, LoseSession, Exit, Idle, SkipInv, KindsOK, TargetOnly, AtMostOne,
      Pending, silver
<1>5. ASSUME NEW t \in Task, NEW o \in Object, Land(t, o) PROVE SkipInv'
  BY <1>3, <1>5 DEF Land
<1>6. QED
  BY <1>1, <1>2, <1>3, <1>4, <1>5 DEF Next, Tick, vars

LEMMA SkipAlways == Spec => [](TInv /\ SkipInv)
<1>1. Init => SkipInv
  BY EpochConstants DEF Init, Idle, SkipInv, KindsOK, TargetOnly
<1>2. Spec => []TInv
  BY TypeCorrect DEF TInv
<1>3. QED
  BY <1>1, <1>2, SkipNext, PTL DEF Spec

(* Only a load moves the prices, and what a daily load publishes is the    *)
(* one pending session.                                                    *)
LEMMA LoadKind ==
    ASSUME TInv, SkipInv, [Next]_vars, lastPrice' # lastPrice
    PROVE  \E t \in Task :
              /\ epochLock = t
              /\ task[t].kind \in Kinds \ {"extras"}
              /\ lastPrice' = task[t].day /\ lastPrice < lastPrice'
              /\ task[t].day \in Session
              /\ priced' = priced \cup {task[t].day}
              /\ task[t].kind = "daily" => AtMostOne(Pending(task[t].day))
<1>1. PICK t \in Task, touched \in BOOLEAN : LoadDay(t, touched)
  <2>1. ASSUME NEW t \in Task, Step(t)
        PROVE  \E touched \in BOOLEAN : LoadDay(t, touched)
    BY <2>1
    DEF Step, Guard, Put, CloseWriter, Plan, Build, Publish, Restore, SkipDay,
        Apply, Mark, Certify, NextDay, Raise, FailOnLostSession, silver
  <2>2. QED
    BY <2>1
    DEF Next, Tick, Launches, LaunchDaily, LaunchGap, LaunchExtras, Launch,
        Land, Stop, LoseSession, vars, silver
<1>2. /\ epochLock = t /\ task[t].pc = "load"
      /\ task[t].day \in Session /\ lastPrice < task[t].day
      /\ lastPrice' = task[t].day
      /\ priced' = priced \cup {task[t].day}
  BY <1>1 DEF LoadDay, At
<1>3. task[t].kind \in Kinds \ {"extras"}
  BY <1>2 DEF SkipInv, KindsOK
<1>4. task[t].kind = "daily" => AtMostOne(Pending(task[t].day))
  BY <1>2 DEF SkipInv, TargetOnly
<1>5. QED
  BY <1>2, <1>3, <1>4

(* Whatever tasks run, fail or lose their session: only a gap replay       *)
(* publishes prices across a trading session that has none.                *)
THEOREM DailyContiguous == Spec => DailyNeverSkips
<1>1. ASSUME TInv, SkipInv, [Next]_vars
      PROVE  [lastPrice' > lastPrice /\ Skips =>
                \E t \in Task : epochLock = t /\ task[t].kind = "gap"]_vars
  <2> SUFFICES ASSUME lastPrice' > lastPrice, Skips
               PROVE  \E t \in Task : epochLock = t /\ task[t].kind = "gap"
    OBVIOUS
  <2>0. lastPrice \in Int
    BY <1>1, EpochConstants DEF TInv, TypeOK, Day
  <2>1. lastPrice' # lastPrice
    <3>1. CASE lastPrice' = lastPrice
      BY <2>0, <3>1
    <3>2. QED
      BY <3>1
  <2>2. PICK t \in Task :
          /\ epochLock = t
          /\ task[t].kind \in Kinds \ {"extras"}
          /\ lastPrice' = task[t].day /\ lastPrice < lastPrice'
          /\ task[t].day \in Session
          /\ task[t].kind = "daily" => AtMostOne(Pending(task[t].day))
    BY <1>1, <2>1, LoadKind
  <2>3. CASE task[t].kind = "daily"
    <3>1. PICK s \in Session : lastPrice < s /\ s < task[t].day
      BY <2>2 DEF Skips
    <3>2. s \in Int /\ task[t].day \in Int
      <4>1. \A x \in Session : x \in Int
        BY EpochConstants
      <4>2. QED
        BY <2>2, <4>1
    <3>3. s \in Pending(task[t].day) /\ task[t].day \in Pending(task[t].day)
      BY <2>2, <3>1, <3>2 DEF Pending
    <3>4. s = task[t].day
      BY <2>2, <2>3, <3>3 DEF AtMostOne
    <3>5. QED
      BY <3>1, <3>2, <3>4
  <2>4. Kinds \ {"extras"} \subseteq {"daily", "gap"}
    BY EpochConstants
  <2>5. QED
    BY <2>2, <2>3, <2>4
<1>2. QED
  BY <1>1, SkipAlways, PTL DEF Spec, DailyNeverSkips

LEMMA PricedGrows ==
    ASSUME [Next]_vars
    PROVE  priced \subseteq priced'
<1>1. ASSUME NEW t \in Task, Step(t) PROVE priced \subseteq priced'
  BY <1>1
  DEF Step, Guard, Put, CloseWriter, Plan, Build, Publish, Restore, SkipDay,
      LoadDay, Apply, Mark, Certify, NextDay, Raise, FailOnLostSession, silver
<1>2. QED
  BY <1>1
  DEF Next, Tick, Launches, LaunchDaily, LaunchGap, LaunchExtras, Launch,
      Land, Stop, LoseSession, vars, silver

(* Without gap replays the certified prices have no hole.                  *)
THEOREM Contiguous == "gap" \notin Kinds /\ Spec => []NoSkippedSession
<1>1. Init => NoSkippedSession
  <2> SUFFICES ASSUME Init, NEW s \in Session, s <= lastPrice PROVE FALSE
    BY DEF NoSkippedSession
  <2>1. s \in Int /\ s >= 1
    BY EpochConstants
  <2>2. QED
    BY <2>1 DEF Init
<1>2. /\ "gap" \notin Kinds /\ TInv /\ SkipInv /\ NoSkippedSession
      /\ [Next]_vars
      => NoSkippedSession'
  <2> SUFFICES ASSUME "gap" \notin Kinds, TInv, SkipInv, NoSkippedSession,
                      [Next]_vars
               PROVE  NoSkippedSession'
    OBVIOUS
  <2>1. CASE lastPrice' = lastPrice
    BY <2>1, PricedGrows DEF NoSkippedSession
  <2>2. CASE lastPrice' # lastPrice
    <3>1. PICK t \in Task :
            /\ task[t].kind \in Kinds \ {"extras"}
            /\ lastPrice' = task[t].day /\ lastPrice < lastPrice'
            /\ task[t].day \in Session
            /\ priced' = priced \cup {task[t].day}
            /\ task[t].kind = "daily" => AtMostOne(Pending(task[t].day))
      BY <2>2, LoadKind
    <3>2. task[t].kind = "daily"
      <4>1. Kinds \ {"extras"} \subseteq {"daily"}
        BY EpochConstants
      <4>2. QED
        BY <3>1, <4>1
    <3>3. SUFFICES ASSUME NEW s \in Session, s <= lastPrice'
                   PROVE  s \in priced'
      BY DEF NoSkippedSession
    <3>4. CASE s <= lastPrice
      BY <3>1, <3>4 DEF NoSkippedSession
    <3>5. CASE lastPrice < s
      <4>1. s \in Pending(task[t].day) /\ task[t].day \in Pending(task[t].day)
        <5>1. task[t].day \in Int
          <6>1. \A x \in Session : x \in Int
            BY EpochConstants
          <6>2. QED
            BY <3>1, <6>1
        <5>2. QED
          BY <3>1, <3>3, <3>5, <5>1 DEF Pending
      <4>2. QED
        BY <3>1, <3>2, <4>1 DEF AtMostOne
    <3>6. s \in Int /\ lastPrice \in Int
      BY EpochConstants DEF TInv, TypeOK, Day
    <3>7. QED
      BY <3>4, <3>5, <3>6
  <2>3. QED
    BY <2>1, <2>2
<1>3. "gap" \notin Kinds => []("gap" \notin Kinds)
  OBVIOUS
<1>4. QED
  BY <1>1, <1>2, <1>3, SkipAlways, PTL DEF Spec

-----------------------------------------------------------------------------
(* While sessions survive, a scheduled PUT belongs to the collecting owner *)
(* of the epoch, whose first PUT has demoted the label.                    *)

Fenced ==
    \A t \in Task :
        /\ task[t].pc # "idle" => epochLock = t
        /\ task[t].changed /\ task[t].pc = "collect" =>
              contract.status = "BUILDING"
        /\ inflight[t] # {} => task[t].pc = "collect" /\ task[t].changed

LEMMA FencedStep ==
    ASSUME TInv, Fenced, ~SessionLoss, NEW t \in Task, Step(t)
    PROVE  Fenced'
<1>0. /\ task \in [Task -> Program]
      /\ task[t] \in Program
      /\ contract \in Contract
      /\ inflight \in [Task -> SUBSET Object]
      /\ NoTask \notin Task
  BY EpochConstants DEF TInv, TypeOK
<1>1. CASE Guard(t)
  BY <1>0, <1>1 DEF Guard, At, Fenced, Program
<1>2. ASSUME NEW o \in Object, Put(t, o) PROVE Fenced'
  BY <1>0, <1>2 DEF Put, At, Demoted, Fenced, Program, Contract
<1>3. CASE CloseWriter(t)
  BY <1>0, <1>3 DEF CloseWriter, Go, At, Fenced, Program
<1>4. ASSUME NEW refiled \in BOOLEAN, Plan(t, refiled) PROVE Fenced'
  BY <1>0, <1>4 DEF Plan, At, Fenced, Program
<1>5. CASE Build(t)
  BY <1>0, <1>5 DEF Build, At, Fenced, Program
<1>6. CASE Publish(t)
  BY <1>0, <1>6 DEF Publish, Go, Exit, Idle, At, Fenced, Program
<1>7. CASE Restore(t)
  BY <1>0, <1>7 DEF Restore, At, Fenced, Program
<1>8. CASE SkipDay(t)
  BY <1>0, <1>8 DEF SkipDay, AfterLoad, Go, At, Fenced, Program
<1>9. ASSUME NEW touched \in BOOLEAN, LoadDay(t, touched) PROVE Fenced'
  BY <1>0, <1>9 DEF LoadDay, AfterLoad, Go, At, Demoted, Fenced, Program, Contract
<1>10. CASE Apply(t) \/ Mark(t)
  BY <1>0, <1>10 DEF Apply, Mark, Go, At, Demoted, Fenced, Program, Contract
<1>11. CASE Certify(t)
  BY <1>0, <1>11 DEF Certify, At, Fenced, Program
<1>12. CASE NextDay(t)
  BY <1>0, <1>12 DEF NextDay, Exit, Idle, At, Fenced, Program
<1>13. CASE Raise(t)
  BY <1>0, <1>13 DEF Raise, Refused, Exit, Idle, At, Fenced, Program
<1>14. CASE FailOnLostSession(t)
  BY <1>14 DEF FailOnLostSession, Fenced
<1>15. QED
  BY <1>1, <1>2, <1>3, <1>4, <1>5, <1>6, <1>7, <1>8, <1>9, <1>10, <1>11,
     <1>12, <1>13, <1>14 DEF Step

LEMMA FencedNext == ~SessionLoss /\ TInv /\ Fenced /\ [Next]_vars => Fenced'
<1> SUFFICES ASSUME ~SessionLoss, TInv, Fenced, [Next]_vars PROVE Fenced'
  OBVIOUS
<1>0. /\ task \in [Task -> Program]
      /\ contract \in Contract
      /\ inflight \in [Task -> SUBSET Object]
      /\ NoTask \notin Task
  BY EpochConstants DEF TInv, TypeOK
<1>1. ASSUME NEW t \in Task, Launches(t) PROVE Fenced'
  <2>1. PICK program : Launch(t, program) /\ Launchable(program)
    BY <1>1, Launched
  <2>2. QED
    BY <1>0, <2>1 DEF Launch, Launchable, Fenced
<1>2. ASSUME NEW t \in Task, Step(t) PROVE Fenced'
  BY <1>2, FencedStep
<1>3. ASSUME NEW t \in Task, NEW o \in Object, Land(t, o) PROVE Fenced'
  BY <1>0, <1>3 DEF Land, Fenced
<1>4. ASSUME NEW t \in Task, Stop(t) \/ LoseSession(t) PROVE Fenced'
  BY <1>0, <1>4 DEF Stop, LoseSession, Exit, Idle, Fenced
<1>5. CASE Tick \/ UNCHANGED vars
  BY <1>5 DEF Tick, vars, Fenced
<1>6. QED
  BY <1>1, <1>2, <1>3, <1>4, <1>5 DEF Next

(* No action evidence becomes visible under a CERTIFIED label, as long as  *)
(* the PostgreSQL session that owns the epoch lives as long as its task.   *)
THEOREM DemotedFirst == ~SessionLoss /\ Spec => DemoteBeforeVisible
<1>1. Init => Fenced
  BY DEF Init, Idle, Fenced
<1>2. TInv /\ Fenced /\ [Next]_vars =>
         [bronze' # bronze => contract.status = "BUILDING"]_vars
  <2> SUFFICES ASSUME TInv, Fenced, [Next]_vars, bronze' # bronze
               PROVE  contract.status = "BUILDING"
    OBVIOUS
  <2>1. PICK t \in Task, o \in Object : Land(t, o)
    <3>1. ASSUME NEW t \in Task, Step(t) PROVE bronze' = bronze
      BY <3>1
      DEF Step, Guard, Put, CloseWriter, Plan, Build, Publish, Restore,
          SkipDay, LoadDay, Apply, Mark, Certify, NextDay, Raise,
          FailOnLostSession, objects
    <3>2. QED
      BY <3>1
      DEF Next, Tick, Launches, LaunchDaily, LaunchGap, LaunchExtras, Launch,
          Stop, LoseSession, vars, objects
  <2>2. QED
    BY <2>1 DEF Land, Fenced
<1>3. ~SessionLoss => [](~SessionLoss)
  OBVIOUS
<1>4. Spec => []TInv
  BY TypeCorrect DEF TInv
<1>5. QED
  BY <1>1, <1>2, <1>3, <1>4, FencedNext, PTL DEF Spec, DemoteBeforeVisible

-----------------------------------------------------------------------------
(* Point-in-time completeness for structured evidence too.  No build       *)
(* notices a row whose body was lost behind a durable marker, and a later  *)
(* window may collect it after all: evidence that has left the row out is  *)
(* then stale.  It is never applied while sessions survive and no replay   *)
(* is around.  What a task builds it has built in its own epoch, and what  *)
(* it restores is the pointer of its own target day; bodies land only in   *)
(* collections of a day beyond the pointer, and a daily task never turns   *)
(* back to a day that such a collection has passed.                        *)

Daily(t) == task[t].pc # "idle" /\ task[t].kind = "daily"

Seen(acts, end) == FiledBy(bronze, end) \subseteq acts

LabelSeen ==
    contract.status = "CERTIFIED" =>
        contract.end = lastPrice /\ Seen(contract.acts, contract.end)

(* A stale pointer lies before every day that can still be targeted.       *)
PointerSeen ==
    \/ Seen(pointer.acts, pointer.end)
    \/ /\ pointer.end < today
       /\ \A t \in Task : Daily(t) => pointer.end < task[t].day

TargetNewest ==
    /\ lastPrice <= today
    /\ \A d \in Complete : d <= today
    /\ \A t \in Task : Daily(t) =>
          /\ lastPrice <= task[t].day
          /\ task[t].day <= today
          /\ task[t].day = task[t].last
          /\ \A d \in Complete : d <= task[t].day

(* The pointer reaches no further than a complete collection, so a task    *)
(* that collects a body collects for a day beyond the pointer.             *)
PointerCollected ==
    /\ \E d \in Complete : pointer.end <= d
    /\ \A t \in Task :
        task[t].pc = "publish" => \E d \in Complete : task[t].end <= d

BodiesBeyond ==
    \A t \in Task :
        /\ task[t].pc = "collect"
        /\ \/ inflight[t] \cap Action # {}
           \/ ~({"listing", "marker"} \subseteq task[t].known)
        => pointer.end < task[t].day

HeldSeen ==
    \A t \in Task :
        /\ task[t].pc \in {"publish", "load", "apply", "mark", "certify"} =>
              Seen(task[t].acts, task[t].end)
        /\ task[t].pc \in {"mark", "certify"} =>
              snapshots[lastPrice] = task[t].acts

(* What a task is about to apply reaches the prices.                       *)
Reaches ==
    \A t \in Task :
        /\ \/ task[t].pc \in {"apply", "mark", "certify"}
           \/ task[t].pc = "build" /\ task[t].stage = "inherited"
           => lastPrice <= task[t].end
        /\ Daily(t) =>
            /\ task[t].pc = "publish" => task[t].end = task[t].day
            /\ task[t].pc = "build" /\ task[t].stage # "inherited" =>
                  task[t].end = task[t].day
        /\ task[t].pc = "load" => task[t].end = task[t].day

SeenInv ==
    /\ LabelSeen
    /\ PointerSeen
    /\ TargetNewest
    /\ PointerCollected
    /\ BodiesBeyond
    /\ HeldSeen
    /\ Reaches

LEMMA SeenInit == Init => SeenInv
<1> SUFFICES ASSUME Init PROVE SeenInv
  OBVIOUS
<1>1. 0 \in Day /\ \A acts : Seen(acts, 0)
  BY EpochConstants DEF Init, Day, Seen, FiledBy
<1>2. Complete = {0}
  BY DEF Init, Complete
<1>3. LabelSeen /\ PointerSeen
  BY <1>1 DEF Init, LabelSeen, PointerSeen
<1>4. TargetNewest /\ PointerCollected
  BY <1>2 DEF Init, Idle, Daily, TargetNewest, PointerCollected
<1>5. BodiesBeyond /\ HeldSeen /\ Reaches
  BY DEF Init, Idle, Daily, BodiesBeyond, HeldSeen, Reaches
<1>6. QED
  BY <1>3, <1>4, <1>5 DEF SeenInv

(* While sessions survive, the owner of the epoch is the only live task.   *)
Alone ==
    /\ "gap" \notin Kinds
    /\ TInv /\ KindsOK /\ Fenced

(* What a step of the owner leaves alone is as it was for everyone else.   *)
LEMMA OwnerOnly ==
    ASSUME Alone, NEW t \in Task, epochLock = t
    PROVE  /\ \A u \in Task \ {t} : task[u].pc = "idle"
           /\ task[t].pc # "idle" => task[t].kind \in {"daily", "extras"}
           /\ task[t].pc # "idle" /\ task[t].kind = "extras" =>
                /\ task[t].stage = "current"
                /\ task[t].pc \in {"build", "publish", "apply", "mark",
                                   "certify", "next"}
BY EpochConstants DEF Alone, Fenced, KindsOK


LEMMA SeenEarlier ==
    ASSUME TypeOK, NEW acts, NEW d \in Int, NEW e \in Int, d <= e,
           Seen(acts, e)
    PROVE  Seen(acts, d)
<1> SUFFICES ASSUME NEW a \in bronze, Filed[a] <= d PROVE a \in acts
  BY DEF Seen, FiledBy
<1>1. Filed[a] \in Int
  BY EpochConstants DEF TypeOK
<1>2. Filed[a] <= e
  BY <1>1
<1>3. QED
  BY <1>2 DEF Seen, FiledBy

LEMMA SeenStep ==
    ASSUME Alone, SeenInv, NEW t \in Task, Step(t)
    PROVE  SeenInv'
<1>0. /\ task \in [Task -> Program]
      /\ task[t] \in Program
      /\ contract \in Contract
      /\ lastPrice \in Int /\ today \in Int
      /\ pointer.end \in Int /\ task[t].day \in Int /\ task[t].end \in Int
      /\ Complete \subseteq Int
      /\ epochLock = t /\ task[t].pc # "idle"
      /\ NoTask \notin Task
  <2>1. TypeOK /\ Day \subseteq Int /\ Null \in Int
    BY EpochConstants DEF Alone, TInv, Day, Null
  <2>2. task[t] \in Program
    BY <2>1 DEF TypeOK
  <2>3. epochLock = t /\ task[t].pc # "idle"
    BY <2>2
    DEF Alone, Fenced, Step, Guard, Put, CloseWriter, Plan, Build, Publish,
        Restore, SkipDay, LoadDay, Apply, Mark, Certify, NextDay, Raise,
        Refused, FailOnLostSession, At
  <2>4. QED
    BY <2>1, <2>2, <2>3, EpochConstants
    DEF TypeOK, Complete, Program, Contract
<1>a. /\ \A u \in Task \ {t} : task[u].pc = "idle"
      /\ task[t].kind \in {"daily", "extras"}
      /\ task[t].kind = "extras" =>
           /\ task[t].stage = "current"
           /\ task[t].pc \in {"build", "publish", "apply", "mark", "certify", "next"}
  BY <1>0, OwnerOnly
<1>1. CASE Guard(t)
  BY <1>0, <1>a, <1>1, SMTT(60)
  DEF Guard, At, Daily, Final, SeenInv, LabelSeen, PointerSeen, TargetNewest,
      PointerCollected, BodiesBeyond, HeldSeen, Reaches, Seen, Complete, FiledBy,
      objects, silver, Program
<1>2. ASSUME NEW o \in Object, Put(t, o) PROVE SeenInv'
  BY <1>0, <1>a, <1>2, SMTT(60)
  DEF Put, At, Demoted, Contract, Wanted, Daily, Final, SeenInv, LabelSeen, PointerSeen, TargetNewest,
      PointerCollected, BodiesBeyond, HeldSeen, Reaches, Seen, Complete, FiledBy,
      objects, silver, Program
<1>3. CASE CloseWriter(t)
  BY <1>0, <1>a, <1>3, SMTT(60)
  DEF CloseWriter, Go, At, Daily, Final, SeenInv, LabelSeen, PointerSeen, TargetNewest,
      PointerCollected, BodiesBeyond, HeldSeen, Reaches, Seen, Complete, FiledBy,
      objects, silver, Program
<1>4. ASSUME NEW refiled \in BOOLEAN, Plan(t, refiled) PROVE SeenInv'
  BY <1>0, <1>a, <1>4, SMTT(60)
  DEF Plan, At, Evidence, Daily, Final, SeenInv, LabelSeen, PointerSeen, TargetNewest,
      PointerCollected, BodiesBeyond, HeldSeen, Reaches, Seen, Complete, FiledBy,
      objects, silver, Program
<1>5. CASE Build(t)
  BY <1>0, <1>a, <1>5, SMTT(60)
  DEF Build, At, Buildable, Evidence, Daily, Final, SeenInv, LabelSeen, PointerSeen, TargetNewest,
      PointerCollected, BodiesBeyond, HeldSeen, Reaches, Seen, Complete, FiledBy,
      objects, silver, Program
<1>6. CASE Publish(t)
  BY <1>0, <1>a, <1>6, SMTT(60)
  DEF Publish, Go, Exit, At, Idle, Daily, Final, SeenInv, LabelSeen, PointerSeen, TargetNewest,
      PointerCollected, BodiesBeyond, HeldSeen, Reaches, Seen, Complete, FiledBy,
      objects, silver, Program
<1>7. CASE Restore(t)
  BY <1>0, <1>a, <1>7, SMTT(60)
  DEF Restore, Restorable, At, Daily, Final, SeenInv, LabelSeen, PointerSeen, TargetNewest,
      PointerCollected, BodiesBeyond, HeldSeen, Reaches, Seen, Complete, FiledBy,
      objects, silver, Program
<1>8. CASE SkipDay(t)
  BY <1>0, <1>a, <1>8, SMTT(60)
  DEF SkipDay, AfterLoad, Go, At, Daily, Final, SeenInv, LabelSeen, PointerSeen, TargetNewest,
      PointerCollected, BodiesBeyond, HeldSeen, Reaches, Seen, Complete, FiledBy,
      objects, silver, Program
<1>9. ASSUME NEW touched \in BOOLEAN, LoadDay(t, touched) PROVE SeenInv'
  BY <1>0, <1>a, <1>9, SMTT(60)
  DEF LoadDay, AfterLoad, Go, At, Demoted, Contract, Daily, Final, SeenInv, LabelSeen, PointerSeen, TargetNewest,
      PointerCollected, BodiesBeyond, HeldSeen, Reaches, Seen, Complete, FiledBy,
      objects, silver, Program
<1>10. CASE Apply(t)
  <2>1. lastPrice <= task[t].end /\ lastPrice \in Day
    BY <1>0, <1>10 DEF Apply, At, SeenInv, Reaches, Alone, TInv, TypeOK
  <2>2. snapshots'[lastPrice] = task[t].acts
    BY <1>10, <2>1 DEF Apply
  <2>3. /\ contract'.status = "BUILDING"
        /\ task'[t].acts = task[t].acts /\ task'[t].pc = "mark"
        /\ task'[t].end = task[t].end /\ task'[t].kind = task[t].kind
        /\ task'[t].day = task[t].day /\ task'[t].last = task[t].last
        /\ \A u \in Task \ {t} : task'[u] = task[u]
        /\ lastPrice' = lastPrice /\ task[t].pc = "apply"
    BY <1>0, <1>10 DEF Apply, Go, At, Demoted, Contract, Program, silver
  <2>4. UNCHANGED <<today, bronze, listed, collected, pointer, inflight>>
    BY <1>10 DEF Apply, objects
  <2>5. QED
    BY <1>0, <1>a, <2>1, <2>2, <2>3, <2>4
    DEF Daily, SeenInv, LabelSeen, PointerSeen, TargetNewest,
        PointerCollected, BodiesBeyond, HeldSeen, Reaches, Seen, Complete,
        FiledBy
<1>11. CASE Mark(t)
  BY <1>0, <1>a, <1>11, SMTT(60)
  DEF Mark, Go, At, Daily, Final, SeenInv, LabelSeen, PointerSeen, TargetNewest,
      PointerCollected, BodiesBeyond, HeldSeen, Reaches, Seen, Complete, FiledBy,
      objects, silver, Program
<1>12. CASE Certify(t)
  <2>1. lastPrice <= task[t].end /\ Seen(task[t].acts, task[t].end)
    BY <1>0, <1>12 DEF Certify, At, SeenInv, Reaches, HeldSeen
  <2>2. Seen(task[t].acts, lastPrice)
    BY <1>0, <2>1, SeenEarlier DEF Alone, TInv
  <2>3. snapshots[lastPrice] = task[t].acts
    BY <1>0, <1>12 DEF Certify, At, SeenInv, HeldSeen
  <2>4. UNCHANGED <<today, bronze, listed, collected, lastPrice, pointer,
                    snapshots, inflight>>
    BY <1>12 DEF Certify, objects, silver
  <2>5. LabelSeen'
    BY <1>12, <2>2, <2>3, <2>4
    DEF Certify, Rebuilt, LabelSeen, Seen, FiledBy
  <2>6. QED
    BY <1>0, <1>a, <1>12, <2>1, <2>4, <2>5
    DEF Certify, At, Daily, SeenInv, PointerSeen, TargetNewest,
        PointerCollected, BodiesBeyond, HeldSeen, Reaches, Seen, Complete,
        FiledBy, Program
<1>13. CASE NextDay(t)
  BY <1>0, <1>a, <1>13, SMTT(60)
  DEF NextDay, Exit, Idle, At, Daily, Final, SeenInv, LabelSeen, PointerSeen, TargetNewest,
      PointerCollected, BodiesBeyond, HeldSeen, Reaches, Seen, Complete, FiledBy,
      objects, silver, Program
<1>14. CASE Raise(t)
  BY <1>0, <1>a, <1>14, SMTT(60)
  DEF Raise, Exit, Idle, Daily, Final, SeenInv, LabelSeen, PointerSeen, TargetNewest,
      PointerCollected, BodiesBeyond, HeldSeen, Reaches, Seen, Complete, FiledBy,
      objects, silver, Program
<1>15. CASE FailOnLostSession(t)
  BY <1>0, <1>a, <1>15, SMTT(60)
  DEF FailOnLostSession, Daily, Final, SeenInv, LabelSeen, PointerSeen, TargetNewest,
      PointerCollected, BodiesBeyond, HeldSeen, Reaches, Seen, Complete, FiledBy,
      objects, silver, Program
<1>16. QED
  BY <1>1, <1>2, <1>3, <1>4, <1>5, <1>6, <1>7, <1>8, <1>9, <1>10, <1>11, <1>12, <1>13, <1>14, <1>15 DEF Step

LEMMA SeenNext ==
    ASSUME Alone, ~SessionLoss, SeenInv, [Next]_vars
    PROVE  SeenInv'
<1>0. /\ task \in [Task -> Program]
      /\ inflight \in [Task -> SUBSET Object]
      /\ lastPrice \in Int /\ today \in Int /\ pointer.end \in Int
      /\ Complete \subseteq Int
      /\ NoTask \notin Task
  <2>1. TypeOK /\ Day \subseteq Int /\ Null \in Int
    BY EpochConstants DEF Alone, TInv, Day, Null
  <2>2. QED
    BY <2>1, EpochConstants DEF TypeOK, Complete
<1>1. ASSUME NEW t \in Task, Launches(t) PROVE SeenInv'
  <2>1. PICK program : Launch(t, program) /\ Launchable(program)
    BY <1>1, Launched
  <2>2. /\ \A u \in Task : task[u].pc = "idle"
        /\ task' = [task EXCEPT ![t] = program]
        /\ UNCHANGED <<today, objects, silver, snapshots, pointer, contract,
                       inflight>>
    BY <1>0, <2>1 DEF Launch, Alone, Fenced
  <2>3. CASE LaunchDaily(t)
    <3>1. task'[t] = [Idle EXCEPT !.pc = "guard", !.kind = "daily",
                                  !.day = today, !.last = today]
      BY <1>0, <2>3 DEF LaunchDaily, Launch
    <3>2. /\ task'[t].pc = "guard" /\ task'[t].kind = "daily"
          /\ task'[t].day = today /\ task'[t].last = today
      BY <3>1 DEF Idle
    <3>3. QED
      BY <1>0, <2>2, <3>2
      DEF Daily, SeenInv, LabelSeen, PointerSeen, TargetNewest,
          PointerCollected, BodiesBeyond, HeldSeen, Reaches, Seen, Complete,
          FiledBy, objects, silver
  <2>4. ASSUME NEW end \in Day, LaunchExtras(t, end) PROVE SeenInv'
    <3>1. task'[t] = [Idle EXCEPT !.pc = "build", !.kind = "extras",
                !.day = end, !.last = end, !.stage = "current", !.end = end]
      BY <1>0, <2>4 DEF LaunchExtras, Launch
    <3>2. /\ task'[t].pc = "build" /\ task'[t].kind = "extras"
          /\ task'[t].stage = "current"
      BY <3>1 DEF Idle
    <3>3. QED
      BY <1>0, <2>2, <3>2
      DEF Daily, SeenInv, LabelSeen, PointerSeen, TargetNewest,
          PointerCollected, BodiesBeyond, HeldSeen, Reaches, Seen, Complete,
          FiledBy, objects, silver
  <2>5. QED
    BY <1>1, <2>3, <2>4 DEF Launches, LaunchGap, Alone
<1>2. ASSUME NEW t \in Task, Step(t) PROVE SeenInv'
  BY <1>2, SeenStep
<1>3. ASSUME NEW t \in Task, NEW o \in Object, Land(t, o) PROVE SeenInv'
  <2>1. /\ task[t].pc = "collect" /\ epochLock = t
        /\ contract.status = "BUILDING" /\ o \in inflight[t]
    BY <1>3 DEF Land, Alone, Fenced
  <2>2. /\ \A u \in Task \ {t} : task[u].pc = "idle"
        /\ Daily(t)
    BY <2>1, OwnerOnly DEF Daily
  <2>3. /\ inflight' = [inflight EXCEPT ![t] = @ \ {o}]
        /\ bronze' = bronze \cup (Action \cap {o})
        /\ UNCHANGED <<today, lastPrice, pointer, contract, task>>
    BY <1>3 DEF Land, silver
  <2>4. Complete \subseteq Complete' /\ Complete' \subseteq Complete \cup {task[t].day}
    BY <1>3 DEF Land, Complete
  <2>5. o \in Action => pointer.end < task[t].day
    BY <2>1 DEF SeenInv, BodiesBeyond
  <2>6. LabelSeen' /\ HeldSeen' /\ Reaches'
    BY <2>1, <2>2, <2>3
    DEF SeenInv, LabelSeen, HeldSeen, Reaches, Daily
  <2>7. TargetNewest' /\ PointerCollected'
    <3>1. PointerCollected'
      <4>1. /\ \E d \in Complete' : pointer.end <= d
            /\ \A u \in Task : task[u].pc = "publish" =>
                  \E d \in Complete' : task[u].end <= d
        BY <2>4 DEF SeenInv, PointerCollected
      <4>2. QED
        BY <2>3, <4>1 DEF PointerCollected
    <3>2. \A u \in Task : Daily(u) => u = t
      BY <2>2 DEF Daily
    <3>3. /\ lastPrice <= today /\ lastPrice <= task[t].day
          /\ task[t].day <= today /\ task[t].day = task[t].last
          /\ \A d \in Complete : d <= today /\ d <= task[t].day
      BY <2>2 DEF SeenInv, TargetNewest
    <3>4. task[t].day \in Int
      BY EpochConstants DEF Alone, TInv, TypeOK, Program, Day
    <3>5. \A d \in Complete' : d <= today /\ d <= task[t].day
      BY <2>4, <3>3, <3>4
    <3>6. TargetNewest'
      BY <2>3, <3>2, <3>3, <3>5 DEF TargetNewest, Daily
    <3>7. QED
      BY <3>1, <3>6
  <2>8. BodiesBeyond'
    BY <1>0, <2>1, <2>2, <2>3 DEF SeenInv, BodiesBeyond
  <2>9. PointerSeen'
    <3>1. CASE o \in Action
      <4>1. task[t].day \in Int /\ task[t].day <= today
        BY <2>2, EpochConstants
        DEF SeenInv, TargetNewest, Alone, TInv, TypeOK, Program, Day
      <4>2. pointer.end < today /\ \A u \in Task : Daily(u) => u = t
        BY <1>0, <2>2, <2>5, <3>1, <4>1 DEF Daily
      <4>3. QED
        BY <2>3, <2>5, <3>1, <4>2 DEF PointerSeen, Daily
    <3>2. CASE o \notin Action
      <4>1. bronze' = bronze
        BY <2>3, <3>2
      <4>2. QED
        BY <2>3, <4>1 DEF SeenInv, PointerSeen, Seen, FiledBy, Daily
    <3>3. QED
      BY <3>1, <3>2
  <2>10. QED
    BY <2>6, <2>7, <2>8, <2>9 DEF SeenInv
<1>4. ASSUME NEW t \in Task, Stop(t) PROVE SeenInv'
  <2>1. /\ \A u \in Task : task'[u].pc = "idle"
        /\ UNCHANGED <<today, objects, silver, snapshots, pointer, contract>>
    BY <1>0, <1>4 DEF Stop, Exit, Idle, Alone, Fenced
  <2>2. QED
    BY <1>0, <2>1
    DEF Daily, SeenInv, LabelSeen, PointerSeen, TargetNewest,
        PointerCollected, BodiesBeyond, HeldSeen, Reaches, Seen, Complete,
        FiledBy, objects, silver
<1>5. CASE Tick
  <2>1. /\ today' = today + 1
        /\ UNCHANGED <<bronze, listed, collected, lastPrice, snapshots,
                       pointer, contract, task, inflight>>
    BY <1>5 DEF Tick, objects, silver
  <2>2. LabelSeen' /\ BodiesBeyond' /\ HeldSeen' /\ Reaches'
    BY <2>1
    DEF Daily, SeenInv, LabelSeen, BodiesBeyond, HeldSeen, Reaches, Seen,
        FiledBy
  <2>3. PointerSeen' /\ PointerCollected'
    BY <1>0, <2>1
    DEF Daily, SeenInv, PointerSeen, PointerCollected, Complete, Seen, FiledBy
  <2>4. \A t \in Task : task[t].day \in Int
    BY EpochConstants DEF Alone, TInv, TypeOK, Program, Day
  <2>5. TargetNewest'
    BY <1>0, <2>1, <2>4 DEF Daily, SeenInv, TargetNewest, Complete
  <2>6. QED
    BY <2>2, <2>3, <2>5 DEF SeenInv
<1>6. CASE UNCHANGED vars
  BY <1>6
  DEF vars, Daily, SeenInv, LabelSeen, PointerSeen, TargetNewest,
      PointerCollected, BodiesBeyond, HeldSeen, Reaches, Seen, Complete,
      FiledBy, objects, silver
<1>7. QED
  BY <1>1, <1>2, <1>3, <1>4, <1>5, <1>6 DEF Next, LoseSession

LEMMA SeenAlways ==
    ~SessionLoss /\ "gap" \notin Kinds /\ Spec => [](TInv /\ SeenInv)
<1>1. Init => SeenInv /\ Fenced
  BY SeenInit DEF Init, Idle, Fenced
<1>2. /\ ~SessionLoss /\ "gap" \notin Kinds /\ TInv /\ SkipInv
      /\ SeenInv /\ Fenced /\ [Next]_vars
      => SeenInv' /\ Fenced'
  BY SeenNext, FencedNext DEF Alone, SkipInv
<1>3. ~SessionLoss /\ "gap" \notin Kinds
      => [](~SessionLoss /\ "gap" \notin Kinds)
  OBVIOUS
<1>4. QED
  BY <1>1, <1>2, <1>3, SkipAlways, PTL DEF Spec

(* While sessions survive and no gap replay is around, a CERTIFIED label   *)
(* has seen every durable disclosure received by the end of its coverage,  *)
(* whatever kind of evidence it is: a row that was lost behind a marker    *)
(* and collected later is in every evidence that is still applied.         *)
THEOREM AnyEvidence ==
    ~SessionLoss /\ "gap" \notin Kinds /\ Spec => []PointInTimeComplete
<1>1. SeenInv => PointInTimeComplete
  BY DEF SeenInv, LabelSeen, Seen, PointInTimeComplete
<1>2. QED
  BY <1>1, SeenAlways, PTL

-----------------------------------------------------------------------------
(* Refinement.  Evidence in any store is durable in Bronze, and a label    *)
(* that is about to be certified is BUILDING.                              *)
Durable ==
    /\ pointer.acts \subseteq bronze
    /\ \A e \in Day : snapshots[e] # NoSnapshot => snapshots[e] \subseteq bronze
    /\ \A t \in Task : task[t].acts \subseteq bronze

Marked ==
    \A t \in Task :
        epochLock = t /\ task[t].pc = "certify" => contract.status = "BUILDING"

(* A rebuild finds every disclosure received by the last price in the      *)
(* action run that it reads.                                               *)
Certifiable ==
    (\E t \in Task : task[t].pc = "certify") /\ snapshots[lastPrice] # NoSnapshot
        => FiledBy(bronze, lastPrice) \subseteq snapshots[lastPrice]

RInv == TInv /\ Fenced /\ Durable /\ Marked /\ Certifiable

LEMMA BronzeGrows ==
    ASSUME [Next]_vars
    PROVE  bronze \subseteq bronze'
<1>1. ASSUME NEW t \in Task, Step(t) PROVE bronze' = bronze
  BY <1>1
  DEF Step, Guard, Put, CloseWriter, Plan, Build, Publish, Restore, SkipDay,
      LoadDay, Apply, Mark, Certify, NextDay, Raise, FailOnLostSession, objects
<1>2. QED
  BY <1>1
  DEF Next, Tick, Launches, LaunchDaily, LaunchGap, LaunchExtras, Launch,
      Land, Stop, LoseSession, vars, objects

LEMMA DurableStep ==
    ASSUME TInv, Durable, Marked, NEW t \in Task, Step(t)
    PROVE  Durable' /\ Marked'
<1>0. /\ task \in [Task -> Program]
      /\ task[t] \in Program
      /\ contract \in Contract
      /\ NoTask \notin Task
  BY EpochConstants DEF TInv, TypeOK
<1>1. \A d : Evidence(d) \subseteq bronze
  BY DEF Evidence, FiledBy
<1>2. CASE Guard(t)
  BY <1>0, <1>2 DEF Guard, At, Durable, Marked, Program, objects
<1>3. ASSUME NEW o \in Object, Put(t, o) PROVE Durable' /\ Marked'
  BY <1>0, <1>3 DEF Put, At, Durable, Marked, Program, objects
<1>4. CASE CloseWriter(t)
  BY <1>0, <1>4 DEF CloseWriter, Go, At, Durable, Marked, Program, objects
<1>5. ASSUME NEW refiled \in BOOLEAN, Plan(t, refiled)
      PROVE  Durable' /\ Marked'
  <2>1. Evidence(task[t].day) \subseteq bronze
    BY <1>1
  <2>2. task'[t].acts \subseteq bronze /\ task'[t].pc \in {"build", "load"}
    BY <1>0, <1>5, <2>1 DEF Plan, Durable, Program
  <2>3. \A u \in Task \ {t} : task'[u] = task[u]
    BY <1>0, <1>5 DEF Plan
  <2>4. QED
    BY <1>0, <1>5, <2>2, <2>3 DEF Plan, At, Durable, Marked, objects
<1>6. CASE Build(t)
  <2>1. Evidence(task[t].end) \subseteq bronze
    BY <1>1
  <2>2. QED
    BY <1>0, <1>6, <2>1 DEF Build, At, Durable, Marked, Program, objects
<1>7. CASE Publish(t)
  BY <1>0, <1>7
  DEF Publish, Go, Exit, Idle, At, Durable, Marked, Program, objects
<1>8. CASE Restore(t)
  BY <1>0, <1>8 DEF Restore, At, Durable, Marked, Program, objects
<1>9. CASE SkipDay(t)
  BY <1>0, <1>9
  DEF SkipDay, AfterLoad, Go, At, Durable, Marked, Program, objects
<1>10. ASSUME NEW touched \in BOOLEAN, LoadDay(t, touched)
       PROVE  Durable' /\ Marked'
  BY <1>0, <1>10
  DEF LoadDay, AfterLoad, Go, At, Durable, Marked, Program, objects
<1>11. CASE Apply(t)
  <2>1. ASSUME NEW e \in Day, snapshots'[e] # NoSnapshot
        PROVE  snapshots'[e] \subseteq bronze
    BY <1>11, <2>1 DEF Apply, Durable
  <2>2. QED
    BY <1>0, <1>11, <2>1 DEF Apply, Go, At, Durable, Marked, Program, objects
<1>12. CASE Mark(t)
  BY <1>0, <1>12 DEF Mark, Go, At, Durable, Marked, Program, Contract, objects
<1>13. CASE Certify(t)
  BY <1>0, <1>13 DEF Certify, At, Durable, Marked, Program, objects
<1>14. CASE NextDay(t)
  BY <1>0, <1>14
  DEF NextDay, Exit, Idle, At, Durable, Marked, Program, objects
<1>15. CASE Raise(t)
  BY <1>0, <1>15 DEF Raise, Exit, Idle, Durable, Marked, objects
<1>16. CASE FailOnLostSession(t)
  BY <1>0, <1>16
  DEF FailOnLostSession, Idle, Durable, Marked, objects
<1>17. QED
  BY <1>2, <1>3, <1>4, <1>5, <1>6, <1>7, <1>8, <1>9, <1>10, <1>11,
     <1>12, <1>13, <1>14, <1>15, <1>16 DEF Step

LEMMA DurableNext ==
    ASSUME TInv, Durable, Marked, [Next]_vars
    PROVE  Durable' /\ Marked'
<1>0. /\ task \in [Task -> Program]
      /\ NoTask \notin Task
  BY EpochConstants DEF TInv, TypeOK
<1>1. ASSUME NEW t \in Task, Launches(t) PROVE Durable' /\ Marked'
  <2>1. PICK program : Launch(t, program) /\ Launchable(program)
    BY <1>1, Launched
  <2>2. task'[t].acts = {} /\ task'[t].pc # "certify"
    BY <1>0, <1>1
    DEF Launches, LaunchDaily, LaunchGap, LaunchExtras, Launch, Idle
  <2>3. /\ \A u \in Task \ {t} : task'[u] = task[u]
        /\ epochLock' = t
        /\ UNCHANGED <<bronze, snapshots, pointer, contract>>
    BY <1>0, <2>1 DEF Launch, objects
  <2>4. QED
    BY <2>2, <2>3 DEF Durable, Marked
<1>2. ASSUME NEW t \in Task, Step(t) PROVE Durable' /\ Marked'
  BY <1>2, DurableStep
<1>3. ASSUME NEW t \in Task, NEW o \in Object, Land(t, o)
      PROVE  Durable' /\ Marked'
  BY <1>3 DEF Land, Durable, Marked
<1>4. ASSUME NEW t \in Task, Stop(t) \/ LoseSession(t)
      PROVE  Durable' /\ Marked'
  BY <1>0, <1>4 DEF Stop, LoseSession, Exit, Idle, Durable, Marked, objects
<1>5. CASE Tick \/ UNCHANGED vars
  BY <1>5 DEF Tick, vars, Durable, Marked, objects
<1>6. QED
  BY <1>1, <1>2, <1>3, <1>4, <1>5 DEF Next

-----------------------------------------------------------------------------
(* Every step is a step of the label, or leaves what its readers see.      *)

LEMMA Demotion ==
    ASSUME contract'.status = "BUILDING", UNCHANGED <<lastPrice, bronze>>
    PROVE  [Label!Next]_(Label!vars)
BY DEF Label!Next, Label!Demote, Label!Unusable, Label!vars, visibleLabel

LEMMA Unseen ==
    ASSUME UNCHANGED <<contract, lastPrice, bronze>>
    PROVE  [Label!Next]_(Label!vars)
BY DEF Label!vars, visibleLabel

LEMMA LabelStep ==
    ASSUME RInv, [Next]_vars
    PROVE  [Label!Next]_(Label!vars)
<1>0. /\ task \in [Task -> Program]
      /\ contract \in Contract
      /\ lastPrice \in Day
      /\ bronze \subseteq Action
  BY DEF RInv, TInv, TypeOK
<1>1. ASSUME NEW t \in Task, NEW o \in Object, Put(t, o)
      PROVE  [Label!Next]_(Label!vars)
  <2>1. CASE contract' = contract
    BY <1>1, <2>1, Unseen DEF Put, objects, silver
  <2>2. CASE contract'.status = "BUILDING"
    BY <1>1, <2>2, Demotion DEF Put, objects, silver
  <2>3. QED
    BY <1>0, <1>1, <2>1, <2>2 DEF Put, Demoted, Contract
<1>2. ASSUME NEW t \in Task, NEW o \in Object, Land(t, o)
      PROVE  [Label!Next]_(Label!vars)
  <2>1. UNCHANGED <<contract, lastPrice>>
    BY <1>2 DEF Land, silver
  <2>2. CASE bronze' = bronze
    BY <2>1, <2>2, Unseen
  <2>3. CASE bronze' # bronze
    <3>1. o \in Action \ bronze /\ bronze' = bronze \cup {o}
      BY <1>2, <2>3 DEF Land
    <3>2. contract.status = "BUILDING"
      BY <1>2 DEF Land, RInv, Fenced
    <3>3. Label!Observe
      BY <2>1, <3>1, <3>2 DEF Label!Observe, Label!Unusable, visibleLabel
    <3>4. QED
      BY <3>3 DEF Label!Next
  <2>4. QED
    BY <2>2, <2>3
<1>3. ASSUME NEW t \in Task, NEW touched \in BOOLEAN, LoadDay(t, touched)
      PROVE  [Label!Next]_(Label!vars)
  <2>1. bronze' = bronze
    BY <1>3 DEF LoadDay, objects
  <2>2. CASE lastPrice' = lastPrice /\ contract' = contract
    BY <2>1, <2>2, Unseen
  <2>3. CASE lastPrice' = lastPrice /\ contract' # contract
    BY <1>0, <1>3, <2>1, <2>3, Demotion DEF LoadDay, Demoted, Contract
  <2>4. CASE lastPrice' # lastPrice
    <3>1. /\ lastPrice' \in Day /\ lastPrice < lastPrice'
          /\ contract'.status = "BUILDING"
      BY <1>0, <1>3, <2>4 DEF LoadDay, Demoted, Contract, Program
    <3>2. lastPrice' \in lastPrice + 1 .. LastDay
      BY <1>0, <3>1, EpochConstants DEF Day
    <3>3. Label!Price
      BY <2>1, <3>1, <3>2 DEF Label!Price, Label!Unusable, visibleLabel
    <3>4. QED
      BY <3>3 DEF Label!Next
  <2>5. QED
    BY <2>2, <2>3, <2>4
<1>4. ASSUME NEW t \in Task, Apply(t) \/ Mark(t)
      PROVE  [Label!Next]_(Label!vars)
  BY <1>0, <1>4, Demotion DEF Apply, Mark, Demoted, Contract, objects, silver
<1>5. ASSUME NEW t \in Task, Certify(t) PROVE [Label!Next]_(Label!vars)
  <2> DEFINE acts == snapshots[lastPrice]
  <2>1. /\ contract.status = "BUILDING"
        /\ acts # NoSnapshot
        /\ UNCHANGED <<lastPrice, bronze>>
    BY <1>5 DEF Certify, At, RInv, Marked, objects, silver
  <2>2. acts \subseteq bronze
    BY <1>0, <2>1 DEF RInv, Durable
  <2>3. {a \in bronze : Filed[a] <= lastPrice} \subseteq acts
    BY <1>5, <2>1 DEF Certify, At, RInv, Certifiable, FiledBy
  <2>4. visibleLabel' = Label!Label(lastPrice, acts)
    BY <1>5 DEF Certify, Rebuilt, visibleLabel, Label!Label
  <2>5. visibleLabel = Label!Unusable
    BY <2>1 DEF visibleLabel, Label!Unusable
  <2>6. Label!Certify
    BY <2>1, <2>2, <2>3, <2>4, <2>5 DEF Label!Certify
  <2>7. QED
    BY <2>6 DEF Label!Next
<1>6. ASSUME NEW t \in Task, Step(t) PROVE [Label!Next]_(Label!vars)
  BY <1>1, <1>3, <1>4, <1>5, <1>6, Unseen
  DEF Step, Guard, CloseWriter, Plan, Build, Publish, Restore, SkipDay,
      NextDay, Raise, FailOnLostSession, objects, silver
<1>7. ASSUME NEW t \in Task, Launches(t) PROVE [Label!Next]_(Label!vars)
  BY <1>7, Unseen
  DEF Launches, LaunchDaily, LaunchGap, LaunchExtras, Launch, objects, silver
<1>8. QED
  BY <1>2, <1>6, <1>7, Unseen
  DEF Next, Tick, Stop, LoseSession, vars, objects, silver

(* Every behaviour of the tasks is, for a reader of the label, a behaviour *)
(* of ReturnLabel: evidence appears only under an unusable label, prices   *)
(* take the label away as they appear, and it comes back complete.         *)
THEOREM Refinement ==
    /\ ~SessionLoss
    /\ Documented = Action \/ "gap" \notin Kinds
    /\ Spec
    => ImplementsReturnLabel
<1>1. Init => Label!Init
  BY DEF Init, Label!Init, Label!Label, visibleLabel
<1>2. Init => Fenced /\ Durable /\ Marked
  BY EpochConstants DEF Init, Idle, Fenced, Durable, Marked
<1>3. ~SessionLoss /\ TInv /\ Fenced /\ Durable /\ Marked /\ [Next]_vars
      => (Fenced /\ Durable /\ Marked)'
  BY FencedNext, DurableNext
<1>4. TInv /\ FullInv => Certifiable
  BY DEF TInv, TypeOK, FullInv, SnapshotsFull, Full, FiledBy, Certifiable
<1>5. TInv /\ SeenInv => Certifiable
  <2> SUFFICES ASSUME TInv, SeenInv, NEW t \in Task, task[t].pc = "certify"
               PROVE  Seen(snapshots[lastPrice], lastPrice)
    BY DEF Certifiable, Seen
  <2>1. /\ lastPrice \in Int /\ task[t].end \in Int
        /\ TypeOK
    BY EpochConstants DEF TInv, TypeOK, Program, Day, Null
  <2>2. /\ lastPrice <= task[t].end
        /\ Seen(task[t].acts, task[t].end)
        /\ snapshots[lastPrice] = task[t].acts
    BY DEF SeenInv, Reaches, HeldSeen
  <2>3. QED
    BY <2>1, <2>2, SeenEarlier
<1>6. RInv /\ [Next]_vars => [Label!Next]_(Label!vars)
  BY LabelStep
<1>7. Spec => []TInv
  BY TypeCorrect DEF TInv
<1>8. TInv /\ Fenced /\ Durable /\ Marked /\ Certifiable => RInv
  BY DEF RInv
<1>9. /\ ~SessionLoss => [](~SessionLoss)
      /\ Documented = Action => [](Documented = Action)
  OBVIOUS
<1>10. QED
  BY <1>1, <1>2, <1>3, <1>4, <1>5, <1>6, <1>7, <1>8, <1>9, FullAlways,
     SeenAlways, PTL
  DEF Spec, ImplementsReturnLabel, Label!Spec

-----------------------------------------------------------------------------
(***************************************************************************)
(* The worklist: what certified runs, reviews and projections of the run   *)
(* history leave in dq_warning_state (WarningWorklist).                     *)
(***************************************************************************)
\* No projection overlaps a run, the condition under which it is safe.
ProjectsAlone == "project" \notin Tools \/ ~Overlap

(* Commit numbers order the certified runs; a run that has not started has *)
(* no successor that has.                                                  *)
Ordered ==
    /\ \A i \in Id : run[i].state # "new" => run[i].batch \in Batch
    /\ \A i \in Certified : run[i].done <= commits /\ run[i].out \in Report
    /\ \A i, j \in Certified : run[i].done = run[j].done => i = j
    /\ \A i, j \in Id : i < j /\ run[i].state = "new" => run[j].state = "new"

(* Without overlap the order of the starts is the order of the commits.    *)
Serial ==
    ~Overlap =>
        /\ \A i \in Running, j \in Id : i < j => run[j].state = "new"
        /\ \A i, j \in Certified : i < j => run[i].done < run[j].done
        /\ found.query => Running = {}

(* What a projection is about to write is still the last observation.      *)
Found ==
    /\ found.query => tracking /\ "project" \in Tools
    /\ \A k \in Key : found.fails[k] # NoValue =>
         /\ found.query
         /\ ~Overlap => \E i \in Id : Last(k, i) /\ run[i].out = found.fails[k]

Rows ==
    /\ \A i \in Id : run[i].live => tracking
    /\ ~tracking => \A k \in Key : row[k] = NoRow
    /\ \A k \in Key : /\ row[k].status = "RESOLVED" => row[k].actual = Pass
                      /\ row[k].status = "ACKNOWLEDGED" =>
                           row[k].fingerprint = row[k].actual

IInv == WorklistTypeOK /\ Ordered /\ Serial /\ Found /\ Rows /\ WorklistCurrent

-----------------------------------------------------------------------------
LEMMA FailedType ==
    ASSUME NEW r \in StateRow, NEW v \in Value
    PROVE  Failed(r, v) \in StateRow
BY DEF Failed, StateRow, Report

LEMMA PassedType ==
    ASSUME NEW r \in StateRow
    PROVE  Passed(r) \in StateRow
BY DEF Passed, StateRow, Report

(* A most recent observation is unique.                                    *)
LEMMA MostRecentUnique ==
    ASSUME NEW k \in Key, NEW first \in Id, NEW i \in Id, NEW j \in Id,
           MostRecent(k, first, i), MostRecent(k, first, j)
    PROVE  i = j
BY WorklistConstants DEF MostRecent, Observed, Certified, Id

(* What the query of a projection finds.                                   *)
LEMMA QueryFinds ==
    ASSUME WorklistTypeOK, NEW first \in Id, Query(first), NEW k \in Key
    PROVE  \/ found'.fails[k] = NoValue
           \/ \E i \in Id : /\ MostRecent(k, first, i)
                            /\ run[i].out # Pass
                            /\ found'.fails[k] = run[i].out
<1> DEFINE c == CHOOSE i \in Id : MostRecent(k, first, i)
<1>1. CASE \E i \in Id : MostRecent(k, first, i) /\ Selected(i)
  <2>1. PICK i \in Id : MostRecent(k, first, i) /\ Selected(i)
    BY <1>1
  <2>2. c \in Id /\ MostRecent(k, first, c)
    BY <2>1
  <2>3. c = i
    BY <2>1, <2>2, MostRecentUnique
  <2>4. found'.fails[k] = run[c].out
    BY <1>1 DEF Query
  <2> HIDE DEF c
  <2> QED BY <2>1, <2>3, <2>4 DEF Selected
<1>2. CASE ~ \E i \in Id : MostRecent(k, first, i) /\ Selected(i)
  BY <1>2 DEF Query
<1> QED BY <1>1, <1>2

(* A certified run has a report.                                           *)
LEMMA QueryType ==
    ASSUME WorklistTypeOK, Ordered, NEW first \in Id, Query(first)
    PROVE  found' \in Finding
<1>1. ASSUME NEW k \in Key
      PROVE  found'.fails[k] \in Value \cup {NoValue}
  BY QueryFinds DEF MostRecent, Observed, Ordered, Report
<1>2. found' = [query |-> TRUE, fails |-> found'.fails]
  BY DEF Query
<1>3. found'.fails \in [Key -> Value \cup {NoValue}]
  <2>1. found'.fails = [k \in Key |-> found'.fails[k]]
    BY DEF Query
  <2> QED BY <1>1, <2>1
<1>4. ASSUME NEW f \in [Key -> Value \cup {NoValue}]
      PROVE  [query |-> TRUE, fails |-> f] \in Finding
  BY DEF Finding
<1> QED BY <1>2, <1>3, <1>4

LEMMA CertifiedType ==
    ASSUME NEW r \in RunRow, NEW v \in Report, NEW n \in Nat, NEW b \in BOOLEAN
    PROVE  [r EXCEPT !.state = "certified", !.out = v, !.done = n, !.live = b]
             \in RunRow
BY DEF RunRow

LEMMA TypeStep ==
    ASSUME WorklistTypeOK, Ordered, [WorklistNext]_worklist
    PROVE  WorklistTypeOK'
<1> USE WorklistConstants
<1>1. ASSUME NEW i \in Id, NEW b \in Batch, StartRun(i, b) PROVE WorklistTypeOK'
  BY <1>1 DEF StartRun, WorklistTypeOK, RunRow
<1>2. ASSUME NEW i \in Id, NEW v \in Report, CertifyRun(i, v) PROVE WorklistTypeOK'
  <2>1. run[i] \in RunRow /\ run[i].batch \in Batch
    BY <1>2 DEF WorklistTypeOK, Ordered, CertifyRun
  <2>2. RowOf(run[i].batch) \in Key
    BY <2>1 DEF RowOf
  <2>3. run' \in [Id -> RunRow]
    <3>1. commits + 1 \in Nat /\ tracking \in BOOLEAN /\ v \in Report
      BY <1>2 DEF WorklistTypeOK
    <3>2. [run[i] EXCEPT !.state = "certified", !.out = v, !.done = commits + 1,
                         !.live = tracking] \in RunRow
      BY <2>1, <3>1, CertifiedType
    <3> QED BY <1>2, <3>2 DEF CertifyRun, WorklistTypeOK
  <2>4. row' \in [Key -> StateRow]
    <3>1. ASSUME NEW r \in StateRow
          PROVE  (IF v = Pass THEN Passed(r) ELSE Failed(r, v)) \in StateRow
      BY FailedType, PassedType DEF Report
    <3> QED BY <1>2, <2>2, <3>1 DEF CertifyRun, WorklistTypeOK
  <2> QED BY <1>2, <2>3, <2>4 DEF CertifyRun, WorklistTypeOK
<1>3. ASSUME NEW i \in Id, StopRun(i) PROVE WorklistTypeOK'
  BY <1>3 DEF StopRun, WorklistTypeOK, RunRow
<1>4. CASE Deploy
  BY <1>4 DEF Deploy, WorklistTypeOK
<1>6. ASSUME NEW k \in Key, Acknowledge(k) PROVE WorklistTypeOK'
  <2>2. row' \in [Key -> StateRow]
    <3>1. [row[k] EXCEPT !.status = "ACKNOWLEDGED",
                         !.fingerprint = row[k].actual] \in StateRow
      BY DEF WorklistTypeOK, StateRow
    <3> QED BY <1>6, <3>1 DEF Acknowledge, WorklistTypeOK
  <2> QED BY <1>6, <2>2 DEF Acknowledge, WorklistTypeOK
<1>7. ASSUME NEW first \in Id, Query(first) PROVE WorklistTypeOK'
  <2>1. found' \in Finding
    BY <1>7, QueryType
  <2> QED BY <1>7, <2>1 DEF Query, WorklistTypeOK
<1>8. CASE Upsert
  <2>1. row' \in [Key -> StateRow]
    <3>1. ASSUME NEW r \in StateRow, NEW v \in Value \cup {NoValue}
          PROVE  /\ [r EXCEPT !.actual = v] \in StateRow
                 /\ [r EXCEPT !.status = "OPEN", !.actual = v] \in StateRow
      BY DEF StateRow, Report
    <3>2. \A k \in Key : found.fails[k] \in Value \cup {NoValue}
      BY DEF WorklistTypeOK, Finding
    <3>3. \A k \in Key : row[k] \in StateRow
      BY DEF WorklistTypeOK
    <3> QED BY <1>8, <3>1, <3>2, <3>3 DEF Upsert
  <2>2. NotFound \in Finding
    BY DEF NotFound, Finding
  <2> QED BY <1>8, <2>1, <2>2 DEF Upsert, WorklistTypeOK
<1>9. CASE UNCHANGED worklist
  BY <1>9 DEF worklist, WorklistTypeOK
<1> QED BY <1>1, <1>2, <1>3, <1>4, <1>6, <1>7, <1>8, <1>9 DEF WorklistNext

-----------------------------------------------------------------------------
(* How the steps change the runs.                                          *)
LEMMA Started ==
    ASSUME WorklistTypeOK, NEW i \in Id, NEW b \in Batch, StartRun(i, b)
    PROVE  /\ run'[i].state = "running" /\ run'[i].batch = b
           /\ run'[i].live = run[i].live
           /\ \A j \in Id : j # i => run'[j] = run[j]
           /\ Certified' = Certified
           /\ Running' = Running \cup {i}
<1>1. run[i] \in RunRow /\ run[i].state = "new"
  BY DEF WorklistTypeOK, StartRun
<1>2. run' = [run EXCEPT ![i].state = "running", ![i].batch = b]
  BY DEF StartRun
<1>3. run'[i].state = "running" /\ run'[i].batch = b /\ run'[i].live = run[i].live
  BY <1>1, <1>2 DEF WorklistTypeOK, RunRow
<1>4. \A j \in Id : j # i => run'[j] = run[j]
  BY <1>2 DEF WorklistTypeOK
<1> QED BY <1>1, <1>3, <1>4 DEF Certified, Running

LEMMA Finished ==
    ASSUME WorklistTypeOK, NEW i \in Id, NEW v \in Report, CertifyRun(i, v)
    PROVE  /\ run'[i].state = "certified" /\ run'[i].out = v
           /\ run'[i].done = commits + 1 /\ run'[i].live = tracking
           /\ run'[i].batch = run[i].batch
           /\ \A j \in Id : j # i => run'[j] = run[j]
           /\ Certified' = Certified \cup {i}
           /\ i \notin Certified /\ i \in Running
           /\ Running' = Running \ {i}
<1>1. run[i] \in RunRow /\ run[i].state = "running"
  BY DEF WorklistTypeOK, CertifyRun
<1>2. run' = [run EXCEPT ![i].state = "certified", ![i].out = v,
                         ![i].done = commits + 1, ![i].live = tracking]
  BY DEF CertifyRun
<1>3. /\ run'[i].state = "certified" /\ run'[i].out = v
      /\ run'[i].done = commits + 1 /\ run'[i].live = tracking
      /\ run'[i].batch = run[i].batch
  BY <1>1, <1>2 DEF WorklistTypeOK, RunRow
<1>4. \A j \in Id : j # i => run'[j] = run[j]
  BY <1>2 DEF WorklistTypeOK
<1> QED BY <1>1, <1>3, <1>4 DEF Certified, Running

LEMMA Stopped ==
    ASSUME WorklistTypeOK, NEW i \in Id, StopRun(i)
    PROVE  /\ run'[i].state = "stopped" /\ run'[i].batch = run[i].batch
           /\ run'[i].live = run[i].live
           /\ \A j \in Id : j # i => run'[j] = run[j]
           /\ Certified' = Certified
           /\ Running' = Running \ {i}
<1>1. run[i] \in RunRow /\ run[i].state = "running"
  BY DEF WorklistTypeOK, StopRun
<1>2. run' = [run EXCEPT ![i].state = "stopped"]
  BY DEF StopRun
<1>3. /\ run'[i].state = "stopped" /\ run'[i].batch = run[i].batch
      /\ run'[i].live = run[i].live
  BY <1>1, <1>2 DEF WorklistTypeOK, RunRow
<1>4. \A j \in Id : j # i => run'[j] = run[j]
  BY <1>2 DEF WorklistTypeOK
<1> QED BY <1>1, <1>3, <1>4 DEF Certified, Running

(* The other steps leave the runs alone.                                   *)
LEMMA Reviewing ==
    ASSUME \/ Deploy
           \/ \E k \in Key : Acknowledge(k)
           \/ \E first \in Id : Query(first)
           \/ Upsert
           \/ UNCHANGED worklist
    PROVE  run' = run /\ commits' = commits
BY DEF Deploy, Acknowledge, Query, Upsert, worklist

LEMMA OrderedStep ==
    ASSUME WorklistTypeOK, Ordered, [WorklistNext]_worklist
    PROVE  Ordered'
<1>1. ASSUME NEW i \in Id, NEW b \in Batch, StartRun(i, b) PROVE Ordered'
  <2>1. commits' = commits /\ \A j \in Id : j < i => run[j].state # "new"
    BY <1>1 DEF StartRun
  <2>2. i \notin Certified
    BY <1>1 DEF StartRun, Certified
  <2> QED BY <1>1, <2>1, <2>2, Started DEF Ordered, Certified
<1>2. ASSUME NEW i \in Id, NEW v \in Report, CertifyRun(i, v) PROVE Ordered'
  <2>1. commits' = commits + 1 /\ commits \in Nat /\ run[i].state # "new"
    BY <1>2 DEF CertifyRun, WorklistTypeOK
  <2>2. \A j \in Certified : run[j].done \in Nat
    BY DEF WorklistTypeOK, RunRow, Certified
  <2>3. \A j \in Certified : j # i /\ run'[j] = run[j]
    BY <1>2, Finished DEF Certified
  <2>4. \A j \in Certified' : run'[j].done <= commits' /\ run'[j].out \in Report
    BY <1>2, <2>1, <2>2, <2>3, Finished DEF Ordered
  <2>5. \A j, k \in Certified' : run'[j].done = run'[k].done => j = k
    BY <1>2, <2>1, <2>2, <2>3, Finished DEF Ordered
  <2>6. /\ \A j \in Id : run'[j].state # "new" => run'[j].batch \in Batch
        /\ \A j, k \in Id : j < k /\ run'[j].state = "new" => run'[k].state = "new"
    <3>1. run'[i].state # "new" /\ run'[i].batch \in Batch
      BY <1>2, <2>1, Finished DEF Ordered
    <3>2. \A j \in Id : run'[j].state = "new" <=> run[j].state = "new"
      BY <1>2, <2>1, <3>1, Finished
    <3> QED BY <1>2, <3>1, <3>2, Finished DEF Ordered
  <2> QED BY <2>4, <2>5, <2>6 DEF Ordered
<1>3. ASSUME NEW i \in Id, StopRun(i) PROVE Ordered'
  <2>1. commits' = commits /\ run[i].state = "running"
    BY <1>3 DEF StopRun
  <2>2. i \notin Certified
    BY <2>1 DEF Certified
  <2>3. \A j \in Certified : run'[j] = run[j]
    BY <1>3, <2>2, Stopped DEF Certified
  <2>4. \A j \in Id : run'[j].state = "new" <=> run[j].state = "new"
    BY <1>3, <2>1, Stopped
  <2>5. \A j \in Id : run'[j].state # "new" => run'[j].batch \in Batch
    BY <1>3, <2>1, <2>4, Stopped DEF Ordered
  <2> QED BY <1>3, <2>1, <2>3, <2>4, <2>5, Stopped DEF Ordered
<1>4. ASSUME run' = run, commits' = commits PROVE Ordered'
  BY <1>4 DEF Ordered, Certified
<1> QED BY <1>1, <1>2, <1>3, <1>4, Reviewing DEF WorklistNext

LEMMA SerialStep ==
    ASSUME WorklistTypeOK, Ordered, Serial, [WorklistNext]_worklist
    PROVE  Serial'
<1> SUFFICES ASSUME ~Overlap
             PROVE  /\ \A i \in Running', j \in Id : i < j => run'[j].state = "new"
                    /\ \A i, j \in Certified' : i < j => run'[i].done < run'[j].done
                    /\ found'.query => Running' = {}
  BY DEF Serial
<1>1. ASSUME NEW i \in Id, NEW b \in Batch, StartRun(i, b) PROVE Serial'
  <2>1. Running = {} /\ ~found.query /\ found' = found /\ run[i].state = "new"
    BY <1>1 DEF StartRun
  <2>2. \A j \in Id : i < j => run'[j].state = "new"
    BY <1>1, <2>1, Started DEF Ordered, Id
  <2>3. Running' = {i} /\ i \notin Certified
    BY <1>1, <2>1, Started DEF Certified
  <2>4. \A j \in Certified : run'[j] = run[j]
    BY <1>1, <2>3, Started DEF Certified
  <2> QED BY <1>1, <2>1, <2>2, <2>3, <2>4, Started DEF Serial
<1>2. ASSUME NEW i \in Id, NEW v \in Report, CertifyRun(i, v) PROVE Serial'
  <2>1. found' = found /\ commits \in Nat /\ i \in Running /\ Running # {}
    BY <1>2, Finished DEF CertifyRun, WorklistTypeOK
  <2>2. \A j \in Certified : run[j].done \in Nat /\ j # i /\ run'[j] = run[j]
    BY <1>2, Finished DEF WorklistTypeOK, RunRow, Certified
  <2>3. \A j \in Certified : ~ (i < j)
    BY <2>1 DEF Serial, Certified
  <2>4. ASSUME NEW j \in Running', NEW k \in Id, j < k
        PROVE  run'[k].state = "new"
    BY <1>2, <2>4, <2>1, Finished DEF Serial, Running
  <2>5. ASSUME NEW j \in Certified', NEW k \in Certified', j < k
        PROVE  run'[j].done < run'[k].done
    <3>1. CASE k = i
      <4>1. j \in Certified
        BY <1>2, <2>5, <3>1, Finished DEF Id, Certified
      <4> QED BY <1>2, <3>1, <4>1, <2>1, <2>2, Finished DEF Ordered
    <3>2. CASE k # i
      <4>1. k \in Certified
        BY <1>2, <3>2, Finished
      <4>2. j \in Certified
        BY <1>2, <2>3, <2>5, <4>1, Finished
      <4> QED BY <2>2, <2>5, <4>1, <4>2 DEF Serial
    <3> QED BY <3>1, <3>2
  <2>6. ~found'.query
    BY <2>1 DEF Serial
  <2> QED BY <2>4, <2>5, <2>6 DEF Serial
<1>3. ASSUME NEW i \in Id, StopRun(i) PROVE Serial'
  <2>1. found' = found /\ run[i].state = "running"
    BY <1>3 DEF StopRun
  <2>2. i \notin Certified
    BY <2>1 DEF Certified
  <2>3. \A j \in Certified : run'[j] = run[j]
    BY <1>3, <2>2, Stopped DEF Certified
  <2>4. \A j \in Id : run'[j].state = "new" <=> run[j].state = "new"
    BY <1>3, <2>1, Stopped
  <2> QED BY <1>3, <2>1, <2>3, <2>4, Stopped DEF Serial
<1>4. ASSUME run' = run, found'.query => found.query \/ Running = {}
      PROVE  Serial'
  BY <1>4 DEF Serial, Running, Certified
<1>5. ASSUME NEW first \in Id, Query(first) PROVE Serial'
  BY <1>4, <1>5, Reviewing DEF Query
<1>6. CASE Upsert
  <2>1. run' = run /\ ~found'.query
    BY <1>6 DEF Upsert, NotFound
  <2> QED BY <1>4, <2>1 DEF Serial
<1>7. CASE Deploy \/ (\E k \in Key : Acknowledge(k)) \/ UNCHANGED worklist
  <2>1. run' = run /\ found' = found
    BY <1>7 DEF Deploy, Acknowledge, worklist
  <2> QED BY <1>4, <2>1 DEF Serial
<1> QED BY <1>1, <1>2, <1>3, <1>5, <1>6, <1>7 DEF WorklistNext, Serial

-----------------------------------------------------------------------------
(* The last observation of a row is unique.                                *)
LEMMA LastUnique ==
    ASSUME WorklistTypeOK, Ordered, NEW k \in Key, NEW i \in Id, NEW j \in Id,
           Last(k, i), Last(k, j)
    PROVE  i = j
<1>1. run[i].done \in Nat /\ run[j].done \in Nat
  BY DEF WorklistTypeOK, RunRow
<1> QED BY <1>1 DEF Last, Observed, Ordered

(* A commit is the last observation of its row and leaves the others.      *)
LEMMA LastCertified ==
    ASSUME WorklistTypeOK, Ordered, NEW i \in Id, NEW v \in Report, CertifyRun(i, v),
           NEW k \in Key, NEW j \in Id, Last(k, j)'
    PROVE  IF k = RowOf(run[i].batch) THEN j = i
           ELSE j # i /\ Last(k, j)
<1>1. commits \in Nat /\ \A m \in Id : run[m].done \in Nat
  BY DEF WorklistTypeOK, RunRow
<1>2. \A m \in Certified : m # i /\ run'[m] = run[m] /\ run[m].done <= commits
  BY Finished DEF Ordered, Certified
<1>3. \A m \in Id : Observed(m)' = {n \in Certified' : RowOf(run'[n].batch) = m}
  BY DEF Observed, RowOf
<1>4. CASE k = RowOf(run[i].batch)
  <2>1. i \in Observed(k)'
    BY <1>4, Finished DEF Observed, RowOf
  <2>2. j \in Certified' /\ run'[i].done <= run'[j].done
    BY <2>1 DEF Last, Observed
  <2> QED BY <1>1, <1>2, <1>4, <2>2, Finished
<1>5. CASE k # RowOf(run[i].batch)
  <2>1. Observed(k)' = Observed(k)
    BY <1>2, <1>5, Finished DEF Observed, RowOf
  <2>2. j # i /\ j \in Observed(k)
    BY <1>2, <2>1 DEF Last, Observed
  <2>3. \A m \in Observed(k) : run[m].done <= run[j].done
    BY <1>2, <2>1, <2>2 DEF Last, Observed
  <2> QED BY <1>5, <2>2, <2>3 DEF Last
<1> QED BY <1>4, <1>5

(* Steps that certify nothing leave the last observations alone.           *)
LEMMA LastKept ==
    ASSUME NEW k \in Key, NEW j \in Id,
           Certified' = Certified, \A m \in Certified : run'[m] = run[m]
    PROVE  Last(k, j)' <=> Last(k, j)
<1>1. Observed(k)' = Observed(k)
  BY DEF Observed, RowOf
<1> QED BY <1>1 DEF Last, Observed

LEMMA KeepsCertified ==
    ASSUME WorklistTypeOK, [WorklistNext]_worklist,
           ~ \E i \in Id, v \in Report : CertifyRun(i, v)
    PROVE  /\ Certified' = Certified /\ \A m \in Certified : run'[m] = run[m]
           /\ commits' = commits
<1>1. ASSUME NEW i \in Id, NEW b \in Batch, StartRun(i, b)
      PROVE  /\ Certified' = Certified /\ \A m \in Certified : run'[m] = run[m]
             /\ commits' = commits
  <2>1. i \notin Certified /\ commits' = commits
    BY <1>1 DEF StartRun, Certified
  <2> QED BY <1>1, <2>1, Started DEF Certified
<1>2. ASSUME NEW i \in Id, StopRun(i)
      PROVE  /\ Certified' = Certified /\ \A m \in Certified : run'[m] = run[m]
             /\ commits' = commits
  <2>1. i \notin Certified /\ commits' = commits
    BY <1>2 DEF StopRun, Certified
  <2> QED BY <1>2, <2>1, Stopped DEF Certified
<1>3. ASSUME run' = run, commits' = commits
      PROVE  /\ Certified' = Certified /\ \A m \in Certified : run'[m] = run[m]
             /\ commits' = commits
  BY <1>3 DEF Certified
<1> QED BY <1>1, <1>2, <1>3, Reviewing DEF WorklistNext

(* Without overlap the newest start is the last commit.                    *)
LEMMA RecentIsLast ==
    ASSUME WorklistTypeOK, Serial, ~Overlap, NEW k \in Key, NEW first \in Id,
           NEW i \in Id, MostRecent(k, first, i)
    PROVE  Last(k, i)
<1>1. \A j \in Observed(k) : j \in Id /\ j \in Certified /\ j <= i
  BY DEF MostRecent, Observed, Certified
<1>2. i \in Certified /\ i \in Observed(k)
  BY DEF MostRecent, Observed
<1>3. \A j \in Id : run[j].done \in Nat
  BY DEF WorklistTypeOK, RunRow
<1>4. ASSUME NEW j \in Observed(k) PROVE run[j].done <= run[i].done
  <2>1. j = i \/ j < i
    BY <1>1, <1>4 DEF Id
  <2> QED BY <1>1, <1>2, <1>3, <2>1 DEF Serial
<1> QED BY <1>2, <1>4 DEF Last

LEMMA FoundStep ==
    ASSUME WorklistTypeOK, Ordered, Serial, Found, [WorklistNext]_worklist
    PROVE  Found'
<1>1. ASSUME NEW i \in Id, NEW v \in Report, CertifyRun(i, v) PROVE Found'
  <2>1. found' = found /\ tracking' = tracking /\ i \in Running
    BY <1>1, Finished DEF CertifyRun
  <2>2. ~Overlap => ~found.query
    BY <2>1 DEF Serial
  <2> QED BY <2>1, <2>2 DEF Found
<1>2. ASSUME NEW first \in Id, Query(first) PROVE Found'
  <2>1. found'.query /\ tracking' /\ "project" \in Tools /\ run' = run
    BY <1>2 DEF Query
  <2>2. ASSUME NEW k \in Key, found'.fails[k] # NoValue, ~Overlap
        PROVE  \E i \in Id : Last(k, i)' /\ run'[i].out = found'.fails[k]
    <3>1. PICK i \in Id : MostRecent(k, first, i) /\ found'.fails[k] = run[i].out
      BY <1>2, <2>2, QueryFinds
    <3>2. Last(k, i)
      BY <2>2, <3>1, RecentIsLast
    <3>3. Last(k, i)'
      BY <2>1, <3>2, LastKept DEF Certified
    <3> QED BY <2>1, <3>1, <3>3
  <2> QED BY <2>1, <2>2 DEF Found
<1>3. CASE Upsert
  <2>1. ~found'.query /\ \A k \in Key : found'.fails[k] = NoValue
    BY <1>3 DEF Upsert, NotFound
  <2> QED BY <2>1 DEF Found
<1>4. ASSUME found' = found, tracking => tracking',
             ~ \E i \in Id, v \in Report : CertifyRun(i, v)
      PROVE  Found'
  <2>1. Certified' = Certified /\ \A m \in Certified : run'[m] = run[m]
    BY <1>4, KeepsCertified
  <2>2. ASSUME NEW k \in Key, found.fails[k] # NoValue, ~Overlap
        PROVE  \E i \in Id : Last(k, i)' /\ run'[i].out = found.fails[k]
    <3>1. PICK i \in Id : Last(k, i) /\ run[i].out = found.fails[k]
      BY <2>2 DEF Found
    <3>2. i \in Certified
      BY <3>1 DEF Last, Observed
    <3>3. Last(k, i)'
      BY <2>1, <3>1, LastKept
    <3> QED BY <2>1, <3>1, <3>2, <3>3
  <2> QED BY <1>4, <2>2 DEF Found
<1>5. ASSUME NEW i \in Id, NEW b \in Batch, StartRun(i, b)
      PROVE  found' = found /\ (tracking => tracking')
  BY <1>5 DEF StartRun
<1>6. ASSUME NEW i \in Id, StopRun(i)
      PROVE  found' = found /\ (tracking => tracking')
  BY <1>6 DEF StopRun
<1>7. ASSUME Deploy \/ (\E k \in Key : Acknowledge(k))
             \/ UNCHANGED worklist
      PROVE  found' = found /\ (tracking => tracking')
  <2>1. CASE Deploy
    BY <2>1 DEF Deploy
  <2>2. CASE \E k \in Key : Acknowledge(k)
    BY <2>2 DEF Acknowledge
  <2>3. CASE UNCHANGED worklist
    BY <2>3 DEF worklist
  <2> QED BY <1>7, <2>1, <2>2, <2>3
<1>8. CASE \E i \in Id, v \in Report : CertifyRun(i, v)
  BY <1>1, <1>8
<1>9. CASE ~ \E i \in Id, v \in Report : CertifyRun(i, v)
  <2>1. \/ found' = found /\ (tracking => tracking')
        \/ \E first \in Id : Query(first)
        \/ Upsert
    BY <1>5, <1>6, <1>7, <1>9 DEF WorklistNext
  <2> QED BY <1>2, <1>3, <1>4, <1>9, <2>1
<1> QED BY <1>8, <1>9

-----------------------------------------------------------------------------
(* What the three updates do to a row.                                     *)
LEMMA FailedRow ==
    ASSUME NEW r \in StateRow, NEW v \in Value
    PROVE  /\ Failed(r, v).status \in {"OPEN", "ACKNOWLEDGED"}
           /\ Failed(r, v).actual = v
           /\ Failed(r, v).status = "ACKNOWLEDGED" => Failed(r, v).fingerprint = v
           /\ r.status = "ACKNOWLEDGED" /\ Failed(r, v).status = "OPEN" =>
                v # r.fingerprint
BY DEF Failed, StateRow

LEMMA PassedRow ==
    ASSUME NEW r \in StateRow
    PROVE  /\ Passed(r).status \in {"absent", "RESOLVED"}
           /\ r.status # "absent" =>
                \/ Passed(r).status = "RESOLVED" /\ Passed(r).actual = Pass
                \/ r.status = "RESOLVED" /\ Passed(r) = r
           /\ r.status = "absent" => Passed(r) = r
BY DEF Passed, StateRow

(* The row of a run that commits while its mode is tracked.                *)
LEMMA CertifiedRow ==
    ASSUME WorklistTypeOK, Ordered, NEW i \in Id, NEW v \in Report, CertifyRun(i, v), tracking
    PROVE  LET k == RowOf(run[i].batch) IN
           /\ k \in Key
           /\ row'[k] = IF v = Pass THEN Passed(row[k]) ELSE Failed(row[k], v)
           /\ \A m \in Key : m # k => row'[m] = row[m]
<1>1. RowOf(run[i].batch) \in Key
  BY WorklistConstants DEF CertifyRun, Ordered, RowOf
<1> QED BY <1>1 DEF CertifyRun, WorklistTypeOK

LEMMA AcknowledgedRow ==
    ASSUME WorklistTypeOK, NEW k \in Key, Acknowledge(k)
    PROVE  /\ row[k].status = "OPEN"
           /\ row'[k].status = "ACKNOWLEDGED"
           /\ row'[k].actual = row[k].actual
           /\ row'[k].fingerprint = row[k].actual
           /\ \A m \in Key : m # k => row'[m] = row[m]
<1>1. row[k] \in StateRow
  BY DEF WorklistTypeOK
<1> QED BY <1>1 DEF Acknowledge, WorklistTypeOK, StateRow

LEMMA UpsertedRow ==
    ASSUME WorklistTypeOK, Upsert, NEW k \in Key
    PROVE  LET v == found.fails[k] IN
           \/ v = NoValue /\ row'[k] = row[k]
           \/ /\ v # NoValue /\ v \in Value
              /\ row'[k].actual = v
              /\ row'[k].fingerprint = row[k].fingerprint
              /\ row'[k].status = IF row[k].status = "ACKNOWLEDGED"
                                     /\ row[k].fingerprint = v
                                  THEN "ACKNOWLEDGED" ELSE "OPEN"
<1>1. row[k] \in StateRow /\ found.fails[k] \in Value \cup {NoValue}
  BY DEF WorklistTypeOK, Finding
<1>2. row'[k] = IF found.fails[k] = NoValue THEN row[k]
                ELSE IF /\ row[k].status = "ACKNOWLEDGED"
                        /\ row[k].fingerprint = found.fails[k]
                     THEN [row[k] EXCEPT !.actual = found.fails[k]]
                     ELSE [row[k] EXCEPT !.status = "OPEN",
                                         !.actual = found.fails[k]]
  BY DEF Upsert
<1> QED BY <1>1, <1>2 DEF StateRow

LEMMA RowsStep ==
    ASSUME WorklistTypeOK, Ordered, Found, Rows, [WorklistNext]_worklist
    PROVE  Rows'
<1> USE WorklistConstants
<1>1. ASSUME NEW i \in Id, NEW v \in Report, CertifyRun(i, v) PROVE Rows'
  <2>1. tracking' = tracking /\ \A j \in Id : run'[j].live => tracking
    BY <1>1, Finished DEF CertifyRun, Rows
  <2>2. CASE ~tracking
    <3>1. row' = row
      BY <1>1, <2>2 DEF CertifyRun
    <3> QED BY <2>1, <3>1 DEF Rows
  <2>3. CASE tracking
    <3> DEFINE k == RowOf(run[i].batch)
    <3>1. /\ k \in Key /\ row[k] \in StateRow
          /\ row'[k] = IF v = Pass THEN Passed(row[k]) ELSE Failed(row[k], v)
          /\ \A m \in Key : m # k => row'[m] = row[m]
      BY <1>1, <2>3, CertifiedRow DEF WorklistTypeOK
    <3> HIDE DEF k
    <3>2. CASE v = Pass
      BY <2>1, <2>3, <3>1, <3>2, PassedRow DEF Rows
    <3>3. CASE v # Pass
      <4>1. v \in Value
        BY <1>1, <3>3 DEF Report
      <4> QED BY <2>1, <2>3, <3>1, <3>3, <4>1, FailedRow DEF Rows
    <3> QED BY <3>2, <3>3
  <2> QED BY <2>2, <2>3
<1>2. ASSUME NEW k \in Key, Acknowledge(k) PROVE Rows'
  <2>1. run' = run /\ tracking' = tracking
    BY <1>2 DEF Acknowledge
  <2>2. tracking
    BY <1>2 DEF Acknowledge, Rows, NoRow
  <2> QED BY <1>2, <2>1, <2>2, AcknowledgedRow DEF Rows
<1>3. CASE Upsert
  <2>1. run' = run /\ tracking' = tracking /\ tracking
    BY <1>3 DEF Upsert, Found
  <2> QED BY <1>3, <2>1, UpsertedRow DEF Rows
<1>4. ASSUME row' = row, tracking => tracking',
             \A i \in Id : run'[i].live => run[i].live
      PROVE  Rows'
  BY <1>4 DEF Rows
<1>5. ASSUME NEW i \in Id, NEW b \in Batch, StartRun(i, b) PROVE Rows'
  <2>1. row' = row /\ tracking' = tracking
    BY <1>5 DEF StartRun
  <2>2. \A j \in Id : run'[j].live => run[j].live
    BY <1>5, Started
  <2> QED BY <1>4, <2>1, <2>2
<1>6. ASSUME NEW i \in Id, StopRun(i) PROVE Rows'
  <2>1. row' = row /\ tracking' = tracking
    BY <1>6 DEF StopRun
  <2>2. \A j \in Id : run'[j].live => run[j].live
    BY <1>6, Stopped
  <2> QED BY <1>4, <2>1, <2>2
<1>7. CASE Deploy \/ (\E first \in Id : Query(first))
           \/ UNCHANGED worklist
  <2>1. row' = row /\ run' = run /\ (tracking => tracking')
    BY <1>7 DEF Deploy, Query, worklist
  <2> QED BY <1>4, <2>1
<1> QED BY <1>1, <1>2, <1>3, <1>5, <1>6, <1>7 DEF WorklistNext

-----------------------------------------------------------------------------
(* The projection writes what the row says already.                        *)
LEMMA UpsertRepeats ==
    ASSUME WorklistTypeOK, Ordered, Found, Rows, WorklistCurrent, ProjectsAlone, Upsert,
           NEW k \in Key, NEW i \in Id, Last(k, i)
    PROVE  /\ found.fails[k] # NoValue => found.fails[k] = run[i].out
           /\ row[k].status # "absent" => row'[k] = row[k]
<1>1. found.fails[k] # NoValue => found.fails[k] = run[i].out
  BY LastUnique DEF Found, ProjectsAlone, Upsert
<1>2. row[k] \in StateRow /\ row'[k] \in StateRow
  BY TypeStep DEF WorklistTypeOK, WorklistNext
<1>3. ASSUME row[k].status # "absent", found.fails[k] # NoValue
      PROVE  row'[k] = row[k]
  <2>1. /\ run[i].out \in Value /\ run[i].out # Pass
        /\ row[k].actual = run[i].out
        /\ row[k].status \in {"OPEN", "ACKNOWLEDGED"}
        /\ row[k].status = "ACKNOWLEDGED" => row[k].fingerprint = run[i].out
    BY <1>1, <1>2, <1>3, UpsertedRow, WorklistConstants
       DEF WorklistCurrent, StateRow
  <2>2. /\ row'[k].status = row[k].status /\ row'[k].actual = row[k].actual
        /\ row'[k].fingerprint = row[k].fingerprint
    BY <1>1, <1>3, <2>1, UpsertedRow
  <2> QED BY <1>2, <2>2 DEF StateRow
<1>4. found.fails[k] = NoValue => row'[k] = row[k]
  BY UpsertedRow
<1> QED BY <1>1, <1>3, <1>4

LEMMA CurrentStep ==
    ASSUME IInv, ProjectsAlone, [WorklistNext]_worklist
    PROVE  WorklistCurrent'
<1> USE WorklistConstants
<1> SUFFICES ASSUME NEW k \in Key, NEW j \in Id, Last(k, j)'
             PROVE  /\ run'[j].live /\ run'[j].out # Pass => row'[k].status # "absent"
                    /\ row'[k].status # "absent" =>
                         /\ row'[k].status = "RESOLVED" <=> run'[j].out = Pass
                         /\ row'[k].actual = run'[j].out
                         /\ row'[k].status = "ACKNOWLEDGED" =>
                              row'[k].fingerprint = run'[j].out
  BY DEF WorklistCurrent
<1>0. row[k] \in StateRow
  BY DEF IInv, WorklistTypeOK
<1> DEFINE Agrees ==
      /\ run'[j].live /\ run'[j].out # Pass => row'[k].status # "absent"
      /\ row'[k].status # "absent" =>
           /\ row'[k].status = "RESOLVED" <=> run'[j].out = Pass
           /\ row'[k].actual = run'[j].out
           /\ row'[k].status = "ACKNOWLEDGED" =>
                row'[k].fingerprint = run'[j].out
<1>1. ASSUME NEW i \in Id, NEW v \in Report, CertifyRun(i, v) PROVE Agrees
  <2>1. CASE k = RowOf(run[i].batch)
    <3>1. /\ run'[j].out = v /\ run'[j].live = tracking
      BY <1>1, <2>1, LastCertified, Finished DEF IInv
    <3>2. CASE tracking
      <4>1. row'[k] = IF v = Pass THEN Passed(row[k]) ELSE Failed(row[k], v)
        BY <1>1, <2>1, <3>2, CertifiedRow DEF IInv
      <4>2. CASE v = Pass
        BY <1>0, <3>1, <4>1, <4>2, PassedRow DEF IInv, Rows
      <4>3. CASE v # Pass
        <5>1. v \in Value
          BY <1>1, <4>3 DEF Report
        <5> QED BY <1>0, <3>1, <4>1, <4>3, <5>1, FailedRow
      <4> QED BY <4>2, <4>3
    <3>3. CASE ~tracking
      <4>1. row'[k].status = "absent"
        BY <1>1, <3>3 DEF CertifyRun, IInv, Rows, NoRow
      <4> QED BY <3>1, <3>3, <4>1
    <3> QED BY <3>2, <3>3
  <2>2. CASE k # RowOf(run[i].batch)
    <3>1. j # i /\ Last(k, j) /\ run'[j] = run[j]
      BY <1>1, <2>2, LastCertified, Finished DEF IInv
    <3>2. row'[k] = row[k]
      BY <1>1, <2>2 DEF CertifyRun, IInv, WorklistTypeOK
    <3> QED BY <3>1, <3>2 DEF IInv, WorklistCurrent
  <2> QED BY <2>1, <2>2
<1>2. ASSUME ~ \E i \in Id, v \in Report : CertifyRun(i, v) PROVE Agrees
  <2>1. Last(k, j) /\ run'[j] = run[j]
    <3>1. Certified' = Certified /\ \A m \in Certified : run'[m] = run[m]
      BY <1>2, KeepsCertified DEF IInv
    <3>2. Last(k, j)
      BY <3>1, LastKept
    <3> QED BY <3>1, <3>2 DEF Last, Observed
  <2>2. CASE row'[k] = row[k]
    BY <2>1, <2>2 DEF IInv, WorklistCurrent
  <2>3. CASE Upsert
    <3>1. CASE row[k].status # "absent"
      BY <2>1, <2>2, <2>3, <3>1, UpsertRepeats DEF IInv
    <3>2. CASE row[k].status = "absent"
      <4>1. CASE found.fails[k] = NoValue
        BY <2>2, <2>3, <4>1, UpsertedRow DEF IInv
      <4>2. CASE found.fails[k] # NoValue
        <5>1. /\ found.fails[k] = run[j].out /\ found.fails[k] # Pass
              /\ row'[k].status = "OPEN" /\ row'[k].actual = found.fails[k]
          BY <2>1, <2>3, <3>2, <4>2, UpsertRepeats, UpsertedRow DEF IInv
        <5> QED BY <2>1, <5>1
      <4> QED BY <4>1, <4>2
    <3> QED BY <3>1, <3>2
  <2>4. ASSUME NEW m \in Key, Acknowledge(m) PROVE Agrees
    <3>1. CASE m = k
      <4>1. /\ row[k].status = "OPEN" /\ row'[k].status = "ACKNOWLEDGED"
            /\ row'[k].actual = row[k].actual
            /\ row'[k].fingerprint = row[k].actual
        BY <2>4, <3>1, AcknowledgedRow DEF IInv
      <4>2. row[k].actual = run[j].out /\ run[j].out # Pass
        BY <2>1, <4>1 DEF IInv, WorklistCurrent
      <4> QED BY <2>1, <4>1, <4>2
    <3>2. CASE m # k
      BY <2>2, <2>4, <3>2, AcknowledgedRow DEF IInv
    <3> QED BY <3>1, <3>2
  <2>5. ASSUME NEW i \in Id,
               (\E b \in Batch : StartRun(i, b)) \/ StopRun(i) \/ Query(i)
        PROVE  row' = row
    BY <2>5 DEF StartRun, StopRun, Query
  <2>6. ASSUME Deploy \/ UNCHANGED worklist
        PROVE  row' = row
    BY <2>6 DEF Deploy, worklist
  <2> QED BY <1>2, <2>2, <2>3, <2>4, <2>5, <2>6 DEF WorklistNext
<1> QED BY <1>1, <1>2

LEMMA UpsertKeeps ==
    ASSUME IInv, ProjectsAlone, Upsert, NEW k \in Key, row[k].status # "absent"
    PROVE  row'[k] = row[k]
<1>1. CASE found.fails[k] = NoValue
  BY <1>1, UpsertedRow DEF IInv
<1>2. CASE found.fails[k] # NoValue
  <2>1. ~Overlap
    BY DEF IInv, Found, ProjectsAlone, Upsert
  <2>2. PICK i \in Id : Last(k, i)
    BY <1>2, <2>1 DEF IInv, Found
  <2> QED BY <2>2, UpsertRepeats DEF IInv
<1> QED BY <1>1, <1>2

-----------------------------------------------------------------------------
(* The strengthening is inductive.                                         *)
LEMMA Inductive == WorklistSpec /\ ProjectsAlone => []IInv
<1>1. WorklistInit => IInv
  <2> SUFFICES ASSUME WorklistInit PROVE IInv
    OBVIOUS
  <2>1. NewRun \in RunRow /\ NoRow \in StateRow
    BY DEF NewRun, NoRow, RunRow, StateRow
  <2>2. WorklistTypeOK
    BY <2>1 DEF WorklistInit, WorklistTypeOK, NotFound, Finding
  <2>3. Certified = {} /\ Running = {} /\ \A i \in Id : run[i].state = "new"
    BY DEF WorklistInit, NewRun, Certified, Running
  <2>4. \A i \in Id : ~run[i].live
    BY DEF WorklistInit, NewRun
  <2>5. Ordered /\ Serial
    BY <2>3 DEF Ordered, Serial
  <2>6. Found /\ Rows
    BY <2>4 DEF WorklistInit, Found, Rows, NotFound, NoRow
  <2>7. WorklistCurrent
    BY <2>3 DEF WorklistCurrent, Last, Observed
  <2> QED BY <2>2, <2>5, <2>6, <2>7 DEF IInv
<1>2. IInv /\ ProjectsAlone /\ [WorklistNext]_worklist => IInv'
  BY TypeStep, OrderedStep, SerialStep, FoundStep, RowsStep, CurrentStep
     DEF IInv
<1>3. ProjectsAlone => []ProjectsAlone
  OBVIOUS
<1> QED BY <1>1, <1>2, <1>3, PTL DEF WorklistSpec

(* Every variable keeps its type, whatever overlaps.                       *)
THEOREM WorklistTyped == WorklistSpec => []WorklistTypeOK
<1>1. WorklistInit => WorklistTypeOK /\ Ordered
  <2> SUFFICES ASSUME WorklistInit PROVE WorklistTypeOK /\ Ordered
    OBVIOUS
  <2>1. NewRun \in RunRow /\ NoRow \in StateRow
    BY DEF NewRun, NoRow, RunRow, StateRow
  <2>2. WorklistTypeOK
    BY <2>1 DEF WorklistInit, WorklistTypeOK, NotFound, Finding
  <2>3. Certified = {} /\ \A i \in Id : run[i].state = "new"
    BY DEF WorklistInit, NewRun, Certified
  <2> QED BY <2>2, <2>3 DEF Ordered
<1>2. WorklistTypeOK /\ Ordered /\ [WorklistNext]_worklist => (WorklistTypeOK /\ Ordered)'
  BY TypeStep, OrderedStep
<1> QED BY <1>1, <1>2, PTL DEF WorklistSpec

(* While projections run alone, every row of the worklist agrees with its  *)
(* last certified observation.                                             *)
THEOREM Current == WorklistSpec /\ ProjectsAlone => []WorklistCurrent
BY Inductive, PTL DEF IInv

(* ... and only a new observation with another value undoes a review.      *)
THEOREM Reviewed == WorklistSpec /\ ProjectsAlone => ReviewsStand
<1>1. IInv /\ ProjectsAlone /\ [WorklistNext]_worklist =>
        [\A k \in Key :
           row[k].status = "ACKNOWLEDGED" /\ row'[k].status = "OPEN" =>
             \E i \in Running : /\ run'[i].state = "certified"
                                /\ Scope[run[i].batch] = k
                                /\ run'[i].out # row[k].fingerprint]_worklist
  <2> SUFFICES ASSUME IInv, ProjectsAlone, WorklistNext, NEW k \in Key,
                      row[k].status = "ACKNOWLEDGED", row'[k].status = "OPEN"
               PROVE  \E i \in Running : /\ run'[i].state = "certified"
                                         /\ Scope[run[i].batch] = k
                                         /\ run'[i].out # row[k].fingerprint
    OBVIOUS
  <2>0. row[k] \in StateRow
    BY DEF IInv, WorklistTypeOK
  <2>1. ASSUME NEW i \in Id, NEW v \in Report, CertifyRun(i, v)
        PROVE  /\ i \in Running /\ run'[i].state = "certified"
               /\ Scope[run[i].batch] = k /\ run'[i].out # row[k].fingerprint
    <3>1. tracking
      BY <2>1 DEF CertifyRun
    <3>2. k = RowOf(run[i].batch)
      BY <2>1, <3>1, CertifiedRow DEF IInv
    <3>3. row'[k] = IF v = Pass THEN Passed(row[k]) ELSE Failed(row[k], v)
      BY <2>1, <3>1, <3>2, CertifiedRow DEF IInv
    <3>4. v # Pass /\ v \in Value
      BY <2>0, <2>1, <3>3, PassedRow DEF Report
    <3>5. v # row[k].fingerprint
      BY <2>0, <3>3, <3>4, FailedRow
    <3> QED BY <2>1, <3>2, <3>5, Finished DEF IInv, RowOf
  <2>2. ~Upsert
    BY UpsertKeeps
  <2>3. ASSUME NEW m \in Key PROVE ~Acknowledge(m)
    <3>1. CASE m = k
      BY <3>1 DEF Acknowledge
    <3>2. CASE m # k
      BY <3>2, AcknowledgedRow DEF IInv
    <3> QED BY <3>1, <3>2
  <2>4. ASSUME NEW i \in Id
        PROVE  ~((\E b \in Batch : StartRun(i, b)) \/ StopRun(i) \/ Query(i))
    BY DEF StartRun, StopRun, Query
  <2>5. ~Deploy
    BY DEF Deploy
  <2> QED BY <2>1, <2>2, <2>3, <2>4, <2>5 DEF WorklistNext
<1>2. ProjectsAlone => []ProjectsAlone
  OBVIOUS
<1> QED BY <1>1, <1>2, Inductive, PTL DEF WorklistSpec, ReviewsStand

(* ... and no projection brings back a row that has been resolved.         *)
THEOREM Cleared == WorklistSpec /\ ProjectsAlone => ClearedStaysCleared
<1>1. IInv /\ ProjectsAlone /\ [WorklistNext]_worklist =>
        [\A k \in Key :
           row[k].status = "RESOLVED" /\ row'[k].status = "OPEN" =>
             commits' = commits + 1]_worklist
  <2> SUFFICES ASSUME IInv, ProjectsAlone, WorklistNext, NEW k \in Key,
                      row[k].status = "RESOLVED", row'[k].status = "OPEN"
               PROVE  commits' = commits + 1
    OBVIOUS
  <2>1. ASSUME NEW i \in Id, NEW v \in Report, CertifyRun(i, v)
        PROVE  commits' = commits + 1
    BY <2>1 DEF CertifyRun
  <2>2. ~Upsert
    BY UpsertKeeps
  <2>3. ASSUME NEW m \in Key PROVE ~Acknowledge(m)
    <3>1. CASE m = k
      BY <3>1 DEF Acknowledge
    <3>2. CASE m # k
      BY <3>2, AcknowledgedRow DEF IInv
    <3> QED BY <3>1, <3>2
  <2>4. ASSUME NEW i \in Id
        PROVE  ~((\E b \in Batch : StartRun(i, b)) \/ StopRun(i) \/ Query(i))
    BY DEF StartRun, StopRun, Query
  <2>5. ~Deploy
    BY DEF Deploy
  <2> QED BY <2>1, <2>2, <2>3, <2>4, <2>5 DEF WorklistNext
<1>2. ProjectsAlone => []ProjectsAlone
  OBVIOUS
<1> QED BY <1>1, <1>2, Inductive, PTL DEF WorklistSpec, ClearedStaysCleared

=============================================================================
