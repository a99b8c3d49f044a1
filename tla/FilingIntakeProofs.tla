------------------------- MODULE FilingIntakeProofs -------------------------
(* Theorems about FilingIntake, for every number of days, companies,       *)
(* schedules, stops and deposited files.                                   *)
EXTENDS FilingIntake, FiniteSetTheorems, TLAPS

(* The type of the variables that each part of the system owns.            *)
EnvType ==
    /\ filed \in Schedules
    /\ today \in 1 .. NumDays + 1
    /\ exposed \in [Scope -> Versions]
    /\ krx \subseteq KrxFiles
    /\ stops \in 0 .. MaxStops
    /\ lost \subseteq Stored
CoreType ==
    /\ lists \in [Days -> (SUBSET Scope) \cup {None}]
    /\ deferred \subseteq Requirement
    /\ major \in [Scope -> Versions]
    /\ resp \subseteq Stored /\ mani \subseteq Stored
AltType ==
    /\ pointer \in [Scope -> Versions \cup {-1}]
    /\ pending \in [Days -> [Turns -> (SUBSET Stored) \cup {None}]]
    /\ done \subseteq Days /\ certified \subseteq Days
    /\ krxKnown \subseteq KrxFiles
    /\ silver \in Silver
BootType ==
    /\ cache \in (SUBSET Scope) \cup {None}
    /\ batch \in Batch
    /\ boot \in Boot
TaskType ==
    /\ task \in Task
    /\ task.pc # "idle" => task.day \in Days
    /\ task.pc = "collect" => task.turn \in Turns

TypeInv == EnvType /\ CoreType /\ AltType /\ BootType /\ TaskType

-----------------------------------------------------------------------------
LEMMA EditionsBound ==
    ASSUME NEW s \in Scope, NumDays \in Nat
    PROVE  Editions(s) \in Nat /\ Editions(s) <= NumDays
<1> DEFINE E == {d \in Days : d <= today /\ s \in filed[d]}
<1>1. IsFiniteSet(Days) /\ Cardinality(Days) = NumDays
  BY FS_Interval DEF Days
<1>2. E \subseteq Days
  OBVIOUS
<1>3. IsFiniteSet(E) /\ Cardinality(E) <= Cardinality(Days)
  BY <1>1, <1>2, FS_Subset
<1>4. Cardinality(E) \in Nat
  BY <1>3, FS_CardinalityType
<1> QED
  BY <1>1, <1>3, <1>4 DEF Editions

LEMMA RequiredType ==
    ASSUME NEW list
    PROVE  Required(list) \subseteq Requirement
BY IntakeAssumption DEF Required, Requirement, ReportScopes, Reports

LEMMA ScopesOfType ==
    ASSUME NEW reqs, reqs \subseteq Requirement
    PROVE  ScopesOf(reqs) \subseteq Scope
BY DEF ScopesOf, Requirement, Scope, Codes, Reports

LEMMA AnswersType ==
    ASSUME EnvType, NEW s \in Scope
    PROVE  Answers(s) \subseteq Versions
<1>1. exposed[s] \in Versions
  BY DEF EnvType
<1> QED
  BY <1>1, IntakeAssumption DEF Answers, Versions

LEMMA AltScopesType ==
    ASSUME EnvType, NEW d \in Days, NEW n \in Turns
    PROVE  AltScopes(Collectors[n], d) \subseteq Scope
<1>1. ScopesOf(Required(lists[d])) \subseteq Scope
  BY RequiredType, ScopesOfType
<1>2. filed[d] \subseteq Scope
  BY IntakeAssumption DEF EnvType
<1>3. Listed \X {"profile"} \subseteq Scope
  BY IntakeAssumption DEF Scope, Codes
<1>4. n = 1 \/ n = 2 \/ n = 3
  BY DEF Turns
<1>5. CASE n = 1
  BY <1>1, <1>5 DEF AltScopes, Collectors
<1>6. CASE n = 2
  BY <1>2, <1>6 DEF AltScopes, Collectors
<1>7. CASE n = 3
  <2>1. AltScopes(Collectors[n], d) =
          {c \in Listed : Position[c] % Slots = Shard(d)} \X {"profile"}
    BY <1>7 DEF AltScopes, Collectors
  <2> QED
    BY <2>1, <1>3
<1> QED
  BY <1>4, <1>5, <1>6, <1>7

LEMMA SelectableType ==
    ASSUME BootType
    PROVE  Selectable \subseteq Scope
BY DEF BootType, Selectable, Discovered

-----------------------------------------------------------------------------
LEMMA TypeInit == Init => TypeInv
<1> SUFFICES ASSUME Init PROVE TypeInv
  OBVIOUS
<1>1. EnvType
  BY IntakeAssumption DEF Init, EnvType, Versions
<1>2. CoreType
  BY IntakeAssumption DEF Init, CoreType, Versions
<1>3. AltType
  BY IntakeAssumption DEF Init, AltType, Versions, Silver
<1>4. BootType
  BY DEF Init, BootType, Batch, Boot, BootIdle
<1>5. TaskType
  BY DEF Init, TaskType, Task, Idle
<1> QED
  BY <1>1, <1>2, <1>3, <1>4, <1>5 DEF TypeInv

(* The task after a step that starts or ends it.                           *)
LEMMA IdleType ==
    /\ Idle \in Task
    /\ \A d \in Days, p \in {"lists", "select"} : [Idle EXCEPT !.day = d, !.pc = p] \in Task
<1>1. Idle \in Task
  BY DEF Idle, Task
<1>2. ASSUME NEW t \in Task, NEW d \in Days, NEW p \in {"lists", "select"}
      PROVE  [t EXCEPT !.day = d, !.pc = p] \in Task
  BY <1>2 DEF Task
<1> QED
  BY <1>1, <1>2

LEMMA TypeStep == TypeInv /\ [Next]_vars => TypeInv'
<1> SUFFICES ASSUME TypeInv, [Next]_vars PROVE TypeInv'
  OBVIOUS
<1> USE DEF TypeInv
<1>1. CASE UNCHANGED vars
  BY <1>1 DEF vars, env, core, alt, bootstrap, faults, EnvType, CoreType, AltType,
              BootType, TaskType
<1>2. CASE NextDay
  <2>1. EnvType'
    BY <1>2, IntakeAssumption DEF NextDay, EnvType, faults
  <2> QED
    BY <1>2, <2>1 DEF NextDay, core, alt, bootstrap, faults, CoreType, AltType, BootType, TaskType
<1>3. ASSUME NEW s \in Scope, Expose(s) PROVE TypeInv'
  <2>1. exposed[s] + 1 \in Versions
    BY <1>3, EditionsBound, IntakeAssumption DEF Expose, EnvType, Versions
  <2>2. EnvType'
    BY <1>3, <2>1 DEF Expose, EnvType, faults
  <2> QED
    BY <1>3, <2>2 DEF Expose, core, alt, bootstrap, faults, CoreType, AltType, BootType, TaskType
<1>4. ASSUME NEW f \in KrxFiles, Deposit(f) PROVE TypeInv'
  BY <1>4 DEF Deposit, core, alt, bootstrap, faults, EnvType, CoreType, AltType, BootType,
              TaskType
<1>5. ASSUME NEW d \in Days, Launch(d) PROVE TypeInv'
  <2>1. TaskType'
    <3>1. task' = [Idle EXCEPT !.day = d, !.pc = "lists"]
          \/ task' = [Idle EXCEPT !.day = d, !.pc = "select"]
      BY <1>5 DEF Launch, Idle
    <3> QED
      BY <3>1, IdleType DEF TaskType, Idle
  <2> QED
    BY <1>5, <2>1 DEF Launch, env, core, alt, bootstrap, faults, EnvType, CoreType, AltType,
                      BootType
<1>6. CASE ReadLists
  <2>1. filed[task.day] \in SUBSET Scope
    BY <1>6, IntakeAssumption DEF ReadLists, EnvType, TaskType
  <2> DEFINE list == IF lists[task.day] = None THEN filed[task.day] ELSE lists[task.day]
             reqs == deferred \cup Required(list)
  <2>2. list \in SUBSET Scope
    BY <1>6, <2>1 DEF ReadLists, CoreType, TaskType
  <2>3. reqs \subseteq Requirement /\ ScopesOf(reqs) \subseteq Scope
    BY RequiredType, ScopesOfType DEF CoreType
  <2>4. CoreType'
    BY <1>6, <2>2 DEF ReadLists, CoreType
  <2>5. task' = [task EXCEPT !.pc = "fetch", !.reqs = reqs, !.todo = ScopesOf(reqs)]
    BY <1>6 DEF ReadLists
  <2> HIDE DEF reqs
  <2>6. TaskType'
    BY <1>6, <2>3, <2>5 DEF ReadLists, TaskType, Task
  <2> QED
    BY <1>6, <2>4, <2>6 DEF ReadLists, env, alt, bootstrap, faults, EnvType, AltType, BootType
<1>7. ASSUME NEW s \in Scope, FetchStatement(s) PROVE TypeInv'
  <2>1. CoreType'
    BY <1>7 DEF FetchStatement, CoreType, EnvType
  <2>2. TaskType'
    BY <1>7 DEF FetchStatement, TaskType, Task
  <2> QED
    BY <1>7, <2>1, <2>2 DEF FetchStatement, env, alt, bootstrap, faults, EnvType, AltType,
                            BootType
<1>8. CASE SaveDeferred
  <2>1. CoreType'
    BY <1>8 DEF SaveDeferred, CoreType, TaskType, Task, Missing
  <2>2. TaskType'
    BY <1>8 DEF SaveDeferred, TaskType, Task
  <2> QED
    BY <1>8, <2>1, <2>2 DEF SaveDeferred, env, alt, bootstrap, faults, EnvType, AltType,
                            BootType
<1>9. ASSUME NEW s \in Scope, PutResponse(s) PROVE TypeInv'
  <2>1. PICK v \in Answers(s) :
          IF <<s, v>> \in resp /\ <<s, v>> \in mani
          THEN /\ task' = [task EXCEPT !.todo = @ \ {s}]
               /\ UNCHANGED resp
          ELSE /\ task' = [task EXCEPT !.todo = @ \ {s}, !.pc = "manifest", !.got = {<<s, v>>}]
               /\ resp' = resp \cup {<<s, v>>}
    BY <1>9 DEF PutResponse
  <2>2. <<s, v>> \in Stored
    BY AnswersType DEF Stored
  <2>3. CoreType'
    BY <1>9, <2>1, <2>2 DEF PutResponse, CoreType
  <2>4. TaskType'
    <3>1. CASE <<s, v>> \in resp /\ <<s, v>> \in mani
      BY <2>1, <3>1 DEF TaskType, Task
    <3>2. CASE ~(<<s, v>> \in resp /\ <<s, v>> \in mani)
      <4>1. task' = [task EXCEPT !.todo = @ \ {s}, !.pc = "manifest", !.got = {<<s, v>>}]
        BY <2>1, <3>2
      <4> QED
        BY <1>9, <4>1, <2>2 DEF PutResponse, TaskType, Task
    <3> QED
      BY <3>1, <3>2
  <2> QED
    BY <1>9, <2>3, <2>4 DEF PutResponse, env, alt, bootstrap, faults, EnvType, AltType,
                            BootType
<1>10. CASE PutManifest
  <2>1. CoreType'
    BY <1>10 DEF PutManifest, CoreType, TaskType, Task
  <2>2. TaskType'
    BY <1>10 DEF PutManifest, TaskType, Task
  <2> QED
    BY <1>10, <2>1, <2>2 DEF PutManifest, env, alt, bootstrap, faults, EnvType, AltType,
                             BootType
<1>11. CASE Collected
  <2>1. TaskType'
    BY <1>11 DEF Collected, TaskType, Task
  <2> QED
    BY <1>11, <2>1 DEF Collected, env, core, alt, bootstrap, faults, EnvType, CoreType,
                       AltType, BootType
<1>12. CASE LoadDay
  <2>1. \A s \in task.changed : <<s, major[s]>> \in Stored
    BY DEF TaskType, Task, CoreType, Stored
  <2>2. task.pairs \subseteq Stored /\ task.day \in Days
    BY <1>12 DEF LoadDay, TaskType, Task
  <2>3. silver' \in Silver
    BY <1>12, <2>1, <2>2 DEF LoadDay, AltType, Silver
  <2>4. AltType'
    BY <1>12, <2>2, <2>3 DEF LoadDay, AltType, alt
  <2>5. TaskType'
    BY <1>12, <2>2, IdleType DEF LoadDay, TaskType, Idle
  <2> QED
    BY <1>12, <2>4, <2>5 DEF LoadDay, env, core, bootstrap, faults, EnvType, CoreType, BootType
<1>13. CASE Reuse
  <2>1. pending[task.day][task.turn] \in SUBSET Stored
    BY <1>13 DEF Reuse, AltType, TaskType
  <2>2. task.turn + 1 \in 1 .. 4
    BY <1>13 DEF Reuse, Turns
  <2>3. TaskType'
    BY <1>13, <2>1, <2>2 DEF Reuse, TaskType, Task
  <2> QED
    BY <1>13, <2>3 DEF Reuse, env, core, alt, bootstrap, faults, EnvType, CoreType, AltType,
                       BootType
<1>14. CASE Collect
  <2>1. AltScopes(Collectors[task.turn], task.day) \subseteq Scope
    BY <1>14, AltScopesType DEF Collect, TaskType
  <2>2. TaskType'
    BY <1>14, <2>1 DEF Collect, TaskType, Task
  <2> QED
    BY <1>14, <2>2 DEF Collect, env, core, alt, bootstrap, faults, EnvType, CoreType, AltType,
                       BootType
<1>15. ASSUME NEW s \in Scope, FetchInput(s) PROVE TypeInv'
  <2>1. PICK v \in Answers(s) :
          /\ pointer' = [pointer EXCEPT ![s] = v]
          /\ task' = [task EXCEPT !.todo = @ \ {s},
                                  !.got = IF pointer[s] = v THEN @ ELSE @ \cup {<<s, v>>}]
    BY <1>15 DEF FetchInput
  <2>2. v \in Versions /\ <<s, v>> \in Stored
    BY AnswersType DEF Stored
  <2>3. AltType'
    BY <1>15, <2>1, <2>2 DEF FetchInput, AltType
  <2>4. TaskType'
    BY <1>15, <2>1, <2>2 DEF FetchInput, TaskType, Task
  <2> QED
    BY <1>15, <2>3, <2>4 DEF FetchInput, env, core, bootstrap, faults, EnvType, CoreType,
                             BootType
<1>16. CASE SavePending
  <2>1. AltType'
    BY <1>16 DEF SavePending, AltType, TaskType, Task
  <2>2. TaskType'
    <3>1. task \in Task /\ task.day \in Days
      BY <1>16 DEF SavePending, TaskType
    <3>2. task.turn + 1 \in 1 .. 4
      BY <1>16 DEF TaskType, Turns, SavePending
    <3> QED
      BY <1>16, <3>1, <3>2 DEF SavePending, TaskType, Task
  <2> QED
    BY <1>16, <2>1, <2>2 DEF SavePending, env, core, bootstrap, faults, EnvType, CoreType,
                             BootType
<1>17. CASE Request
  <2>1. TaskType'
    BY <1>17 DEF Request, TaskType, Task, EnvType
  <2> QED
    BY <1>17, <2>1 DEF Request, env, core, alt, bootstrap, faults, EnvType, CoreType, AltType,
                       BootType
<1>18. CASE PublishFiles
  <2>1. AltType'
    BY <1>18 DEF PublishFiles, AltType, alt, Silver, TaskType, Task
  <2>2. TaskType'
    BY <1>18 DEF PublishFiles, TaskType, Task
  <2> QED
    BY <1>18, <2>1, <2>2 DEF PublishFiles, env, core, bootstrap, faults, EnvType, CoreType,
                             BootType
<1>19. CASE MarkKrx
  <2>1. AltType'
    BY <1>19 DEF MarkKrx, AltType, TaskType, Task
  <2>2. TaskType'
    BY <1>19 DEF MarkKrx, TaskType, Task
  <2> QED
    BY <1>19, <2>1, <2>2 DEF MarkKrx, env, core, bootstrap, faults, EnvType, CoreType,
                             BootType
<1>20. CASE CompleteDay
  <2>1. AltType'
    BY <1>20 DEF CompleteDay, AltType, TaskType
  <2>2. TaskType'
    BY <1>20, IdleType DEF CompleteDay, TaskType, Idle
  <2> QED
    BY <1>20, <2>1, <2>2 DEF CompleteDay, env, core, bootstrap, faults, EnvType, CoreType,
                             BootType
<1>21. CASE BootSelect
  <2>1. PICK chosen \in SUBSET Unpointed(Selectable) :
          /\ batch' = [status |-> "COLLECTING", scopes |-> chosen]
          /\ boot' = [BootIdle EXCEPT !.pc = "collect", !.todo = chosen]
    BY <1>21 DEF BootSelect
  <2>2. chosen \subseteq Scope /\ cache' \subseteq Scope
    BY <1>21, SelectableType DEF BootSelect, Unpointed
  <2>3. BootType'
    BY <2>1, <2>2 DEF BootType, Batch, Boot, BootIdle
  <2> QED
    BY <1>21, <2>3 DEF BootSelect, env, core, alt, faults, EnvType, CoreType, AltType, TaskType
<1>22. CASE BootResume
  <2>1. BootType'
    <3>1. batch.scopes \subseteq Scope /\ Unpointed(batch.scopes) \subseteq Scope
      BY DEF BootType, Batch, Unpointed
    <3>2. \A s \in batch.scopes \ Unpointed(batch.scopes) : pointer[s] \in Versions
      BY <3>1 DEF AltType, Unpointed
    <3>3. {<<s, pointer[s]>> : s \in batch.scopes \ Unpointed(batch.scopes)} \subseteq Stored
      BY <3>1, <3>2 DEF Stored
    <3> QED
      BY <1>22, <3>1, <3>3 DEF BootResume, BootType, Boot
  <2> QED
    BY <1>22, <2>1 DEF BootResume, env, core, alt, faults, EnvType, CoreType, AltType, TaskType
<1>23. ASSUME NEW s \in Scope, BootFetch(s) PROVE TypeInv'
  <2>1. PICK v \in Answers(s) :
          /\ pointer' = [pointer EXCEPT ![s] = v]
          /\ boot' = [boot EXCEPT !.todo = @ \ {s}, !.files = @ \cup {<<s, v>>}]
    BY <1>23 DEF BootFetch
  <2>2. v \in Versions /\ <<s, v>> \in Stored
    BY AnswersType DEF Stored, AltType
  <2>3. AltType'
    BY <1>23, <2>1, <2>2 DEF BootFetch, AltType
  <2>4. BootType'
    BY <1>23, <2>1, <2>2 DEF BootFetch, BootType, Boot
  <2> QED
    BY <1>23, <2>3, <2>4 DEF BootFetch, env, core, faults, EnvType, CoreType, TaskType
<1>24. CASE BootCollected
  <2>1. BootType'
    BY <1>24 DEF BootCollected, BootType, Batch, Boot
  <2> QED
    BY <1>24, <2>1 DEF BootCollected, env, core, alt, faults, EnvType, CoreType, AltType,
                       TaskType
<1>25. CASE BootPublish
  <2>1. AltType'
    BY <1>25 DEF BootPublish, AltType, alt, Silver, BootType, Boot
  <2>2. BootType'
    BY <1>25 DEF BootPublish, BootType, Boot
  <2> QED
    BY <1>25, <2>1, <2>2 DEF BootPublish, env, core, faults, EnvType, CoreType, TaskType
<1>26. CASE BootMark
  <2>1. BootType'
    BY <1>26 DEF BootMark, BootType, Batch, Boot, BootIdle
  <2> QED
    BY <1>26, <2>1 DEF BootMark, env, core, alt, faults, EnvType, CoreType, AltType, TaskType
<1>27. CASE Stop
  <2>1. Unsaved \subseteq Stored
    BY DEF Unsaved, TaskType, Task, CoreType, Stored
  <2>2. EnvType'
    BY <1>27, <2>1, IntakeAssumption DEF Stop, env, EnvType
  <2>3. TaskType'
    BY <1>27, IdleType DEF Stop, TaskType, Idle
  <2> QED
    BY <1>27, <2>2, <2>3 DEF Stop, env, core, alt, bootstrap, CoreType, AltType, BootType
<1>28. CASE BootStop
  <2>1. EnvType'
    BY <1>28, IntakeAssumption DEF BootStop, env, EnvType
  <2>2. BootType'
    BY <1>28 DEF BootStop, BootType, Boot, BootIdle
  <2> QED
    BY <1>28, <2>1, <2>2 DEF BootStop, core, alt, CoreType, AltType, TaskType
<1> QED
  BY <1>1, <1>2, <1>3, <1>4, <1>5, <1>6, <1>7, <1>8, <1>9, <1>10, <1>11, <1>12, <1>13, <1>14,
     <1>15, <1>16, <1>17, <1>18, <1>19, <1>20, <1>21, <1>22, <1>23, <1>24, <1>25, <1>26,
     <1>27, <1>28 DEF Next, DailyStep, BootStep

(* Every variable keeps its type (all variables of the collectors, the     *)
(* increment and the bootstrap).                                           *)
THEOREM TypeCorrect == Spec => []TypeOK
<1>1. TypeInv => TypeOK
  BY DEF TypeInv, TypeOK, EnvType, CoreType, AltType, BootType, TaskType
<1> QED
  BY TypeInit, TypeStep, <1>1, PTL DEF Spec

-----------------------------------------------------------------------------
(* Filings.  While the day is fetched, the requirements in memory cover    *)
(* the stored ones and those of the day's list; afterwards every annual    *)
(* report of the day is stored or deferred.                                *)
DayKept(d) == \A s \in filed[d] : s[1] \in Listed /\ s[2] = "annual" => Kept(d, s)

FetchCovers ==
    /\ deferred \subseteq task.reqs
    /\ Required(filed[task.day]) \subseteq task.reqs
    /\ \A s \in task.met : major[s] > 0

KeptInv ==
    /\ \A d \in Days : lists[d] \in {None, filed[d]}
    /\ task.pc = "lists" => task.met = {}
    /\ task.pc = "fetch" => FetchCovers
    /\ task.pc \in {"dividends", "manifest", "load"} => DayKept(task.day)
    /\ \A d \in certified : DayKept(d)

LEMMA KeptFrame ==
    /\ KeptInv /\ UNCHANGED <<filed, lists, deferred, major, certified>>
    /\ \/ task' = task
       \/ task'.pc \notin {"lists", "fetch", "dividends", "manifest", "load"}
       \/ task' = Idle
       \/ task'.pc = "lists" /\ task'.met = {}
    => KeptInv'
<1> SUFFICES ASSUME KeptInv, UNCHANGED <<filed, lists, deferred, major, certified>>,
                    \/ task' = task
                    \/ task'.pc \notin {"lists", "fetch", "dividends", "manifest", "load"}
                    \/ task' = Idle
                    \/ task'.pc = "lists" /\ task'.met = {}
             PROVE  KeptInv'
  OBVIOUS
<1>1. \A d : DayKept(d)' <=> DayKept(d)
  BY DEF DayKept, Kept
<1>2. CASE task' = task
  BY <1>1, <1>2 DEF KeptInv, FetchCovers
<1>3. CASE task'.pc \notin {"lists", "fetch", "dividends", "manifest", "load"}
  BY <1>1, <1>3 DEF KeptInv
<1>4. CASE task' = Idle \/ (task'.pc = "lists" /\ task'.met = {})
  BY <1>1, <1>4 DEF KeptInv, Idle
<1> QED
  BY <1>2, <1>3, <1>4

(* An annual report among the requirements is answered or missing.         *)
LEMMA AnnualAnswered ==
    ASSUME NEW s \in Scope, s[2] = "annual", NEW reqs, NEW met,
           <<s[1], ReportScopes(s[2])>> \in reqs
    PROVE  s \in met \/ <<s[1], ReportScopes(s[2])>> \in Missing(reqs, met)
<1> DEFINE r == <<s[1], ReportScopes(s[2])>>
<1>1. r[1] = s[1] /\ r[2] = {"annual"}
  BY DEF ReportScopes
<1>2. {r[1]} \X r[2] = {s}
  BY <1>1 DEF Scope
<1>3. CASE s \in met
  BY <1>3
<1>4. CASE s \notin met
  <2>1. ({r[1]} \X r[2]) \cap met = {}
    BY <1>2, <1>4
  <2> QED
    BY <2>1 DEF Missing
<1> QED
  BY <1>3, <1>4

LEMMA KeptStep == TypeInv /\ KeptInv /\ [Next]_vars => KeptInv'
<1> SUFFICES ASSUME TypeInv, KeptInv, [Next]_vars PROVE KeptInv'
  OBVIOUS
<1>1. CASE UNCHANGED vars
  BY <1>1, KeptFrame DEF vars, env, core
<1>2. CASE NextDay \/ BootStop \/ BootStep
           \/ (\E s \in Scope : Expose(s)) \/ (\E f \in KrxFiles : Deposit(f))
  BY <1>2, KeptFrame DEF NextDay, BootStop, BootStep, Expose, Deposit, BootSelect, BootResume,
     BootCollected, BootPublish, BootMark, BootFetch, env, core
<1>3. CASE Stop
  BY <1>3, KeptFrame DEF Stop, env, core
<1>4. ASSUME NEW d \in Days, Launch(d) PROVE KeptInv'
  <2>1. task'.pc = "select" \/ (task'.pc = "lists" /\ task'.met = {})
    BY <1>4 DEF Launch, Idle
  <2>2. UNCHANGED <<filed, lists, deferred, major, certified>>
    BY <1>4 DEF Launch, env, core
  <2> QED
    BY <2>1, <2>2, KeptFrame
<1>5. CASE Reuse \/ Collect \/ SavePending \/ Request \/ PublishFiles \/ MarkKrx \/ CompleteDay
           \/ \E s \in Scope : FetchInput(s)
  <2>1. task'.pc \in {"select", "collect", "publish", "complete", "mark", "idle"}
    <3>1. task \in Task
      BY DEF TypeInv, TaskType
    <3>2. CASE Reuse \/ Collect \/ SavePending
      <4>1. CASE Reuse
        BY <3>1, <4>1 DEF Task, Reuse
      <4>2. CASE Collect
        BY <3>1, <4>2 DEF Task, Collect
      <4>3. CASE SavePending
        BY <3>1, <4>3 DEF Task, SavePending
      <4> QED
        BY <3>2, <4>1, <4>2, <4>3
    <3>3. CASE Request \/ PublishFiles \/ MarkKrx \/ CompleteDay
      <4>1. CASE Request
        BY <3>1, <4>1 DEF Task, Request
      <4>2. CASE PublishFiles \/ MarkKrx
        BY <3>1, <4>2 DEF Task, PublishFiles, MarkKrx
      <4>3. CASE CompleteDay
        BY <4>3 DEF CompleteDay, Idle
      <4> QED
        BY <3>3, <4>1, <4>2, <4>3
    <3>4. ASSUME NEW s \in Scope, FetchInput(s)
          PROVE  task'.pc \in {"select", "collect", "publish", "complete", "mark", "idle"}
      BY <3>1, <3>4 DEF Task, FetchInput
    <3> QED
      BY <1>5, <3>2, <3>3, <3>4
  <2>2. UNCHANGED <<filed, lists, deferred, major, certified>>
    BY <1>5 DEF Reuse, Collect, SavePending, Request, PublishFiles, MarkKrx, CompleteDay,
                FetchInput, env, core
  <2> QED
    BY <2>1, <2>2, KeptFrame
<1>6. CASE ReadLists
  <2> DEFINE list == IF lists[task.day] = None THEN filed[task.day] ELSE lists[task.day]
  <2>1. task.day \in Days /\ list = filed[task.day]
    BY <1>6 DEF ReadLists, KeptInv, TypeInv, TaskType
  <2>2. lists' = [lists EXCEPT ![task.day] = filed[task.day]]
    BY <1>6, <2>1 DEF ReadLists
  <2>3. \A d \in Days : lists'[d] \in {None, filed[d]}
    BY <2>1, <2>2 DEF KeptInv, TypeInv, CoreType
  <2>4. task' = [task EXCEPT !.pc = "fetch", !.reqs = deferred \cup Required(list),
                             !.todo = ScopesOf(deferred \cup Required(list))]
    BY <1>6 DEF ReadLists
  <2>5. /\ task'.pc = "fetch" /\ task'.day = task.day /\ task'.met = {}
        /\ task'.reqs = deferred \cup Required(filed[task.day])
    BY <1>6, <2>1, <2>4 DEF ReadLists, KeptInv, TypeInv, TaskType, Task
  <2>6. UNCHANGED <<filed, deferred, major, certified>>
    BY <1>6 DEF ReadLists, env
  <2>7. Required(filed[task.day])' = Required(filed[task.day])
    BY <2>5, <2>6 DEF Required
  <2> QED
    BY <2>3, <2>5, <2>6, <2>7 DEF KeptInv, FetchCovers, DayKept, Kept
<1>7. ASSUME NEW s \in Scope, FetchStatement(s) PROVE KeptInv'
  <2>1. /\ task.pc = "fetch" /\ task'.pc = "fetch"
        /\ task'.day = task.day /\ task'.reqs = task.reqs
        /\ task'.met \subseteq task.met \cup (IF exposed[s] = 0 THEN {} ELSE {s})
    BY <1>7 DEF FetchStatement, TypeInv, TaskType, Task
  <2>2. UNCHANGED <<filed, lists, deferred, certified>>
    BY <1>7 DEF FetchStatement, env
  <2>3. \A t \in Scope : major[t] > 0 => major'[t] > 0
    BY <1>7, IntakeAssumption DEF FetchStatement, TypeInv, EnvType, CoreType, Versions
  <2>4. exposed[s] # 0 => major'[s] > 0
    BY <1>7, IntakeAssumption DEF FetchStatement, TypeInv, EnvType, CoreType, Versions
  <2>5. FetchCovers'
    <3>1. task.met \subseteq Scope
      BY DEF TypeInv, TaskType, Task
    <3>2. Required(filed[task.day])' = Required(filed[task.day])
      BY <2>1, <2>2 DEF Required
    <3> QED
      BY <3>1, <3>2, <2>1, <2>2, <2>3, <2>4 DEF KeptInv, FetchCovers
  <2>6. \A d \in certified : DayKept(d)'
    <3>1. \A d \in certified : filed[d] \subseteq Scope
      BY IntakeAssumption DEF TypeInv, EnvType, AltType
    <3> QED
      BY <3>1, <2>2, <2>3 DEF KeptInv, DayKept, Kept
  <2> QED
    BY <2>1, <2>2, <2>5, <2>6 DEF KeptInv
<1>8. CASE SaveDeferred
  <2>1. /\ task.pc = "fetch" /\ task'.pc = "dividends" /\ task'.day = task.day
        /\ deferred' = Missing(task.reqs, task.met)
        /\ task.day \in Days
    BY <1>8 DEF SaveDeferred, TypeInv, TaskType, Task
  <2>2. UNCHANGED <<filed, lists, major, certified>>
    BY <1>8 DEF SaveDeferred, env
  <2>3. FetchCovers
    BY <2>1 DEF KeptInv
  <2>4. ASSUME NEW s \in Scope, s[2] = "annual",
               <<s[1], ReportScopes(s[2])>> \in task.reqs
        PROVE  major[s] > 0 \/ <<s[1], ReportScopes(s[2])>> \in deferred'
    BY <2>4, <2>1, <2>3, AnnualAnswered DEF FetchCovers
  <2>5. DayKept(task.day)'
    <3>1. SUFFICES ASSUME NEW s \in filed[task.day], s[1] \in Listed, s[2] = "annual"
                   PROVE  Kept(task.day, s)'
      BY <2>1, <2>2 DEF DayKept, Kept
    <3>2. s \in Scope
      BY <2>1, IntakeAssumption DEF TypeInv, EnvType
    <3>3. <<s[1], ReportScopes(s[2])>> \in Required(filed[task.day])
      BY <3>1 DEF Required, Reports
    <3> QED
      BY <2>2, <2>3, <2>4, <3>1, <3>2, <3>3 DEF FetchCovers, Kept
  <2>6. \A d \in certified : DayKept(d)'
    <3>1. SUFFICES ASSUME NEW d \in certified, NEW s \in filed[d], s[1] \in Listed,
                          s[2] = "annual"
                   PROVE  Kept(d, s)'
      BY <2>2 DEF DayKept, Kept
    <3>2. s \in Scope
      BY IntakeAssumption DEF TypeInv, EnvType, AltType
    <3>3. Kept(d, s)
      BY <3>1 DEF KeptInv, DayKept
    <3> QED
      BY <2>2, <2>3, <2>4, <3>1, <3>2, <3>3 DEF FetchCovers, Kept
  <2> QED
    BY <2>1, <2>2, <2>5, <2>6 DEF KeptInv
<1>9. CASE PutManifest \/ Collected \/ \E s \in Scope : PutResponse(s)
  <2>1. /\ task.pc \in {"dividends", "manifest"}
        /\ task'.pc \in {"dividends", "manifest", "load"}
        /\ task'.day = task.day
    BY <1>9 DEF PutManifest, Collected, PutResponse, TypeInv, TaskType, Task
  <2>2. UNCHANGED <<filed, lists, deferred, major, certified>>
    BY <1>9 DEF PutManifest, Collected, PutResponse, env, core
  <2> QED
    BY <2>1, <2>2 DEF KeptInv, DayKept, Kept
<1>10. CASE LoadDay
  <2>1. /\ task.pc = "load" /\ task'.pc = "select" /\ certified' = certified \cup {task.day}
        /\ UNCHANGED <<filed, lists, deferred, major>>
    BY <1>10 DEF LoadDay, Idle, env, core
  <2> QED
    BY <2>1 DEF KeptInv, DayKept, Kept
<1> QED
  BY <1>1, <1>2, <1>3, <1>4, <1>5, <1>6, <1>7, <1>8, <1>9, <1>10 DEF Next, DailyStep

(* After a target is certified, a listed company's annual report is stored *)
(* or its requirement waits in the deferred list, whatever stopped in      *)
(* between (financials.run_incremental).                                   *)
THEOREM FilingsKept == Spec => []FilingKept
<1>1. Init => KeptInv
  BY DEF Init, KeptInv, Idle
<1>2. KeptInv => FilingKept
  BY DEF KeptInv, DayKept, FilingKept
<1> QED
  BY TypeInit, TypeStep, KeptStep, <1>1, <1>2, PTL DEF Spec

-----------------------------------------------------------------------------
(* Marks.  Nothing is taken out of Silver.                                 *)
SilverGrown ==
    /\ silver.statements \subseteq silver'.statements
    /\ silver.dividends \subseteq silver'.dividends
    /\ silver.lines \subseteq silver'.lines
    /\ silver.krx \subseteq silver'.krx

LEMMA SilverGrows == TypeInv /\ [Next]_vars => SilverGrown
<1> SUFFICES ASSUME TypeInv, [Next]_vars PROVE SilverGrown
  OBVIOUS
<1>1. silver \in Silver
  BY DEF TypeInv, AltType
<1>2. CASE LoadDay
  BY <1>1, <1>2 DEF LoadDay, SilverGrown, Silver
<1>3. CASE PublishFiles
  BY <1>1, <1>3 DEF PublishFiles, SilverGrown, Silver
<1>4. CASE BootPublish
  BY <1>1, <1>4 DEF BootPublish, SilverGrown, Silver
<1>5. CASE silver' = silver
  BY <1>5 DEF SilverGrown
<1>6. CASE Reuse \/ Collect \/ SavePending \/ Request \/ MarkKrx \/ CompleteDay
  BY <1>5, <1>6 DEF Reuse, Collect, SavePending, Request, MarkKrx, CompleteDay
<1>7. CASE ReadLists \/ SaveDeferred \/ PutManifest \/ Collected
  BY <1>5, <1>7 DEF ReadLists, SaveDeferred, PutManifest, Collected
<1>8. CASE \E s \in Scope : FetchStatement(s) \/ PutResponse(s) \/ FetchInput(s) \/ BootFetch(s)
                              \/ Expose(s)
  BY <1>5, <1>8 DEF FetchStatement, PutResponse, FetchInput, BootFetch, Expose
<1>9. CASE BootSelect \/ BootResume \/ BootCollected \/ BootMark
  BY <1>5, <1>9 DEF BootSelect, BootResume, BootCollected, BootMark
<1>10. CASE NextDay \/ Stop \/ BootStop \/ (\E f \in KrxFiles : Deposit(f))
            \/ (\E d \in Days : Launch(d)) \/ UNCHANGED vars
  BY <1>5, <1>10 DEF NextDay, Stop, BootStop, Deposit, Launch, vars
<1> QED
  BY <1>2, <1>3, <1>4, <1>6, <1>7, <1>8, <1>9, <1>10 DEF Next, DailyStep, BootStep

(* A pair of dividend objects is handed on when its manifest is stored.    *)
DividendInv ==
    /\ task.pairs \subseteq resp \cap mani
    /\ task.pc = "manifest" => task.got \subseteq resp
    /\ silver.dividends \subseteq resp \cap mani

LEMMA DividendFrame ==
    /\ DividendInv /\ UNCHANGED <<resp, mani>> /\ silver'.dividends = silver.dividends
    /\ \/ task' = task
       \/ task'.pc # "manifest" /\ task'.pairs = task.pairs
       \/ task'.pc # "manifest" /\ task'.pairs = {}
    => DividendInv'
BY DEF DividendInv

LEMMA DividendStep == TypeInv /\ DividendInv /\ [Next]_vars => DividendInv'
<1> SUFFICES ASSUME TypeInv, DividendInv, [Next]_vars PROVE DividendInv'
  OBVIOUS
<1>1. task \in Task /\ silver \in Silver
  BY DEF TypeInv, TaskType, AltType
<1>2. CASE UNCHANGED vars \/ NextDay \/ BootStop \/ (\E s \in Scope : Expose(s))
           \/ (\E f \in KrxFiles : Deposit(f))
  BY <1>2, DividendFrame DEF vars, NextDay, BootStop, Expose, Deposit, core
<1>3. CASE BootStep
  <2>1. task' = task /\ UNCHANGED <<resp, mani>>
    BY <1>3 DEF BootStep, BootSelect, BootResume, BootCollected, BootPublish, BootMark,
                BootFetch, core
  <2>2. silver'.dividends = silver.dividends
    BY <1>1, <1>3 DEF BootStep, BootSelect, BootResume, BootCollected, BootPublish, BootMark,
                      BootFetch, Silver
  <2> QED
    BY <2>1, <2>2, DividendFrame
<1>4. CASE Stop \/ CompleteDay \/ \E d \in Days : Launch(d)
  <2>1. task'.pairs = {} /\ task'.pc # "manifest"
    <3>1. CASE Stop \/ CompleteDay
      BY <3>1 DEF Stop, CompleteDay, Idle
    <3>2. ASSUME NEW d \in Days, Launch(d) PROVE task'.pairs = {} /\ task'.pc # "manifest"
      BY <3>2 DEF Launch, Idle
    <3> QED
      BY <1>4, <3>1, <3>2
  <2>2. UNCHANGED <<resp, mani, silver>>
    BY <1>4 DEF Stop, CompleteDay, Launch, core
  <2> QED
    BY <2>1, <2>2, DividendFrame
<1>5. CASE ReadLists
  BY <1>1, <1>5, DividendFrame DEF ReadLists, Task
<1>6. ASSUME NEW s \in Scope, FetchStatement(s) PROVE DividendInv'
  BY <1>1, <1>6, DividendFrame DEF FetchStatement, Task
<1>7. CASE SaveDeferred
  BY <1>1, <1>7, DividendFrame DEF SaveDeferred, Task
<1>8. ASSUME NEW s \in Scope, PutResponse(s) PROVE DividendInv'
  <2>1. PICK v \in Answers(s) :
          IF <<s, v>> \in resp /\ <<s, v>> \in mani
          THEN /\ task' = [task EXCEPT !.todo = @ \ {s}]
               /\ UNCHANGED resp
          ELSE /\ task' = [task EXCEPT !.todo = @ \ {s}, !.pc = "manifest", !.got = {<<s, v>>}]
               /\ resp' = resp \cup {<<s, v>>}
    BY <1>8 DEF PutResponse
  <2>2. UNCHANGED <<mani, silver>> /\ task.pc = "dividends"
    BY <1>8 DEF PutResponse
  <2>3. CASE <<s, v>> \in resp /\ <<s, v>> \in mani
    BY <1>1, <2>1, <2>2, <2>3, DividendFrame DEF Task
  <2>4. CASE ~(<<s, v>> \in resp /\ <<s, v>> \in mani)
    <3>1. task'.pairs = task.pairs /\ task'.got = {<<s, v>>} /\ resp' = resp \cup {<<s, v>>}
      BY <1>1, <2>1, <2>4 DEF Task
    <3> QED
      BY <3>1, <2>2 DEF DividendInv
  <2> QED
    BY <2>3, <2>4
<1>9. CASE PutManifest
  <2>1. /\ task'.pairs = task.pairs \cup task.got /\ task'.pc = "dividends"
        /\ task.pc = "manifest" /\ mani' = mani \cup task.got /\ UNCHANGED <<resp, silver>>
    BY <1>1, <1>9 DEF PutManifest, Task
  <2> QED
    BY <2>1 DEF DividendInv
<1>10. CASE Collected
  BY <1>1, <1>10, DividendFrame DEF Collected, Task, core
<1>11. CASE LoadDay
  <2>1. /\ task'.pairs = {} /\ task'.pc = "select" /\ UNCHANGED <<resp, mani>>
        /\ silver'.dividends = silver.dividends \cup task.pairs
    BY <1>1, <1>11 DEF LoadDay, Idle, Silver, core
  <2> QED
    BY <2>1 DEF DividendInv
<1>12. CASE Reuse
  BY <1>1, <1>12, DividendFrame DEF Reuse, Task, core
<1>13. CASE Collect
  BY <1>1, <1>13, DividendFrame DEF Collect, Task, core
<1>14. ASSUME NEW s \in Scope, FetchInput(s) PROVE DividendInv'
  BY <1>1, <1>14, DividendFrame DEF FetchInput, Task, core
<1>15. CASE SavePending
  BY <1>1, <1>15, DividendFrame DEF SavePending, Task, core
<1>16. CASE Request
  BY <1>1, <1>16, DividendFrame DEF Request, Task, core
<1>17. CASE PublishFiles
  BY <1>1, <1>17, DividendFrame DEF PublishFiles, Task, Silver, core
<1>18. CASE MarkKrx
  BY <1>1, <1>18, DividendFrame DEF MarkKrx, Task, core
<1> QED
  BY <1>2, <1>3, <1>4, <1>5, <1>6, <1>7, <1>8, <1>9, <1>10, <1>11, <1>12, <1>13, <1>14, <1>15,
     <1>16, <1>17, <1>18 DEF Next, DailyStep

(* While a day runs, what its earlier collectors recorded is among its     *)
(* files, and these are published before the day is marked.                *)
AltPc == {"select", "collect", "publish", "mark", "complete"}
DayInv ==
    /\ task.pc # "idle" => task.day \notin done
    /\ task.pc \in AltPc =>
         \A c \in Turns : c < task.turn => pending[task.day][c] \subseteq task.files
    /\ task.pc \in {"publish", "mark", "complete"} => task.turn \notin Turns
    /\ task.pc \in {"mark", "complete"} => task.files \subseteq silver.lines
    /\ task.pc = "mark" => task.krx \subseteq silver.krx
    /\ krxKnown \subseteq silver.krx
    /\ CompletePublished

LEMMA DayFrame ==
    /\ DayInv /\ SilverGrown /\ UNCHANGED <<pending, done, krxKnown>>
    /\ \/ UNCHANGED <<task.pc, task.day, task.turn, task.files, task.krx>>
       \/ task.pc # "idle" /\ task'.day = task.day /\ task'.pc \notin AltPc
       \/ task'.day \notin done /\ task'.pc \in {"lists", "select"} /\ task'.turn = 1
       \/ task' = Idle
    => DayInv'
<1> SUFFICES ASSUME DayInv, SilverGrown, UNCHANGED <<pending, done, krxKnown>>,
                    \/ UNCHANGED <<task.pc, task.day, task.turn, task.files, task.krx>>
                    \/ task.pc # "idle" /\ task'.day = task.day /\ task'.pc \notin AltPc
                    \/ task'.day \notin done /\ task'.pc \in {"lists", "select"} /\ task'.turn = 1
                    \/ task' = Idle
             PROVE  DayInv'
  OBVIOUS
<1>1. CompletePublished' /\ krxKnown' \subseteq silver'.krx
  BY DEF DayInv, CompletePublished, SilverGrown
<1>2. CASE UNCHANGED <<task.pc, task.day, task.turn, task.files, task.krx>>
  BY <1>1, <1>2 DEF DayInv, SilverGrown
<1>3. CASE task.pc # "idle" /\ task'.day = task.day /\ task'.pc \notin AltPc
  BY <1>1, <1>3 DEF DayInv, AltPc
<1>4. CASE task'.day \notin done /\ task'.pc \in {"lists", "select"} /\ task'.turn = 1
  <2>1. \A c \in Turns : ~(c < task'.turn)
    BY <1>4 DEF Turns
  <2> QED
    BY <1>1, <1>4, <2>1 DEF DayInv
<1>5. CASE task' = Idle
  BY <1>1, <1>5 DEF DayInv, AltPc, Idle
<1> QED
  BY <1>2, <1>3, <1>4, <1>5

LEMMA DayStep == TypeInv /\ DayInv /\ [Next]_vars => DayInv'
<1> SUFFICES ASSUME TypeInv, DayInv, [Next]_vars PROVE DayInv'
  OBVIOUS
<1>1. task \in Task /\ SilverGrown
  BY SilverGrows DEF TypeInv, TaskType
<1>2. CASE UNCHANGED vars \/ NextDay \/ BootStop \/ (\E s \in Scope : Expose(s))
           \/ (\E f \in KrxFiles : Deposit(f))
  BY <1>1, <1>2, DayFrame DEF vars, NextDay, BootStop, Expose, Deposit, alt
<1>3. CASE BootStep
  <2>1. UNCHANGED <<task, pending, done, krxKnown>>
    BY <1>3 DEF BootStep, BootSelect, BootResume, BootCollected, BootPublish, BootMark,
                BootFetch, alt
  <2> QED
    BY <1>1, <2>1, DayFrame
<1>4. CASE Stop
  BY <1>1, <1>4, DayFrame DEF Stop, alt
<1>5. ASSUME NEW d \in Days, Launch(d) PROVE DayInv'
  <2>1. task'.day \notin done /\ task'.pc \in {"lists", "select"} /\ task'.turn = 1
    BY <1>5 DEF Launch, Idle
  <2>2. UNCHANGED <<pending, done, krxKnown>>
    BY <1>5 DEF Launch, alt
  <2> QED
    BY <1>1, <2>1, <2>2, DayFrame
<1>6. CASE ReadLists \/ SaveDeferred \/ PutManifest \/ Collected
           \/ \E s \in Scope : FetchStatement(s) \/ PutResponse(s)
  <2>1. task.pc # "idle" /\ UNCHANGED <<pending, done, krxKnown>>
    BY <1>6 DEF ReadLists, SaveDeferred, PutManifest, Collected, FetchStatement, PutResponse, alt
  <2>2. task'.day = task.day /\ task'.pc \notin AltPc
    <3>1. CASE ReadLists
      BY <1>1, <3>1 DEF ReadLists, Task, AltPc
    <3>2. CASE SaveDeferred \/ PutManifest \/ Collected
      BY <1>1, <3>2 DEF SaveDeferred, PutManifest, Collected, Task, AltPc
    <3>3. ASSUME NEW s \in Scope, FetchStatement(s)
          PROVE  task'.day = task.day /\ task'.pc \notin AltPc
      BY <1>1, <3>3 DEF FetchStatement, Task, AltPc
    <3>4. ASSUME NEW s \in Scope, PutResponse(s)
          PROVE  task'.day = task.day /\ task'.pc \notin AltPc
      BY <1>1, <3>4 DEF PutResponse, Task, AltPc
    <3> QED
      BY <1>6, <3>1, <3>2, <3>3, <3>4
  <2> QED
    BY <1>1, <2>1, <2>2, DayFrame
<1>7. CASE LoadDay
  <2>1. task'.day = task.day /\ task'.pc = "select" /\ task'.turn = 1 /\ task.pc # "idle"
    BY <1>7 DEF LoadDay, Idle
  <2>2. UNCHANGED <<pending, done, krxKnown>>
    BY <1>7 DEF LoadDay, alt
  <2> QED
    BY <1>1, <2>1, <2>2, DayFrame DEF DayInv
<1>8. CASE Reuse
  <2>1. /\ task.pc = "select" /\ task'.pc = "select" /\ task'.day = task.day
        /\ task'.turn = task.turn + 1 /\ task.turn \in Turns
        /\ task'.files = task.files \cup pending[task.day][task.turn]
        /\ UNCHANGED <<pending, done, krxKnown, silver>>
    BY <1>1, <1>8 DEF Reuse, Task, alt
  <2>2. \A c \in Turns : c < task.turn + 1 => c < task.turn \/ c = task.turn
    BY <2>1 DEF Turns
  <2> QED
    BY <2>1, <2>2 DEF DayInv, AltPc, CompletePublished
<1>9. CASE Collect
  <2>1. /\ task.pc = "select" /\ task'.pc = "collect" /\ task'.day = task.day
        /\ task'.turn = task.turn /\ task'.files = task.files
        /\ UNCHANGED <<pending, done, krxKnown, silver>>
    BY <1>1, <1>9 DEF Collect, Task, alt
  <2> QED
    BY <2>1 DEF DayInv, AltPc, CompletePublished
<1>10. ASSUME NEW s \in Scope, FetchInput(s) PROVE DayInv'
  <2>1. /\ task'.pc = task.pc /\ task'.day = task.day /\ task'.turn = task.turn
        /\ task'.files = task.files /\ task'.krx = task.krx
        /\ UNCHANGED <<pending, done, krxKnown>>
    BY <1>1, <1>10 DEF FetchInput, Task
  <2> QED
    BY <1>1, <2>1, DayFrame
<1>11. CASE SavePending
  <2>1. /\ task.pc = "collect" /\ task'.pc = "select" /\ task'.day = task.day
        /\ task'.turn = task.turn + 1 /\ task'.files = task.files \cup task.got
        /\ UNCHANGED <<done, krxKnown, silver>>
    BY <1>1, <1>11 DEF SavePending, Task
  <2>2. task.turn \in Turns /\ task.day \in Days /\ task.day \notin done /\ done \subseteq Days
    BY <2>1 DEF TypeInv, TaskType, AltType, DayInv
  <2>3. /\ pending'[task.day][task.turn] = task.got
        /\ \A c \in Turns : c # task.turn => pending'[task.day][c] = pending[task.day][c]
        /\ \A d \in Days, c \in Turns : d # task.day => pending'[d][c] = pending[d][c]
    BY <1>11, <2>2 DEF SavePending, TypeInv, AltType
  <2>4. \A c \in Turns : c < task.turn + 1 => c < task.turn \/ c = task.turn
    BY <2>2 DEF Turns
  <2>5. \A c \in Turns : c < task'.turn => pending'[task.day][c] \subseteq task'.files
    BY <2>1, <2>3, <2>4 DEF DayInv, AltPc
  <2>6. CompletePublished'
    BY <2>1, <2>2, <2>3 DEF DayInv, CompletePublished
  <2> QED
    BY <2>1, <2>2, <2>5, <2>6 DEF DayInv, AltPc
<1>12. CASE Request
  <2>1. /\ task.pc = "select" /\ task.turn \notin Turns /\ task'.day = task.day
        /\ task'.turn = task.turn /\ task'.files = task.files
        /\ task'.pc = "publish" \/ (task'.pc = "complete" /\ task.files = {})
        /\ UNCHANGED <<pending, done, krxKnown, silver>>
    BY <1>1, <1>12 DEF Request, Task, alt
  <2> QED
    BY <2>1 DEF DayInv, AltPc, CompletePublished
<1>13. CASE PublishFiles
  <2>1. /\ task.pc = "publish" /\ task'.pc = "mark" /\ task'.day = task.day
        /\ task'.turn = task.turn /\ task'.files = task.files /\ task'.krx = task.krx
        /\ UNCHANGED <<pending, done, krxKnown>>
    BY <1>1, <1>13 DEF PublishFiles, Task, alt
  <2>2. task.files \subseteq silver'.lines /\ task.krx \subseteq silver'.krx
    BY <1>13 DEF PublishFiles, TypeInv, AltType, Silver
  <2> QED
    BY <1>1, <2>1, <2>2 DEF DayInv, AltPc, CompletePublished, SilverGrown
<1>14. CASE MarkKrx
  <2>1. /\ task.pc = "mark" /\ task'.pc = "complete" /\ task'.day = task.day
        /\ task'.turn = task.turn /\ task'.files = task.files
        /\ krxKnown' = krxKnown \cup task.krx /\ UNCHANGED <<pending, done, silver>>
    BY <1>1, <1>14 DEF MarkKrx, Task
  <2> QED
    BY <2>1 DEF DayInv, AltPc, CompletePublished
<1>15. CASE CompleteDay
  <2>1. /\ task.pc = "complete" /\ task'.pc = "idle" /\ done' = done \cup {task.day}
        /\ UNCHANGED <<pending, krxKnown, silver>>
    BY <1>15 DEF CompleteDay, Idle
  <2>2. \A c \in Turns : c < task.turn
    BY <1>1, <2>1 DEF DayInv, Task, Turns
  <2>3. \A c \in Turns : pending[task.day][c] \subseteq silver.lines
    BY <2>1, <2>2 DEF DayInv, AltPc
  <2> QED
    BY <2>1, <2>3 DEF DayInv, AltPc, CompletePublished
<1> QED
  BY <1>2, <1>3, <1>4, <1>5, <1>6, <1>7, <1>8, <1>9, <1>10, <1>11, <1>12, <1>13, <1>14, <1>15
     DEF Next, DailyStep

(* Of the scopes of the bootstrap's batch, those that are not to be        *)
(* fetched any more are in its files, and then in Silver.                  *)
HasVersion(s, set) == \E v \in Versions : <<s, v>> \in set
BatchInv ==
    /\ boot.pc = "collect" => \A s \in batch.scopes \ boot.todo : HasVersion(s, boot.files)
    /\ boot.pc = "publish" => \A s \in batch.scopes : HasVersion(s, boot.files)
    /\ boot.pc = "mark" => \A s \in batch.scopes : HasVersion(s, silver.lines)
    /\ batch.status = "CERTIFIED" => \A s \in batch.scopes : HasVersion(s, silver.lines)

LEMMA BatchFrame == BatchInv /\ SilverGrown /\ UNCHANGED <<batch, boot>> => BatchInv'
BY DEF BatchInv, SilverGrown, HasVersion

LEMMA BatchStep == TypeInv /\ BatchInv /\ [Next]_vars => BatchInv'
<1> SUFFICES ASSUME TypeInv, BatchInv, [Next]_vars PROVE BatchInv'
  OBVIOUS
<1>1. boot \in Boot /\ batch \in Batch /\ SilverGrown
  BY SilverGrows DEF TypeInv, BootType
<1>2. CASE UNCHANGED vars \/ NextDay \/ Stop \/ (\E s \in Scope : Expose(s))
           \/ (\E f \in KrxFiles : Deposit(f)) \/ \E d \in Days : Launch(d)
  BY <1>1, <1>2, BatchFrame DEF vars, NextDay, Stop, Expose, Deposit, Launch, bootstrap
<1>3. CASE DailyStep
  <2>1. UNCHANGED <<batch, boot>>
    BY <1>3 DEF DailyStep, ReadLists, SaveDeferred, PutManifest, Collected, LoadDay, Reuse,
                Collect, SavePending, Request, PublishFiles, MarkKrx, CompleteDay,
                FetchStatement, PutResponse, FetchInput, bootstrap
  <2> QED
    BY <1>1, <2>1, BatchFrame
<1>4. CASE BootSelect
  <2>1. /\ boot'.pc = "collect" /\ boot'.todo = batch'.scopes
        /\ batch'.status = "COLLECTING"
    BY <1>4 DEF BootSelect, BootIdle
  <2> QED
    BY <2>1 DEF BatchInv
<1>5. CASE BootResume
  <2>1. /\ boot'.pc = "collect" /\ boot'.todo = Unpointed(batch.scopes)
        /\ boot'.files = {<<s, pointer[s]>> : s \in batch.scopes \ Unpointed(batch.scopes)}
        /\ batch.scopes \subseteq Scope /\ UNCHANGED <<batch, silver>>
    BY <1>1, <1>5 DEF BootResume, Batch
  <2>2. \A s \in batch.scopes \ boot'.todo : HasVersion(s, boot'.files)
    <3> SUFFICES ASSUME NEW s \in batch.scopes \ Unpointed(batch.scopes)
                 PROVE  HasVersion(s, boot'.files)
      BY <2>1
    <3>1. pointer[s] \in Versions
      BY <2>1 DEF TypeInv, AltType, Unpointed
    <3>2. <<s, pointer[s]>> \in boot'.files
      BY <2>1
    <3> QED
      BY <3>1, <3>2 DEF HasVersion
  <2> QED
    BY <2>1, <2>2 DEF BatchInv
<1>6. ASSUME NEW s \in Scope, BootFetch(s) PROVE BatchInv'
  <2>1. PICK v \in Answers(s) :
          /\ pointer' = [pointer EXCEPT ![s] = v]
          /\ boot' = [boot EXCEPT !.todo = @ \ {s}, !.files = @ \cup {<<s, v>>}]
    BY <1>6 DEF BootFetch
  <2>2. v \in Versions
    BY AnswersType DEF TypeInv, AltType
  <2>3. /\ boot.pc = "collect" /\ boot'.pc = "collect" /\ boot'.todo = boot.todo \ {s}
        /\ boot'.files = boot.files \cup {<<s, v>>} /\ UNCHANGED <<batch, silver>>
    BY <1>1, <1>6, <2>1 DEF BootFetch, Boot
  <2> QED
    BY <2>2, <2>3 DEF BatchInv, HasVersion
<1>7. CASE BootCollected
  <2>1. /\ boot.pc = "collect" /\ boot.todo = {} /\ boot'.pc = "publish"
        /\ boot'.files = boot.files
        /\ batch'.scopes = batch.scopes /\ batch'.status = "COLLECTED" /\ UNCHANGED silver
    BY <1>1, <1>7 DEF BootCollected, Boot, Batch
  <2> QED
    BY <2>1 DEF BatchInv, HasVersion
<1>8. CASE BootPublish
  <2>1. /\ boot.pc = "publish" /\ boot'.pc = "mark" /\ UNCHANGED batch
        /\ silver'.lines = silver.lines \cup boot.files
    BY <1>1, <1>8 DEF BootPublish, Boot, TypeInv, AltType, Silver
  <2> QED
    BY <2>1 DEF BatchInv, HasVersion
<1>9. CASE BootMark
  <2>1. /\ boot.pc = "mark" /\ boot'.pc = "idle" /\ UNCHANGED silver
        /\ batch'.scopes = batch.scopes
    BY <1>1, <1>9 DEF BootMark, BootIdle, Batch
  <2> QED
    BY <2>1 DEF BatchInv, HasVersion
<1>10. CASE BootStop
  <2>1. boot'.pc = "idle" /\ UNCHANGED <<batch, silver>>
    BY <1>10 DEF BootStop, BootIdle
  <2> QED
    BY <2>1 DEF BatchInv, HasVersion
<1> QED
  BY <1>2, <1>3, <1>4, <1>5, <1>6, <1>7, <1>8, <1>9, <1>10 DEF Next, BootStep

(* Every mark is backed by what it stands for: a dividend in Silver by its *)
(* pair of objects, a completed day by the inputs its collectors recorded, *)
(* a known KRX source and a certified batch by their lines, wherever a     *)
(* task stops (_Writer.save_pair, run, _collect_once).                     *)
THEOREM MarksBacked == Spec => []MarksTrue
<1> DEFINE Inv == DividendInv /\ DayInv /\ BatchInv
<1>1. Init => Inv
  BY DEF Init, DividendInv, DayInv, BatchInv, CompletePublished, Idle, BootIdle, AltPc
<1>2. Inv => MarksTrue
  BY DEF DividendInv, DayInv, BatchInv, HasVersion, MarksTrue, DividendsComplete,
         MarkedPublished
<1>3. TypeInv /\ Inv /\ [Next]_vars => Inv'
  BY DividendStep, DayStep, BatchStep
<1> QED
  BY TypeInit, TypeStep, <1>1, <1>2, <1>3, PTL DEF Spec

-----------------------------------------------------------------------------
(* Statements.  What a task remembers as changed is handed on or lost.     *)
QuietPc == {"idle", "lists"} \cup AltPc
StatementsInv ==
    /\ task.pc \in QuietPc => task.changed = {}
    /\ StatementsAccounted

LEMMA StatementsFrame ==
    /\ StatementsInv /\ SilverGrown /\ UNCHANGED major /\ lost \subseteq lost'
    /\ \/ task'.changed = task.changed /\ (task'.pc \in QuietPc => task.pc \in QuietPc)
       \/ task.changed = {} /\ task'.changed = {}
    => StatementsInv'
BY DEF StatementsInv, StatementsAccounted, SilverGrown

LEMMA StatementsStep == TypeInv /\ StatementsInv /\ [Next]_vars => StatementsInv'
<1> SUFFICES ASSUME TypeInv, StatementsInv, [Next]_vars PROVE StatementsInv'
  OBVIOUS
<1>1. task \in Task /\ SilverGrown
  BY SilverGrows DEF TypeInv, TaskType
<1>2. CASE UNCHANGED vars \/ NextDay \/ BootStop \/ (\E s \in Scope : Expose(s))
           \/ (\E f \in KrxFiles : Deposit(f))
  BY <1>1, <1>2, StatementsFrame DEF vars, NextDay, BootStop, Expose, Deposit, core, faults
<1>3. CASE BootStep
  <2>1. UNCHANGED <<task, major, lost>>
    BY <1>3 DEF BootStep, BootSelect, BootResume, BootCollected, BootPublish, BootMark,
                BootFetch, core, faults
  <2> QED
    BY <1>1, <2>1, StatementsFrame
<1>4. CASE Stop
  <2>1. /\ task'.changed = {} /\ UNCHANGED <<major, silver>>
        /\ \A s \in task.changed : <<s, major[s]>> \in lost'
        /\ lost \subseteq lost'
    BY <1>4 DEF Stop, Idle, Unsaved, core
  <2> QED
    BY <2>1 DEF StatementsInv, StatementsAccounted
<1>5. ASSUME NEW d \in Days, Launch(d) PROVE StatementsInv'
  <2>1. task.pc = "idle" /\ task'.changed = {} /\ UNCHANGED <<major, lost>>
    BY <1>5 DEF Launch, Idle, core, faults
  <2> QED
    BY <1>1, <2>1, StatementsFrame DEF StatementsInv, QuietPc
<1>6. CASE ReadLists
  <2>1. task.pc = "lists" /\ task'.changed = task.changed /\ UNCHANGED <<major, lost>>
    BY <1>1, <1>6 DEF ReadLists, Task, faults
  <2> QED
    BY <1>1, <2>1, StatementsFrame DEF QuietPc
<1>7. ASSUME NEW s \in Scope, FetchStatement(s) PROVE StatementsInv'
  <2>1. task'.pc = "fetch"
    BY <1>1, <1>7 DEF FetchStatement, Task
  <2>2. UNCHANGED <<silver, lost>>
    BY <1>7 DEF FetchStatement, faults
  <2>3. \A t \in Scope : t # s => major'[t] = major[t]
    BY <1>7 DEF FetchStatement, TypeInv, CoreType
  <2>4. task.changed \subseteq task'.changed
    BY <1>1, <1>7 DEF FetchStatement, Task
  <2>5. major'[s] = major[s] \/ s \in task'.changed
    BY <1>1, <1>7 DEF FetchStatement, Task, TypeInv, CoreType
  <2> QED
    BY <2>1, <2>2, <2>3, <2>4, <2>5 DEF StatementsInv, StatementsAccounted, QuietPc, AltPc
<1>8. CASE SaveDeferred
  <2>1. task'.pc = "dividends" /\ task'.changed = task.changed /\ UNCHANGED <<major, lost>>
    BY <1>1, <1>8 DEF SaveDeferred, Task, faults
  <2> QED
    BY <1>1, <2>1, StatementsFrame DEF QuietPc, AltPc
<1>9. ASSUME NEW s \in Scope, PutResponse(s) PROVE StatementsInv'
  <2>1. task'.pc \in {"dividends", "manifest"} /\ task'.changed = task.changed
    BY <1>1, <1>9 DEF PutResponse, Task
  <2>2. UNCHANGED <<major, lost>>
    BY <1>9 DEF PutResponse, faults
  <2> QED
    BY <1>1, <2>1, <2>2, StatementsFrame DEF QuietPc, AltPc
<1>10. CASE PutManifest \/ Collected
  <2>1. /\ task'.pc \in {"dividends", "load"} /\ task'.changed = task.changed
        /\ UNCHANGED <<major, lost>>
    BY <1>1, <1>10 DEF PutManifest, Collected, Task, core, faults
  <2> QED
    BY <1>1, <2>1, StatementsFrame DEF QuietPc, AltPc
<1>11. CASE LoadDay
  <2>1. /\ task'.changed = {} /\ UNCHANGED <<major, lost>>
        /\ \A s \in task.changed : <<s, major[s]>> \in silver'.statements
    BY <1>11 DEF LoadDay, Idle, TypeInv, AltType, Silver, core, faults
  <2> QED
    BY <1>1, <2>1 DEF StatementsInv, StatementsAccounted, SilverGrown
<1>12. CASE task.pc \in AltPc /\ task'.changed = task.changed /\ UNCHANGED <<major, lost>>
  BY <1>1, <1>12, StatementsFrame DEF QuietPc
<1>13. CASE Reuse
  BY <1>1, <1>12, <1>13 DEF Reuse, Task, AltPc, core, faults
<1>14. CASE Collect
  BY <1>1, <1>12, <1>14 DEF Collect, Task, AltPc, core, faults
<1>15. ASSUME NEW s \in Scope, FetchInput(s) PROVE StatementsInv'
  BY <1>1, <1>12, <1>15 DEF FetchInput, Task, AltPc, core, faults
<1>16. CASE SavePending
  BY <1>1, <1>12, <1>16 DEF SavePending, Task, AltPc, core, faults
<1>17. CASE Request
  BY <1>1, <1>12, <1>17 DEF Request, Task, AltPc, core, faults
<1>18. CASE PublishFiles
  BY <1>1, <1>12, <1>18 DEF PublishFiles, Task, AltPc, core, faults
<1>19. CASE MarkKrx
  BY <1>1, <1>12, <1>19 DEF MarkKrx, Task, AltPc, core, faults
<1>20. CASE CompleteDay
  <2>1. task.pc = "complete" /\ task'.changed = {} /\ UNCHANGED <<major, lost>>
    BY <1>20 DEF CompleteDay, Idle, core, faults
  <2> QED
    BY <1>1, <2>1, StatementsFrame DEF StatementsInv, QuietPc, AltPc
<1> QED
  BY <1>2, <1>3, <1>4, <1>5, <1>6, <1>7, <1>8, <1>9, <1>10, <1>11, <1>13, <1>14, <1>15,
     <1>16, <1>17, <1>18, <1>19, <1>20 DEF Next, DailyStep

(* Collected inputs.  Those that are safe stay safe: what a collector has  *)
(* in its hands is recorded, or counted as lost when it stops.             *)
InHand == IF task.pc = "collect" THEN task.got ELSE {}
Safe == silver.lines \cup Recorded \cup InHand \cup lost

CollectInv ==
    /\ task.files \subseteq silver.lines \cup Recorded
    /\ task.pc = "collect" => pending[task.day][task.turn] = None

LEMMA CollectFrame ==
    /\ CollectInv /\ SilverGrown /\ UNCHANGED pending /\ lost \subseteq lost'
    /\ task'.files \subseteq task.files \cup silver'.lines \cup Recorded
    /\ task'.pc = "collect" => task'.pc = task.pc /\ task'.day = task.day /\ task'.turn = task.turn
    /\ InHand \subseteq InHand' \cup lost'
    => CollectInv' /\ Safe \subseteq Safe'
<1> SUFFICES ASSUME CollectInv, SilverGrown, UNCHANGED pending, lost \subseteq lost',
                    task'.files \subseteq task.files \cup silver'.lines \cup Recorded,
                    task'.pc = "collect" =>
                      task'.pc = task.pc /\ task'.day = task.day /\ task'.turn = task.turn,
                    InHand \subseteq InHand' \cup lost'
             PROVE  CollectInv' /\ Safe \subseteq Safe'
  OBVIOUS
<1>1. Recorded' = Recorded
  BY DEF Recorded
<1>2. CollectInv'
  BY <1>1 DEF CollectInv, SilverGrown
<1>3. Safe \subseteq Safe'
  BY <1>1 DEF Safe, SilverGrown
<1> QED
  BY <1>2, <1>3

LEMMA CollectStep ==
    TypeInv /\ CollectInv /\ [Next]_vars => CollectInv' /\ Safe \subseteq Safe'
<1> SUFFICES ASSUME TypeInv, CollectInv, [Next]_vars
             PROVE  CollectInv' /\ Safe \subseteq Safe'
  OBVIOUS
<1>1. task \in Task /\ SilverGrown
  BY SilverGrows DEF TypeInv, TaskType
<1>2. CASE UNCHANGED <<task, pending>> /\ lost \subseteq lost'
  BY <1>1, <1>2, CollectFrame DEF InHand
<1>3. CASE UNCHANGED vars \/ NextDay \/ BootStop \/ (\E s \in Scope : Expose(s))
           \/ (\E f \in KrxFiles : Deposit(f))
  BY <1>2, <1>3 DEF vars, NextDay, BootStop, Expose, Deposit, alt, faults
<1>4. CASE BootStep
  <2>1. UNCHANGED <<task, pending, lost>>
    BY <1>4 DEF BootStep, BootSelect, BootResume, BootCollected, BootPublish, BootMark,
                BootFetch, alt, faults
  <2> QED
    BY <1>2, <2>1
<1>5. CASE /\ task.pc # "collect" /\ task'.pc # "collect" /\ UNCHANGED <<pending, lost>>
           /\ task'.files \subseteq task.files \cup silver'.lines \cup Recorded
  BY <1>1, <1>5, CollectFrame DEF InHand
<1>6. CASE Stop
  <2>1. /\ task'.files = {} /\ task'.pc = "idle" /\ UNCHANGED <<pending, silver>>
        /\ InHand \subseteq lost' /\ lost \subseteq lost'
    BY <1>6 DEF Stop, Idle, Unsaved, InHand, alt
  <2> QED
    BY <1>1, <2>1, CollectFrame
<1>7. ASSUME NEW d \in Days, Launch(d) PROVE CollectInv' /\ Safe \subseteq Safe'
  <2>1. task.pc = "idle" /\ task'.pc # "collect" /\ task'.files = {}
    BY <1>7 DEF Launch, Idle
  <2>2. UNCHANGED <<pending, lost>>
    BY <1>7 DEF Launch, alt, faults
  <2> QED
    BY <1>5, <2>1, <2>2
<1>8. CASE ReadLists
  BY <1>1, <1>5, <1>8 DEF ReadLists, Task, alt, faults
<1>9. ASSUME NEW s \in Scope, FetchStatement(s) PROVE CollectInv' /\ Safe \subseteq Safe'
  BY <1>1, <1>5, <1>9 DEF FetchStatement, Task, alt, faults
<1>10. CASE SaveDeferred
  BY <1>1, <1>5, <1>10 DEF SaveDeferred, Task, alt, faults
<1>11. ASSUME NEW s \in Scope, PutResponse(s) PROVE CollectInv' /\ Safe \subseteq Safe'
  <2>1. task.pc # "collect" /\ task'.pc # "collect" /\ task'.files = task.files
    BY <1>1, <1>11 DEF PutResponse, Task
  <2> QED
    BY <1>5, <1>11, <2>1 DEF PutResponse, alt, faults
<1>12. CASE PutManifest
  BY <1>1, <1>5, <1>12 DEF PutManifest, Task, alt, faults
<1>13. CASE Collected
  BY <1>1, <1>5, <1>13 DEF Collected, Task, alt, faults
<1>14. CASE LoadDay
  <2>1. /\ task.pc # "collect" /\ task'.pc # "collect" /\ task'.files = {}
        /\ UNCHANGED <<pending, lost>>
    BY <1>14 DEF LoadDay, Idle, alt, faults
  <2> QED
    BY <1>5, <2>1
<1>15. CASE Reuse
  <2>1. /\ task.pc = "select" /\ task'.pc = "select" /\ UNCHANGED <<pending, lost>>
        /\ task'.files = task.files \cup pending[task.day][task.turn]
    BY <1>1, <1>15 DEF Reuse, Task, alt, faults
  <2>2. pending[task.day][task.turn] \subseteq Recorded
    BY <1>15 DEF Reuse, Recorded, TypeInv, TaskType
  <2> QED
    BY <1>5, <2>1, <2>2
<1>16. CASE Collect
  <2>1. /\ task.pc = "select" /\ task'.files = task.files /\ task'.day = task.day
        /\ task'.turn = task.turn /\ UNCHANGED <<pending, lost, silver>>
        /\ pending[task.day][task.turn] = None
    BY <1>1, <1>16 DEF Collect, Task, alt, faults
  <2>2. Recorded' = Recorded
    BY <2>1 DEF Recorded
  <2> QED
    BY <2>1, <2>2 DEF CollectInv, Safe, InHand
<1>17. ASSUME NEW s \in Scope, FetchInput(s) PROVE CollectInv' /\ Safe \subseteq Safe'
  <2>1. /\ task.pc = "collect" /\ task'.pc = "collect" /\ task'.files = task.files
        /\ task'.day = task.day /\ task'.turn = task.turn /\ task.got \subseteq task'.got
        /\ UNCHANGED <<pending, lost>>
    BY <1>1, <1>17 DEF FetchInput, Task, faults
  <2>2. InHand \subseteq InHand'
    BY <2>1 DEF InHand
  <2> QED
    BY <1>1, <2>1, <2>2, CollectFrame
<1>18. CASE SavePending
  <2>1. /\ task.pc = "collect" /\ task'.pc = "select" /\ UNCHANGED <<lost, silver>>
        /\ task'.files = task.files \cup task.got
    BY <1>1, <1>18 DEF SavePending, Task, faults
  <2>2. task.day \in Days /\ task.turn \in Turns /\ task.got \subseteq Stored
    BY <1>1, <2>1 DEF TypeInv, TaskType, Task
  <2>3. /\ pending'[task.day][task.turn] = task.got
        /\ \A d \in Days, c \in Turns :
             d # task.day \/ c # task.turn => pending'[d][c] = pending[d][c]
    BY <1>18, <2>2 DEF SavePending, TypeInv, AltType
  <2>4. task.got # None /\ pending[task.day][task.turn] = None
    BY <2>1, <2>2, IntakeAssumption DEF CollectInv
  <2>5. task.got \subseteq Recorded'
    BY <2>2, <2>3, <2>4 DEF Recorded
  <2>6. Recorded \subseteq Recorded'
    <3>1. SUFFICES ASSUME NEW d \in Days, NEW c \in Turns, pending[d][c] # None
                   PROVE  pending[d][c] \subseteq Recorded'
      BY DEF Recorded
    <3>2. pending'[d][c] = pending[d][c]
      BY <2>3, <2>4, <3>1
    <3> QED
      BY <3>1, <3>2 DEF Recorded
  <2> QED
    BY <2>1, <2>5, <2>6 DEF CollectInv, Safe, InHand
<1>19. CASE Request
  BY <1>1, <1>5, <1>19 DEF Request, Task, alt, faults
<1>20. CASE PublishFiles
  BY <1>1, <1>5, <1>20 DEF PublishFiles, Task, alt, faults
<1>21. CASE MarkKrx
  BY <1>1, <1>5, <1>21 DEF MarkKrx, Task, faults
<1>22. CASE CompleteDay
  BY <1>5, <1>22 DEF CompleteDay, Idle, faults
<1> QED
  BY <1>3, <1>4, <1>6, <1>7, <1>8, <1>9, <1>10, <1>11, <1>12, <1>13, <1>14, <1>15, <1>16,
     <1>17, <1>18, <1>19, <1>20, <1>21, <1>22 DEF Next, DailyStep

(* The version a pointer names is safe, or its scope belongs to the batch; *)
(* the bootstrap has what it fetched, also where the collector has moved   *)
(* the pointer since.                                                      *)
PointerInv ==
    /\ \A s \in Scope : pointer[s] >= 0 => Pointed(s) \in Safe \/ s \in Unfinished
    /\ batch.status = "NONE" => batch.scopes = {}
    /\ boot.pc # "idle" => batch.status \in {"COLLECTING", "COLLECTED"}
    /\ boot.pc = "collect" =>
         /\ boot.todo \subseteq batch.scopes
         /\ \A s \in batch.scopes \ boot.todo : Pointed(s) \in boot.files \cup Safe
    /\ boot.pc = "publish" => \A s \in batch.scopes : Pointed(s) \in boot.files \cup Safe
    /\ boot.pc = "mark" => \A s \in batch.scopes : Pointed(s) \in Safe

LEMMA PointerFrame ==
    PointerInv /\ Safe \subseteq Safe' /\ UNCHANGED <<pointer, batch, boot>> => PointerInv'
BY DEF PointerInv, Pointed, Unfinished

LEMMA PointerStep == TypeInv /\ CollectInv /\ PointerInv /\ [Next]_vars => PointerInv'
<1> SUFFICES ASSUME TypeInv, CollectInv, PointerInv, [Next]_vars PROVE PointerInv'
  OBVIOUS
<1>1. boot \in Boot /\ batch \in Batch /\ Safe \subseteq Safe' /\ batch.scopes \subseteq Scope
  BY CollectStep DEF TypeInv, BootType, Batch
<1>2. CASE UNCHANGED vars \/ NextDay \/ Stop \/ (\E s \in Scope : Expose(s))
           \/ (\E f \in KrxFiles : Deposit(f)) \/ \E d \in Days : Launch(d)
  BY <1>1, <1>2, PointerFrame DEF vars, NextDay, Stop, Expose, Deposit, Launch, bootstrap, alt
<1>3. CASE \/ ReadLists \/ SaveDeferred \/ PutManifest \/ Collected \/ LoadDay
           \/ Reuse \/ Collect \/ SavePending \/ Request \/ PublishFiles \/ MarkKrx
           \/ CompleteDay \/ \E s \in Scope : FetchStatement(s) \/ PutResponse(s)
  <2>1. UNCHANGED <<pointer, batch, boot>>
    BY <1>3 DEF ReadLists, SaveDeferred, PutManifest, Collected, LoadDay, Reuse, Collect,
                SavePending, Request, PublishFiles, MarkKrx, CompleteDay, FetchStatement,
                PutResponse, bootstrap, alt
  <2> QED
    BY <1>1, <2>1, PointerFrame
<1>4. ASSUME NEW s \in Scope, FetchInput(s) PROVE PointerInv'
  <2>1. PICK v \in Answers(s) :
          /\ pointer' = [pointer EXCEPT ![s] = v]
          /\ task' = [task EXCEPT !.todo = @ \ {s},
                                  !.got = IF pointer[s] = v THEN @ ELSE @ \cup {<<s, v>>}]
    BY <1>4 DEF FetchInput
  <2>2. UNCHANGED <<batch, boot>> /\ task.pc = "collect"
    BY <1>4 DEF FetchInput, bootstrap
  <2>3. \A t \in Scope : t # s => pointer'[t] = pointer[t]
    BY <2>1 DEF TypeInv, AltType
  <2>4. pointer'[s] = v
    BY <2>1 DEF TypeInv, AltType
  <2>5. CASE pointer[s] = v
    <3>1. \A t \in Scope : pointer'[t] = pointer[t]
      BY <2>3, <2>4, <2>5
    <3> QED
      BY <1>1, <2>2, <3>1 DEF PointerInv, Pointed, Unfinished
  <2>6. CASE pointer[s] # v
    <3>1. Pointed(s)' \in Safe'
      <4>1. task'.pc = "collect" /\ <<s, v>> \in task'.got
        BY <2>1, <2>2, <2>6 DEF TypeInv, TaskType, Task
      <4> QED
        BY <2>4, <4>1 DEF Pointed, Safe, InHand
    <3>2. \A t \in Scope : t # s => Pointed(t)' = Pointed(t)
      BY <2>3 DEF Pointed
    <3> QED
      BY <1>1, <2>2, <2>3, <3>1, <3>2 DEF PointerInv, Unfinished
  <2> QED
    BY <2>5, <2>6
<1>5. CASE BootSelect
  <2>1. /\ boot'.pc = "collect" /\ boot'.todo = batch'.scopes /\ batch'.status = "COLLECTING"
        /\ UNCHANGED pointer /\ batch.status \in {"NONE", "CERTIFIED"}
    BY <1>5 DEF BootSelect, BootIdle, alt
  <2>2. Unfinished = {}
    BY <2>1 DEF Unfinished, PointerInv
  <2> QED
    BY <1>1, <2>1, <2>2 DEF PointerInv, Pointed
<1>6. CASE BootResume
  <2>1. /\ boot'.pc = "collect" /\ boot'.todo = Unpointed(batch.scopes)
        /\ boot'.files = {Pointed(s) : s \in batch.scopes \ Unpointed(batch.scopes)}
        /\ UNCHANGED <<pointer, batch>> /\ batch.status \in {"COLLECTING", "COLLECTED"}
    BY <1>6 DEF BootResume, Pointed, alt
  <2>2. boot'.todo \subseteq batch.scopes
        /\ \A s \in batch.scopes \ boot'.todo : Pointed(s) \in boot'.files
    BY <2>1 DEF Unpointed
  <2> QED
    BY <1>1, <2>1, <2>2 DEF PointerInv, Pointed, Unfinished
<1>7. ASSUME NEW s \in Scope, BootFetch(s) PROVE PointerInv'
  <2>1. PICK v \in Answers(s) :
          /\ pointer' = [pointer EXCEPT ![s] = v]
          /\ boot' = [boot EXCEPT !.todo = @ \ {s}, !.files = @ \cup {<<s, v>>}]
    BY <1>7 DEF BootFetch
  <2>2. /\ boot.pc = "collect" /\ boot'.pc = "collect" /\ boot'.todo = boot.todo \ {s}
        /\ boot'.files = boot.files \cup {<<s, v>>} /\ UNCHANGED batch /\ s \in boot.todo
    BY <1>1, <1>7, <2>1 DEF BootFetch, Boot
  <2>3. pointer'[s] = v /\ \A t \in Scope : t # s => pointer'[t] = pointer[t]
    BY <2>1 DEF TypeInv, AltType
  <2>4. s \in Unfinished /\ Unfinished' = Unfinished
    BY <2>2 DEF PointerInv, Unfinished
  <2>5. Pointed(s)' \in boot'.files
    BY <2>2, <2>3 DEF Pointed
  <2>6. \A t \in Scope : t # s => Pointed(t)' = Pointed(t)
    BY <2>3 DEF Pointed
  <2>7. \A t \in Scope : pointer'[t] >= 0 => Pointed(t)' \in Safe' \/ t \in Unfinished'
    BY <1>1, <2>3, <2>4, <2>6 DEF PointerInv
  <2>8. \A t \in batch.scopes \ boot'.todo : Pointed(t)' \in boot'.files \cup Safe'
    BY <1>1, <2>2, <2>5, <2>6 DEF PointerInv
  <2> QED
    BY <2>2, <2>7, <2>8 DEF PointerInv
<1>8. CASE BootCollected
  <2>1. /\ boot.pc = "collect" /\ boot.todo = {} /\ boot'.pc = "publish"
        /\ boot'.files = boot.files /\ UNCHANGED pointer
        /\ batch'.scopes = batch.scopes /\ batch'.status = "COLLECTED"
    BY <1>1, <1>8 DEF BootCollected, Boot, Batch, alt
  <2> QED
    BY <1>1, <2>1 DEF PointerInv, Pointed, Unfinished
<1>9. CASE BootPublish
  <2>1. /\ boot.pc = "publish" /\ boot'.pc = "mark" /\ UNCHANGED <<pointer, batch>>
    BY <1>1, <1>9 DEF BootPublish, Boot, alt
  <2>2. boot.files \subseteq Safe'
    BY <1>9 DEF BootPublish, Safe, TypeInv, AltType, Silver
  <2> QED
    BY <1>1, <2>1, <2>2 DEF PointerInv, Pointed, Unfinished
<1>10. CASE BootMark
  <2>1. /\ boot.pc = "mark" /\ boot'.pc = "idle" /\ UNCHANGED pointer
        /\ batch'.status = "CERTIFIED"
    BY <1>1, <1>10 DEF BootMark, BootIdle, Batch, alt
  <2>2. \A s \in Scope : pointer[s] >= 0 => Pointed(s) \in Safe
    BY <2>1 DEF PointerInv, Unfinished
  <2> QED
    BY <1>1, <2>1, <2>2 DEF PointerInv, Pointed
<1>11. CASE BootStop
  <2>1. boot'.pc = "idle" /\ UNCHANGED <<pointer, batch>>
    BY <1>11 DEF BootStop, BootIdle, alt
  <2> QED
    BY <1>1, <2>1 DEF PointerInv, Pointed, Unfinished
<1> QED
  BY <1>2, <1>3, <1>4, <1>5, <1>6, <1>7, <1>8, <1>9, <1>10, <1>11 DEF Next, DailyStep, BootStep

(* No stored input of either collection is forgotten, but by a stopped     *)
(* process: a statement until it is certified, the version a pointer names *)
(* until it is published, with the daily task and the bootstrap collecting *)
(* side by side (run_incremental, _collect_once, run).                     *)
THEOREM InputsKept == Spec => []InputsAccounted
<1> DEFINE Inv == StatementsInv /\ CollectInv /\ PointerInv
<1>1. Init => Inv
  <2> SUFFICES ASSUME Init PROVE Inv
    OBVIOUS
  <2>1. \A s \in Scope : pointer[s] = -1 /\ major[s] = 0
    BY DEF Init
  <2> QED
    BY <2>1 DEF Init, StatementsInv, StatementsAccounted, CollectInv, PointerInv, Idle,
                BootIdle
<1>2. TypeInv /\ Inv => InputsAccounted
  BY DEF StatementsInv, CollectInv, PointerInv, InputsAccounted, CollectedAccounted, Held,
         Safe, InHand
<1>3. TypeInv /\ Inv /\ [Next]_vars => Inv'
  BY StatementsStep, CollectStep, PointerStep
<1> QED
  BY TypeInit, TypeStep, <1>1, <1>2, <1>3, PTL DEF Spec
=============================================================================
