----------------------- MODULE MarketFollowupsProofs -----------------------
(* Theorems about MarketFollowups, for any number of sessions, assets,     *)
(* factors, revisions and stops.                                           *)
EXTENDS MarketFollowups, WellFoundedInduction, TLAPS

PC == {"idle", "reference", "flows", "mark", "list", "gold"}

Program ==
    [pc : PC, day : 0 .. NumDays, from : 0 .. NumDays, sessions : SUBSET Day,
     manifest : Nat, next : Reference, failed : BOOLEAN,
     list : SUBSET Factor, todo : SUBSET Factor]

(* d is the last session of S. *)
Ends(S, d) == d \in S /\ \A e \in S : e <= d

(* A captured reference reaches the last session of its window, and no     *)
(* less than the checkpoint it was captured under.                         *)
CaptureOK(p) ==
    /\ p.manifest \in Nat /\ p.next \in Reference
    /\ Ends(p.of.sessions, p.next.through)
    /\ p.of.ref.through <= p.next.through

TypeInv ==
    /\ today \in Day /\ core \in Day
    /\ ref \in Reference
    /\ listings \in Nat
    /\ approved \subseteq Factor
    /\ gold \in [Factor -> SUBSET Int]
    /\ task \in Program
    /\ \A p \in pending : CaptureOK(p)

(* Where the running task is: what it will advance the reference to is its *)
(* own last session; what it has advanced and built is there.              *)
TailInv ==
    /\ task.pc # "idle" => Ends(task.sessions, task.day)
    /\ task.pc \in {"flows", "mark"} => /\ task.next.through = task.day
                                        /\ ref.through <= task.day
    /\ task.pc \in {"list", "gold"} => ref.through = task.day
    /\ task.pc = "gold" => \A f \in task.list \ task.todo : GoldDays \subseteq gold[f]

IInv == TypeInv /\ TailInv /\ FollowupsComplete

-----------------------------------------------------------------------------
LEMMA MinTwo ==
    ASSUME NEW x \in Int, NEW y \in Int
    PROVE  Min({x, y}) \in {x, y} /\ Min({x, y}) <= x
  <1>1. \E m \in {x, y} : \A z \in {x, y} : m =< z
    OBVIOUS
  <1> QED BY <1>1 DEF Min

(* The window of a target ends with the target. *)
LEMMA WindowEnds ==
    ASSUME TypeInv, NEW d \in Day
    PROVE  Sessions(d) \subseteq Day /\ Ends(Sessions(d), d)
  <1>0. Window \in Nat \ {0} /\ d \in Int /\ ref.through \in Int
    BY FollowupAssumption DEF TypeInv, Reference, Day
  <1>1. d - Window + 1 \in Int /\ ref.through + 1 \in Int /\ d - Window + 1 <= d
    BY <1>0
  <1> DEFINE x == d - Window + 1
             y == ref.through + 1
  <1>2. x \in Int /\ y \in Int /\ x <= d
    BY <1>1
  <1> HIDE DEF x, y
  <1>3. Min({x, y}) \in {x, y} /\ Min({x, y}) <= x
    BY <1>2, MinTwo
  <1>4. Min({x, y}) \in Int /\ Min({x, y}) <= d
    BY <1>0, <1>2, <1>3
  <1>5. Sessions(d) = {e \in 1 .. d : e >= Min({x, y})}
    BY DEF Sessions, x, y
  <1> QED BY <1>0, <1>4, <1>5, FollowupAssumption DEF Ends, Day

LEMMA OneEnd ==
    ASSUME NEW S, NEW c \in Int, NEW d \in Int, Ends(S, c), Ends(S, d)
    PROVE  c = d
  BY DEF Ends

(* A program that is left is a program. *)
LEMMA IdleType == TypeInv => Idle \in Program
  BY FollowupAssumption DEF TypeInv, Idle, Program, PC, Reference, Day

-----------------------------------------------------------------------------
(* A task that starts has a window that ends with its target. *)
LEMMA StartType ==
    ASSUME TypeInv, NEW d \in Day, NEW from \in 0 .. NumDays, Start(d, from)
    PROVE  /\ task' \in Program /\ core' \in Day
           /\ Ends(task'.sessions, task'.day)
           /\ task'.pc = "reference"
  <1>1. Sessions(d) \subseteq Day /\ Ends(Sessions(d), d)
    BY WindowEnds
  <1>2. d \in 0 .. NumDays
    BY FollowupAssumption DEF Day
  <1>3. Idle \in Program
    BY IdleType
  <1>4. task' = [Idle EXCEPT !.pc = "reference", !.day = d, !.from = from,
                             !.sessions = Sessions(d)]
    BY DEF Start
  <1>5. /\ task'.pc = "reference" /\ task'.day = d /\ task'.sessions = Sessions(d)
    BY <1>4 DEF Idle
  <1>6. task' \in Program
    BY <1>1, <1>2, <1>3, <1>4 DEF Program, PC
  <1> QED BY <1>1, <1>5, <1>6 DEF Start

(* Each of the three entry points starts one. *)
LEMMA Starts ==
    ASSUME TypeInv, Daily \/ GapReplay
    PROVE  \E d \in Day, from \in 0 .. NumDays : Start(d, from)
  <1>1. today \in 1 .. NumDays /\ core \in 1 .. NumDays /\ Seed \in 1 .. NumDays
        /\ NumDays \in Nat
    BY FollowupAssumption DEF TypeInv, Day
  <1>2. CASE core < today /\ Start(core + 1, core + 1)
    <2>1. core + 1 \in Day /\ core + 1 \in 0 .. NumDays
      BY <1>1, <1>2 DEF Day
    <2> QED BY <1>2, <2>1
  <1>3. CASE Start(core, core)
    <2>1. core \in Day /\ core \in 0 .. NumDays
      BY <1>1 DEF Day
    <2> QED BY <1>3, <2>1
  <1>4. CASE GapReplay
    <2>1. PICK to \in core + 2 .. today, from \in Seed + 1 .. core + 1 : Start(to, from)
      BY <1>4 DEF GapReplay
    <2>2. to \in Day /\ from \in 0 .. NumDays
      BY <1>1, <2>1 DEF Day
    <2> QED BY <2>1, <2>2
  <1> QED BY <1>2, <1>3, <1>4 DEF Daily

(* What a task prepares reaches its last session. *)
LEMMA PreparedOK ==
    ASSUME TypeInv, TailInv, task.pc = "reference", Preparable
    PROVE  Prepared \in Reference /\ Prepared.through = task.day
           /\ ref.through <= task.day
  <1>1. task.day \in Day
    BY DEF TypeInv, TailInv, Ends, Program
  <1>2. Vanished \subseteq Asset
    BY DEF Vanished
  <1>3. ref.closed \subseteq Asset
    BY DEF TypeInv, Reference
  <1> QED BY <1>1, <1>2, <1>3 DEF Prepared, Reference, Preparable

(* So does what it resumes. *)
LEMMA CapturedOK ==
    ASSUME TypeInv, TailInv, task.pc = "reference", NEW p \in Capture
    PROVE  p.next \in Reference /\ p.next.through = task.day /\ ref.through <= task.day
  <1>1. p \in pending /\ p.of = [sessions |-> task.sessions, ref |-> ref]
    BY DEF Capture
  <1>2. CaptureOK(p) /\ p.of.sessions = task.sessions /\ p.of.ref = ref
    BY <1>1 DEF TypeInv
  <1>3. Ends(task.sessions, task.day) /\ Ends(task.sessions, p.next.through)
    BY <1>2 DEF TailInv, CaptureOK
  <1>4. task.day \in Int /\ p.next.through \in Int
    BY <1>2 DEF TypeInv, Program, CaptureOK, Reference, Day
  <1>5. p.next.through = task.day
    BY <1>3, <1>4, OneEnd
  <1> QED BY <1>2, <1>5 DEF CaptureOK

(* A task that starts its flows. *)
LEMMA BeginOK ==
    ASSUME TypeInv, TailInv, task.pc = "reference", NEW r \in Reference, NEW m \in Nat,
           Begin(r, m)
    PROVE  /\ task' \in Program
           /\ task'.pc = "flows" /\ task'.next = r
           /\ task'.day = task.day /\ task'.sessions = task.sessions
  BY DEF Begin, TypeInv, Program, PC

-----------------------------------------------------------------------------
(* The steps of a task from its reference to its end.                      *)
PrepareStep == Prepare \/ Resume
FlowStep ==
    (\E p \in Ahead : Read(p) \/ ReadFails(p)) \/ Failed \/ Publish \/ Mark
LeaveStep == Stop \/ Refuse \/ Incomplete
GoldStep == ListFactors \/ \E f \in Factor : RunFactor(f)
WorldStep ==
    NextDay \/ (\E d \in Day : Deliver(d) \/ Post(d)) \/ (\E a \in Asset, d \in Day : Revise(a, d))
      \/ Promote

tail == <<core, ref, pending, listings, gold, finished>>

(* Rows and reads leave the tail alone; only a flag or the place changes.  *)
LEMMA FlowKeeps ==
    ASSUME TypeInv, FlowStep
    PROVE  /\ UNCHANGED <<tail, today, approved>>
           /\ task' \in Program
           /\ task.pc \in {"flows", "mark"} /\ task'.pc \in {"flows", "mark"}
           /\ task'.day = task.day /\ task'.sessions = task.sessions /\ task'.next = task.next
  <1>1. CASE \E p \in Ahead : Read(p) \/ ReadFails(p)
    BY <1>1 DEF Read, ReadFails, world, kis, factors, tail, TypeInv
  <1>2. CASE Failed
    BY <1>2 DEF Failed, world, kis, factors, tail, TypeInv, Program, PC
  <1>3. CASE Publish
    BY <1>3 DEF Publish, world, kis, factors, tail, TypeInv, Program, PC
  <1>4. CASE Mark
    BY <1>4 DEF Mark, world, kis, factors, tail, TypeInv, Program, PC
  <1> QED BY <1>1, <1>2, <1>3, <1>4 DEF FlowStep

LEMMA LeaveKeeps ==
    ASSUME TypeInv, LeaveStep
    PROVE  UNCHANGED <<tail, today, approved>> /\ task' = Idle
  BY DEF LeaveStep, Stop, Refuse, Incomplete, Leave, world, kis, factors, tail

LEMMA WorldKeeps ==
    ASSUME TypeInv, WorldStep
    PROVE  /\ UNCHANGED <<tail, task>>
           /\ today' \in Day /\ approved' \subseteq Factor
  <1>1. CASE NextDay
    BY <1>1, FollowupAssumption DEF NextDay, kis, factors, tail, TypeInv, Day
  <1>2. CASE \E d \in Day : Deliver(d) \/ Post(d)
    BY <1>2 DEF Deliver, Post, kis, factors, tail, TypeInv
  <1>3. CASE \E a \in Asset, d \in Day : Revise(a, d)
    BY <1>3 DEF Revise, kis, factors, tail, TypeInv
  <1>4. CASE Promote
    BY <1>4 DEF Promote, world, kis, tail, TypeInv
  <1> QED BY <1>1, <1>2, <1>3, <1>4 DEF WorldStep

LEMMA StepKinds ==
    Next => \/ WorldStep \/ Daily \/ GapReplay \/ LeaveStep \/ PrepareStep \/ FlowStep
            \/ Certify \/ GoldStep \/ Finish
  BY DEF Next, TaskStep, WorldStep, LeaveStep, PrepareStep, FlowStep, GoldStep

LEMMA TypeTailNext ==
    ASSUME TypeInv, TailInv, [Next]_vars
    PROVE  TypeInv' /\ TailInv'
  <1>1. CASE WorldStep
    BY <1>1, WorldKeeps DEF TypeInv, TailInv, tail, GoldDays
  <1>2. CASE Daily \/ GapReplay
    <2>1. PICK d \in Day, from \in 0 .. NumDays : Start(d, from)
      BY <1>2, Starts
    <2>2. /\ task' \in Program /\ core' \in Day
          /\ Ends(task'.sessions, task'.day)
          /\ task'.pc = "reference"
      BY <2>1, StartType
    <2>3. UNCHANGED <<today, ref, pending, listings, gold, approved>>
      BY <2>1 DEF Start, world, kis, factors
    <2> QED BY <2>2, <2>3 DEF TypeInv, TailInv
  <1>3. CASE LeaveStep
    <2>1. UNCHANGED <<tail, today, approved>> /\ task' = Idle
      BY <1>3, LeaveKeeps
    <2>2. task'.pc = "idle" /\ task' \in Program
      BY <2>1, IdleType DEF Idle
    <2> QED BY <2>1, <2>2 DEF TypeInv, TailInv, tail
  <1>4. CASE Prepare
    <2>1. /\ task.pc = "reference" /\ Preparable /\ Begin(Prepared, listings + 1)
          /\ listings' = listings + 1
          /\ pending' = pending \cup {[of |-> [sessions |-> task.sessions, ref |-> ref],
                                       manifest |-> listings + 1, next |-> Prepared]}
          /\ UNCHANGED <<today, core, ref, approved, gold>>
      BY <1>4 DEF Prepare, world, factors
    <2>2. Prepared \in Reference /\ Prepared.through = task.day /\ ref.through <= task.day
      BY <2>1, PreparedOK
    <2>3. listings + 1 \in Nat
      BY DEF TypeInv
    <2>4. /\ task' \in Program
          /\ task'.pc = "flows" /\ task'.next = Prepared
          /\ task'.day = task.day /\ task'.sessions = task.sessions
      BY <2>1, <2>2, <2>3, BeginOK
    <2>5. Ends(task.sessions, task.day)
      BY <2>1 DEF TailInv
    <2>6. \A p \in pending' : CaptureOK(p)
      BY <2>1, <2>2, <2>5 DEF TypeInv, CaptureOK
    <2> QED BY <2>1, <2>2, <2>3, <2>4, <2>5, <2>6 DEF TypeInv, TailInv
  <1>5. CASE Resume
    <2>1. /\ task.pc = "reference"
          /\ UNCHANGED <<today, core, ref, pending, listings, approved, gold>>
      BY <1>5 DEF Resume, world, factors, kis
    <2>2. PICK p \in Capture : Begin(p.next, p.manifest)
      BY <1>5 DEF Resume
    <2>3. p.next \in Reference /\ p.next.through = task.day /\ ref.through <= task.day
      BY <2>1, CapturedOK
    <2>4. p.manifest \in Nat
      BY DEF TypeInv, Capture, CaptureOK
    <2>5. /\ task' \in Program
          /\ task'.pc = "flows" /\ task'.next = p.next
          /\ task'.day = task.day /\ task'.sessions = task.sessions
      BY <2>1, <2>2, <2>3, <2>4, BeginOK
    <2> QED BY <2>1, <2>3, <2>5 DEF TypeInv, TailInv
  <1>6. CASE FlowStep
    BY <1>6, FlowKeeps DEF TypeInv, TailInv, tail
  <1>7. CASE Certify
    <2>1. /\ task.pc = "flows" /\ ref' = task.next /\ task' = [task EXCEPT !.pc = "list"]
          /\ UNCHANGED <<today, core, pending, listings, approved, gold>>
      BY <1>7 DEF Certify, world, factors
    <2>2. /\ task' \in Program /\ task'.pc = "list"
          /\ task'.day = task.day /\ task'.sessions = task.sessions
          /\ task.next \in Reference
      BY <2>1 DEF TypeInv, Program, PC
    <2> QED BY <2>1, <2>2 DEF TypeInv, TailInv
  <1>8. CASE ListFactors
    <2>1. /\ task.pc = "list"
          /\ task' = [task EXCEPT !.pc = "gold", !.list = approved, !.todo = approved]
          /\ UNCHANGED <<today, core, ref, pending, listings, approved, gold>>
      BY <1>8 DEF ListFactors, world, factors, kis
    <2>2. /\ task' \in Program /\ task'.pc = "gold"
          /\ task'.day = task.day /\ task'.sessions = task.sessions
          /\ task'.list = approved /\ task'.todo = approved
      BY <2>1 DEF TypeInv, Program, PC
    <2> QED BY <2>1, <2>2 DEF TypeInv, TailInv
  <1>9. CASE \E f \in Factor : RunFactor(f)
    <2>1. PICK f \in Factor : RunFactor(f)
      BY <1>9
    <2>2. /\ task.pc = "gold" /\ f \in task.todo
          /\ gold' = [gold EXCEPT ![f] = @ \cup GoldDays]
          /\ task' = [task EXCEPT !.todo = @ \ {f}]
          /\ UNCHANGED <<today, core, ref, pending, listings, approved>>
      BY <2>1 DEF RunFactor, world, kis
    <2>3. /\ task' \in Program /\ task'.pc = "gold"
          /\ task'.day = task.day /\ task'.sessions = task.sessions /\ task'.from = task.from
          /\ task'.list = task.list /\ task'.todo = task.todo \ {f}
          /\ task.list \subseteq Factor
      BY <2>2 DEF TypeInv, Program, PC
    <2>4. GoldDays' = GoldDays /\ GoldDays \subseteq Int
      BY <2>3 DEF GoldDays, TypeInv, Program
    <2>5. /\ gold' \in [Factor -> SUBSET Int]
          /\ GoldDays \subseteq gold'[f]
          /\ \A g \in Factor : gold[g] \subseteq gold'[g]
      BY <2>2, <2>4 DEF TypeInv
    <2>6. \A g \in task'.list \ task'.todo : GoldDays' \subseteq gold'[g]
      BY <2>2, <2>3, <2>4, <2>5 DEF TailInv
    <2> QED BY <2>2, <2>3, <2>5, <2>6 DEF TypeInv, TailInv
  <1>10. CASE Finish
    <2>1. task' = Idle /\ UNCHANGED <<today, core, ref, pending, listings, approved, gold>>
      BY <1>10 DEF Finish, Leave, world, kis, factors
    <2>2. task'.pc = "idle" /\ task' \in Program
      BY <2>1, IdleType DEF Idle
    <2> QED BY <2>1, <2>2 DEF TypeInv, TailInv
  <1>11. CASE UNCHANGED vars
    BY <1>11 DEF vars, world, kis, factors, TypeInv, TailInv, GoldDays
  <1> QED BY <1>1, <1>2, <1>3, <1>4, <1>5, <1>6, <1>7, <1>8, <1>9, <1>10, <1>11, StepKinds
          DEF PrepareStep, GoldStep

-----------------------------------------------------------------------------
(* The days that are finished were finished with factors.                  *)
Named(F) == \A d \in Seed + 1 .. NumDays : F[d] # Unfinished => F[d] \subseteq Factor

CompleteInv == Named(finished) /\ FollowupsComplete

(* What an earlier task has done stays done.                               *)
LEMMA CompleteKept ==
    ASSUME TypeInv, CompleteInv, ref' \in Reference, finished' = finished,
           ref'.through >= ref.through, \A f \in Factor : gold[f] \subseteq gold'[f]
    PROVE  CompleteInv'
  <1> SUFFICES ASSUME NEW d \in Seed + 1 .. NumDays, finished[d] # Unfinished
               PROVE  ref'.through >= d /\ \A f \in finished[d] : d \in gold'[f]
    BY DEF CompleteInv, FollowupsComplete, Named
  <1>1. ref.through >= d /\ \A f \in finished[d] : d \in gold[f]
    BY DEF CompleteInv, FollowupsComplete
  <1>2. d \in Int /\ ref.through \in Int /\ ref'.through \in Int
    BY FollowupAssumption DEF TypeInv, Reference, Day
  <1>3. finished[d] \subseteq Factor
    BY DEF CompleteInv, Named
  <1> QED BY <1>1, <1>2, <1>3

(* The reference only advances, the partitions of a factor are only added, *)
(* and a day is finished when both are there.                              *)
LEMMA CompleteNext ==
    ASSUME TypeInv, TailInv, CompleteInv, [Next]_vars
    PROVE  CompleteInv'
  <1>0. TypeInv' /\ TailInv'
    BY TypeTailNext
  <1>1. ref \in Reference /\ ref' \in Reference
        /\ ref.through \in Int
    BY <1>0, FollowupAssumption DEF TypeInv, Reference, Day
  <1>2. ASSUME UNCHANGED <<ref, gold, finished>> PROVE CompleteInv'
    BY <1>1, <1>2, CompleteKept
  <1>3. CASE WorldStep \/ LeaveStep \/ FlowStep
    BY <1>2, <1>3, WorldKeeps, LeaveKeeps, FlowKeeps DEF tail
  <1>4. CASE Daily \/ GapReplay
    BY <1>2, <1>4, Starts DEF Start, kis, factors
  <1>5. CASE PrepareStep \/ ListFactors
    BY <1>2, <1>5 DEF PrepareStep, Prepare, Resume, ListFactors, kis, factors
  <1>6. CASE Certify
    <2>1. /\ task.pc = "flows" /\ ref' = task.next /\ UNCHANGED <<gold, finished>>
      BY <1>6 DEF Certify, factors
    <2>2. ref'.through = task.day /\ ref.through <= task.day
      BY <2>1 DEF TailInv
    <2>3. task.day \in Int
      BY <2>1, FollowupAssumption DEF TypeInv, Program
    <2>4. ref'.through >= ref.through
      BY <1>1, <2>2, <2>3
    <2> QED BY <1>1, <2>1, <2>4, CompleteKept
  <1>7. CASE \E f \in Factor : RunFactor(f)
    <2>1. PICK f \in Factor : RunFactor(f)
      BY <1>7
    <2>2. gold' = [gold EXCEPT ![f] = @ \cup GoldDays] /\ UNCHANGED <<ref, finished>>
      BY <2>1 DEF RunFactor, kis
    <2>3. \A g \in Factor : gold[g] \subseteq gold'[g]
      BY <2>2 DEF TypeInv
    <2> QED BY <1>1, <2>2, <2>3, CompleteKept
  <1>8. CASE Finish
    <2>1. /\ task.pc = "gold" /\ task.todo = {} /\ UNCHANGED <<ref, gold>>
          /\ finished' = [d \in Day |-> IF d \in task.from .. task.day THEN task.list
                                        ELSE finished[d]]
      BY <1>8 DEF Finish, kis, factors
    <2>2. task.list \subseteq Factor /\ task.day \in Int /\ task.from \in Int
      BY FollowupAssumption DEF TypeInv, Program
    <2> SUFFICES ASSUME NEW d \in Seed + 1 .. NumDays, finished'[d] # Unfinished
                 PROVE  /\ finished'[d] \subseteq Factor /\ ref.through >= d
                        /\ \A f \in finished'[d] : d \in gold[f]
      BY <2>1 DEF CompleteInv, FollowupsComplete, Named
    <2>3. d \in Day
      BY FollowupAssumption DEF Day
    <2>4. CASE d \in task.from .. task.day
      <3>1. finished'[d] = task.list
        BY <2>1, <2>3, <2>4
      <3>2. ref.through = task.day /\ \A f \in task.list : GoldDays \subseteq gold[f]
        BY <2>1 DEF TailInv
      <3> QED BY <2>2, <2>4, <3>1, <3>2 DEF GoldDays
    <2>5. CASE d \notin task.from .. task.day
      <3>1. finished'[d] = finished[d]
        BY <2>1, <2>3, <2>5
      <3> QED BY <3>1 DEF CompleteInv, FollowupsComplete, Named
    <2> QED BY <2>4, <2>5
  <1>9. CASE UNCHANGED vars
    BY <1>2, <1>9 DEF vars, kis, factors
  <1> QED BY <1>3, <1>4, <1>5, <1>6, <1>7, <1>8, <1>9, StepKinds DEF GoldStep

LEMMA TailInit == Init => TypeInv /\ TailInv /\ CompleteInv
  <1> SUFFICES ASSUME Init PROVE TypeInv /\ TailInv /\ CompleteInv
    OBVIOUS
  <1>1. Seed \in Day /\ ref \in Reference
    BY FollowupAssumption DEF Init, Reference
  <1>2. Idle \in Program
    BY <1>1, FollowupAssumption DEF Idle, Program, PC, Day
  <1>3. TypeInv
    BY <1>1, <1>2 DEF Init, TypeInv
  <1>4. TailInv
    BY DEF Init, TailInv, Idle
  <1>5. CompleteInv
    <2>1. ASSUME NEW d \in Seed + 1 .. NumDays PROVE finished[d] = Unfinished
      BY FollowupAssumption DEF Init, Day
    <2> QED BY <2>1 DEF CompleteInv, FollowupsComplete, Named
  <1> QED BY <1>3, <1>4, <1>5

(* A day whose tail ended well has its KIS reference and a partition of    *)
(* every factor its task found approved, for any number of sessions and    *)
(* factors, stops, failed reads and gap replays (daily_full.py,            *)
(* gap_replay.py --defer-followups).                                       *)
THEOREM TailComplete == Spec => []FollowupsComplete
  <1>1. TypeInv /\ TailInv /\ CompleteInv /\ [Next]_vars => (TypeInv /\ TailInv /\ CompleteInv)'
    BY TypeTailNext, CompleteNext
  <1>2. CompleteInv => FollowupsComplete
    BY DEF CompleteInv
  <1> QED BY <1>1, <1>2, TailInit, PTL DEF Spec

-----------------------------------------------------------------------------
Rising(s) == \A i \in 1 .. Len(s) - 1 : s[i] # s[i + 1]

(* What a partition answered, when it did not fail.                        *)
AnswerOK(p, g) ==
    g = Failure \/ \A d \in p.days \cap Day : p.asset \in Asset => g[d] \in Value

ReadInv ==
    /\ flow \in [Asset -> [Day -> Value]]
    /\ obs \in [Key -> Seq(Value)]
    /\ \A p \in DOMAIN got : AnswerOK(p, got[p])
    /\ \A k \in Key : Rising(obs[k])

MarkInv ==
    task.pc = "mark" =>
        /\ Head1 \in DOMAIN got
        /\ \A k \in Key \cap Keys(Head1) : Last(obs[k]) = got[Head1][k[2]]

(* A version is stored unless it is the newest.                            *)
LEMMA StoreRising ==
    ASSUME NEW s \in Seq(Value), NEW v \in Value, Rising(s)
    PROVE  /\ Store(s, v) \in Seq(Value)
           /\ Rising(Store(s, v))
           /\ Last(Store(s, v)) = v
  <1>1. CASE s # <<>> /\ Last(s) = v
    BY <1>1 DEF Store
  <1>2. CASE ~(s # <<>> /\ Last(s) = v)
    <2> DEFINE t == Append(s, v)
    <2>1. /\ t \in Seq(Value) /\ Len(t) = Len(s) + 1 /\ t[Len(t)] = v
          /\ \A i \in 1 .. Len(s) : t[i] = s[i]
          /\ Len(s) \in Nat
      OBVIOUS
    <2>2. Store(s, v) = t
      BY <1>2 DEF Store
    <2>3. s # <<>> => Len(s) > 0 /\ s[Len(s)] # v
      BY <1>2 DEF Last
    <2>4. s = <<>> => Len(s) = 0
      OBVIOUS
    <2> HIDE DEF t
    <2>5. Rising(t)
      <3> SUFFICES ASSUME NEW i \in 1 .. Len(t) - 1 PROVE t[i] # t[i + 1]
        BY DEF Rising
      <3>1. CASE i < Len(s)
        <4>1. i \in 1 .. Len(s) - 1 /\ i \in 1 .. Len(s) /\ i + 1 \in 1 .. Len(s)
          BY <2>1, <3>1
        <4> QED BY <2>1, <4>1 DEF Rising
      <3>2. CASE i = Len(s)
        BY <2>1, <2>3, <2>4, <3>2
      <3> QED BY <2>1, <3>1, <3>2
    <2> QED BY <2>1, <2>2, <2>5 DEF Last
  <1> QED BY <1>1, <1>2

(* What is read ahead is a value of each day, and does not replace what    *)
(* has been read.                                                          *)
LEMMA ReadAhead ==
    ASSUME ReadInv, NEW p, p \in Ahead, NEW g, AnswerOK(p, g), Obtain(p, g)
    PROVE  /\ \A q \in DOMAIN got' : AnswerOK(q, got'[q])
           /\ \A q \in DOMAIN got : q \in DOMAIN got' /\ got'[q] = got[q]
  <1>1. p \notin DOMAIN got
    BY DEF Ahead
  <1>2. /\ DOMAIN got' = DOMAIN got \cup {p}
        /\ \A q \in DOMAIN got : got'[q] = got[q]
        /\ got'[p] = g
    BY <1>1 DEF Obtain
  <1> QED BY <1>2 DEF ReadInv

(* The rows of a partition, in one transaction.                            *)
LEMMA Published ==
    ASSUME ReadInv, Head1 \in DOMAIN got, got[Head1] # Failure, PublishPartition
    PROVE  /\ obs' \in [Key -> Seq(Value)]
           /\ \A k \in Key : Rising(obs'[k])
           /\ \A k \in Key \cap Keys(Head1) : Last(obs'[k]) = got[Head1][k[2]]
  <1>1. \A k \in Key \cap Keys(Head1) : got[Head1][k[2]] \in Value
    BY DEF ReadInv, AnswerOK, Keys, Key
  <1>2. obs' = [k \in Key |-> IF k \in Keys(Head1) THEN Store(obs[k], got[Head1][k[2]]) ELSE obs[k]]
    BY DEF PublishPartition
  <1>3. ASSUME NEW k \in Key
        PROVE  /\ obs'[k] \in Seq(Value) /\ Rising(obs'[k])
               /\ k \in Keys(Head1) => Last(obs'[k]) = got[Head1][k[2]]
    <2>0. obs[k] \in Seq(Value) /\ Rising(obs[k])
      BY DEF ReadInv
    <2>1. CASE k \in Keys(Head1)
      <3>1. obs'[k] = Store(obs[k], got[Head1][k[2]]) /\ got[Head1][k[2]] \in Value
        BY <1>1, <1>2, <2>1
      <3> QED BY <2>0, <3>1, StoreRising
    <2>2. CASE k \notin Keys(Head1)
      BY <1>2, <2>0, <2>2
    <2> QED BY <2>1, <2>2
  <1> QED BY <1>2, <1>3

LEMMA FetchedNext ==
    ASSUME ReadInv, MarkInv, TypeInv, TailInv, [Next]_vars
    PROVE  ReadInv' /\ MarkInv'
  <1>1. ASSUME UNCHANGED <<flow, obs, got, plans, task>> PROVE ReadInv' /\ MarkInv'
    BY <1>1 DEF ReadInv, MarkInv, Rising, Head1
  <1>2. ASSUME UNCHANGED <<flow, obs>>, task'.pc # "mark",
               \A p \in DOMAIN got' : p \in DOMAIN got /\ got'[p] = got[p]
        PROVE  ReadInv' /\ MarkInv'
    BY <1>2 DEF ReadInv, MarkInv
  <1>3. CASE WorldStep
    <2>1. CASE \E a \in Asset, d \in Day : Revise(a, d)
      <3>1. PICK a \in Asset, d \in Day : Revise(a, d)
        BY <2>1
      <3>2. flow' = [flow EXCEPT ![a][d] = 1 - @] /\ UNCHANGED <<obs, got, plans, task>>
        BY <3>1 DEF Revise, kis
      <3>3. flow' \in [Asset -> [Day -> Value]]
        BY <3>2 DEF ReadInv, Value
      <3> QED BY <3>2, <3>3 DEF ReadInv, MarkInv, Head1
    <2>2. CASE ~\E a \in Asset, d \in Day : Revise(a, d)
      BY <1>1, <1>3, <2>2
      DEF WorldStep, NextDay, Deliver, Post, Promote, kis, world
    <2> QED BY <2>1, <2>2
  <1>4. CASE Daily \/ GapReplay
    <2>1. PICK d \in Day, from \in 0 .. NumDays : Start(d, from)
      BY <1>4, Starts
    <2>2. task'.pc = "reference" /\ UNCHANGED <<flow, obs, got>>
      BY <2>1, StartType DEF Start, world, kis
    <2> QED BY <1>2, <2>2
  <1>5. CASE LeaveStep \/ Finish
    <2>1. task'.pc = "idle" /\ got' = <<>> /\ UNCHANGED <<flow, obs>>
      BY <1>5 DEF LeaveStep, Stop, Refuse, Incomplete, Finish, Leave, Idle, world, kis
    <2>2. DOMAIN got' = {}
      BY <2>1
    <2> QED BY <1>2, <2>1, <2>2
  <1>6. CASE PrepareStep
    <2>1. task'.pc = "flows" /\ got' = <<>> /\ UNCHANGED <<flow, obs>>
      BY <1>6 DEF PrepareStep, Prepare, Resume, Begin, world, kis, TypeInv, Program
    <2>2. DOMAIN got' = {}
      BY <2>1
    <2> QED BY <1>2, <2>1, <2>2
  <1>7. CASE \E p \in Ahead : Read(p) \/ ReadFails(p)
    <2>0. PICK p \in Ahead : Read(p) \/ ReadFails(p)
      BY <1>7
    <2>1. PICK g \in {Answer(p), Failure} :
            p \in Ahead /\ Obtain(p, g) /\ UNCHANGED <<flow, obs, plans, task>>
      BY <2>0 DEF Read, ReadFails, world, kis
    <2>2. AnswerOK(p, g)
      <3>1. CASE g = Failure
        BY <3>1 DEF AnswerOK
      <3>2. CASE g = [d \in p.days |-> flow[p.asset][d]]
        BY <3>2 DEF AnswerOK, ReadInv
      <3> QED BY <2>1, <3>1, <3>2 DEF Answer
    <2>3. /\ \A q \in DOMAIN got' : AnswerOK(q, got'[q])
          /\ \A q \in DOMAIN got : q \in DOMAIN got' /\ got'[q] = got[q]
      BY <2>1, <2>2, ReadAhead
    <2> QED BY <2>1, <2>3 DEF ReadInv, MarkInv, Head1
  <1>8. CASE Failed
    <2>1. /\ task'.pc = "flows" /\ UNCHANGED <<flow, obs>>
          /\ got' = [p \in DOMAIN got \ {Head1} |-> got[p]]
      BY <1>8 DEF Failed, Drop, world, kis, TypeInv, Program
    <2> QED BY <1>2, <2>1
  <1>9. CASE Publish
    <2>1. /\ Head1 \in DOMAIN got /\ got[Head1] # Failure /\ PublishPartition
          /\ UNCHANGED <<flow, got, plans>>
      BY <1>9 DEF Publish, world
    <2>2. /\ obs' \in [Key -> Seq(Value)]
          /\ \A k \in Key : Rising(obs'[k])
          /\ \A k \in Key \cap Keys(Head1) : Last(obs'[k]) = got[Head1][k[2]]
      BY <2>1, Published
    <2> QED BY <2>1, <2>2 DEF ReadInv, MarkInv, Head1
  <1>10. CASE Mark
    <2>1. /\ task'.pc = "flows" /\ UNCHANGED <<flow, obs>>
          /\ got' = [p \in DOMAIN got \ {Head1} |-> got[p]]
      BY <1>10 DEF Mark, Drop, world, TypeInv, Program
    <2> QED BY <1>2, <2>1
  <1>11. CASE Certify \/ GoldStep
    <2>1. task'.pc # "mark" /\ UNCHANGED <<flow, obs, got>>
      BY <1>11 DEF Certify, GoldStep, ListFactors, RunFactor, world, kis, TypeInv, Program
    <2> QED BY <1>2, <2>1
  <1>12. CASE UNCHANGED vars
    BY <1>1, <1>12 DEF vars, world, kis
  <1> QED BY <1>3, <1>4, <1>5, <1>6, <1>7, <1>8, <1>9, <1>10, <1>11, <1>12, StepKinds
          DEF FlowStep

LEMMA FetchedInit == Init => ReadInv /\ MarkInv
  <1> SUFFICES ASSUME Init PROVE ReadInv /\ MarkInv
    OBVIOUS
  <1>1. flow \in [Asset -> [Day -> Value]]
    BY DEF Init, Value
  <1>2. DOMAIN got = {}
    BY DEF Init
  <1>3. obs \in [Key -> {<<>>, <<0>>}]
    BY DEF Init
  <1>4. \A s \in {<<>>, <<0>>} : s \in Seq(Value) /\ Rising(s)
    <2>1. <<>> \in Seq(Value) /\ Len(<<>>) = 0
      OBVIOUS
    <2>2. <<0>> \in Seq(Value) /\ Len(<<0>>) = 1
      BY DEF Value
    <2>3. 1 .. 0 - 1 = {} /\ 1 .. 1 - 1 = {}
      OBVIOUS
    <2>4. Rising(<<>>)
      BY <2>1, <2>3 DEF Rising
    <2>5. Rising(<<0>>)
      BY <2>2, <2>3 DEF Rising
    <2> QED BY <2>1, <2>2, <2>4, <2>5
  <1>5. MarkInv
    BY DEF Init, MarkInv, Idle
  <1> QED BY <1>1, <1>2, <1>3, <1>4, <1>5 DEF ReadInv

(* What a partition read is the newest observation of its keys once it is  *)
(* published, also a value that returns, and no version repeats the one    *)
(* before it (silver/kis_flows.py publish), however the pool reads ahead.  *)
THEOREM LatestFetched == Spec => []LatestAsFetched
  <1>1. Init => TypeInv /\ TailInv /\ ReadInv /\ MarkInv
    BY TailInit, FetchedInit
  <1>2. TypeInv /\ TailInv /\ ReadInv /\ MarkInv /\ [Next]_vars
          => (TypeInv /\ TailInv /\ ReadInv /\ MarkInv)'
    BY TypeTailNext, FetchedNext
  <1>3. ReadInv /\ MarkInv => LatestAsFetched
    BY DEF ReadInv, MarkInv, Rising, LatestAsFetched
  <1> QED BY <1>1, <1>2, <1>3, PTL DEF Spec

-----------------------------------------------------------------------------
(* The keys that the listings and the NXT pages ask for.                   *)
OnVenue(k) == k[3] = "NX" => k[1] \in Nxt[k[2]]
Wanted(k) == Listed(k[1], k[2]) /\ OnVenue(k)

(* A reference whose listing periods are closed through its last session.  *)
Known(r) == \A a \in Asset : Gone[a] = 0 \/ Gone[a] > r.through \/ a \in r.closed

LEMMA KnownPeriods ==
    ASSUME NEW r \in Reference, Known(r), NEW a \in Asset, NEW d \in Day, d <= r.through
    PROVE  InPeriod(r, a, d) <=> Listed(a, d)
  <1>1. Periods(r)[a] = IF a \in r.closed THEN Gone[a] ELSE 0
    BY DEF Periods
  <1>2. Gone[a] \in Int /\ d \in Int /\ r.through \in Int
    BY FollowupAssumption DEF Reference, Day
  <1>3. a \notin r.closed => Gone[a] = 0 \/ Gone[a] > r.through
    BY DEF Known
  <1> QED BY <1>1, <1>2, <1>3 DEF InPeriod, Listed

(* The partitions of an asset ask for its days within the listing period,  *)
(* on NXT those on which it is eligible.                                   *)
LEMMA PlanKeys ==
    ASSUME NEW r, NEW S \in SUBSET Day, NEW a \in Asset, NEW d \in Day, NEW v \in Venue
    PROVE  (\E p \in PlansOf(r, S, a) : p.asset = a /\ d \in p.days /\ p.venue = v)
             <=> d \in S /\ InPeriod(r, a, d) /\ (v = "NX" => a \in Nxt[d])
  <1> DEFINE days == Expected(r, S, a)
             eligible == {e \in days : a \in Nxt[e]}
             Row(w, D) == [asset |-> a, venue |-> w, days |-> D]
  <1>1. d \in days <=> d \in S /\ InPeriod(r, a, d)
    BY DEF Expected
  <1>2. d \in eligible <=> d \in days /\ a \in Nxt[d]
    OBVIOUS
  <1>3. PlansOf(r, S, a) = {p \in {Row("J", days), Row("NX", eligible), Row("UN", eligible),
                                   Row("UN", days \ eligible)} : p.days # {}}
    BY DEF PlansOf, Entries
  <1>4. \A w, D : Row(w, D).asset = a /\ Row(w, D).venue = w /\ Row(w, D).days = D
    OBVIOUS
  <1> HIDE DEF days, eligible, Row
  <1>5. ASSUME NEW p \in PlansOf(r, S, a), d \in p.days, p.venue = v
        PROVE  d \in days /\ (v = "NX" => a \in Nxt[d])
    <2>1. \/ p = Row("J", days) \/ p = Row("NX", eligible)
          \/ p = Row("UN", eligible) \/ p = Row("UN", days \ eligible)
      BY <1>3
    <2> QED BY <1>2, <1>4, <1>5, <2>1
  <1>6. ASSUME d \in days, v = "NX" => a \in Nxt[d]
        PROVE  \E p \in PlansOf(r, S, a) : p.asset = a /\ d \in p.days /\ p.venue = v
    <2>1. CASE v = "J"
      <3>1. Row("J", days) \in PlansOf(r, S, a)
        BY <1>3, <1>4, <1>6
      <3> QED BY <1>4, <1>6, <2>1, <3>1
    <2>2. CASE v # "J" /\ d \in eligible
      <3>1. Row(v, eligible) \in PlansOf(r, S, a)
        BY <1>3, <1>4, <2>2 DEF Venue
      <3> QED BY <1>4, <2>2, <3>1
    <2>3. CASE v # "J" /\ d \notin eligible
      <3>1. v = "UN" /\ d \in days \ eligible
        BY <1>2, <1>6, <2>3 DEF Venue
      <3>2. Row("UN", days \ eligible) \in PlansOf(r, S, a)
        BY <1>3, <1>4, <3>1
      <3> QED BY <1>4, <3>1, <3>2
    <2> QED BY <2>1, <2>2, <2>3
  <1> QED BY <1>1, <1>5, <1>6

LEMMA PlanAsset ==
    ASSUME NEW r, NEW S, NEW a \in Asset, NEW p \in PlansOf(r, S, a)
    PROVE  p.asset = a /\ p.venue \in Venue /\ p.days \subseteq S
  BY DEF PlansOf, Entries, Expected, Venue

LEMMA KeysAsked ==
    ASSUME NEW r, NEW S \in SUBSET Day
    PROVE  /\ KeysOf(r, S) \subseteq Key
           /\ \A k \in Key : k \in KeysOf(r, S)
                 <=> k[2] \in S /\ InPeriod(r, k[1], k[2]) /\ OnVenue(k)
  <1>1. ASSUME NEW k
        PROVE  k \in KeysOf(r, S) <=>
                 \E a \in Asset : \E p \in PlansOf(r, S, a) :
                    \E d \in p.days : k = <<p.asset, d, p.venue>>
    BY DEF KeysOf, AllPlans, Keys
  <1>2. ASSUME NEW k \in KeysOf(r, S) PROVE k \in Key
    <2>1. PICK a \in Asset : \E p \in PlansOf(r, S, a) :
                    \E d \in p.days : k = <<p.asset, d, p.venue>>
      BY <1>1
    <2>2. PICK p \in PlansOf(r, S, a) : \E d \in p.days : k = <<p.asset, d, p.venue>>
      BY <2>1
    <2> QED BY <2>2, PlanAsset DEF Key
  <1>3. ASSUME NEW k \in Key
        PROVE  k \in KeysOf(r, S) <=> k[2] \in S /\ InPeriod(r, k[1], k[2]) /\ OnVenue(k)
    <2>1. PICK a \in Asset, d \in Day, v \in Venue : k = <<a, d, v>>
      BY DEF Key
    <2>2. k \in KeysOf(r, S) <=>
            \E p \in PlansOf(r, S, a) : p.asset = a /\ d \in p.days /\ p.venue = v
      <3>1. ASSUME k \in KeysOf(r, S)
            PROVE  \E p \in PlansOf(r, S, a) : p.asset = a /\ d \in p.days /\ p.venue = v
        <4>1. PICK b \in Asset : \E p \in PlansOf(r, S, b) :
                      \E e \in p.days : k = <<p.asset, e, p.venue>>
          BY <1>1, <3>1
        <4>2. PICK p \in PlansOf(r, S, b) : \E e \in p.days : k = <<p.asset, e, p.venue>>
          BY <4>1
        <4>3. p.asset = b /\ p.asset = a /\ d \in p.days /\ p.venue = v
          BY <2>1, <4>2, PlanAsset
        <4> QED BY <4>2, <4>3
      <3>2. ASSUME NEW p \in PlansOf(r, S, a), p.asset = a, d \in p.days, p.venue = v
            PROVE  k \in KeysOf(r, S)
        BY <1>1, <2>1, <3>2
      <3> QED BY <3>1, <3>2
    <2>3. k[1] = a /\ k[2] = d /\ k[3] = v
      BY <2>1
    <2> QED BY <2>2, <2>3, PlanKeys DEF OnVenue
  <1> QED BY <1>2, <1>3

(* What a known reference asks for is what is wanted.                      *)
LEMMA KnownAsks ==
    ASSUME NEW r \in Reference, Known(r), NEW S \in SUBSET Day, NEW k \in Key,
           k[2] <= r.through
    PROVE  k \in KeysOf(r, S) <=> k[2] \in S /\ Wanted(k)
  <1>1. k[1] \in Asset /\ k[2] \in Day
    BY DEF Key
  <1>2. InPeriod(r, k[1], k[2]) <=> Listed(k[1], k[2])
    BY <1>1, KnownPeriods
  <1> QED BY <1>2, KeysAsked DEF Wanted

-----------------------------------------------------------------------------
(* The first partition of the plan is one of those that are left.          *)
LEMMA FirstLeft ==
    ASSUME NEW r, NEW S, plans \subseteq AllPlans(r, S), plans # {}
    PROVE  Head1 \in plans
  <1>1. \A p \in plans : Place(p) \in Nat
    <2> SUFFICES ASSUME NEW p \in plans PROVE Place(p) \in Nat
      OBVIOUS
    <2>1. PICK a \in Asset : p \in PlansOf(r, S, a)
      BY DEF AllPlans
    <2>2. p.asset = a /\ a \in Nat
      BY <2>1, PlanAsset, FollowupAssumption
    <2> QED BY <2>2 DEF Place
  <1> DEFINE T == {Place(p) : p \in plans}
  <1>2. T \subseteq Nat /\ T # {}
    BY <1>1
  <1> HIDE DEF T
  <1>3. \E n \in T : \A m \in T : n <= m
    <2> DEFINE R == OpToRel(<, Nat)
    <2>1. IsWellFoundedOn(R, Nat)
      BY NatLessThanWellFounded
    <2> HIDE DEF R
    <2>2. PICK n \in T : \A m \in T : <<m, n>> \notin R
      BY <1>2, <2>1, WFMin
    <2>3. \A m \in T : m \in Nat /\ n \in Nat /\ ~(m < n)
      BY <1>2, <2>2 DEF R, OpToRel
    <2> QED BY <2>2, <2>3
  <1>4. \E p \in plans : \A q \in plans : Place(p) <= Place(q)
    BY <1>3 DEF T
  <1> QED BY <1>4 DEF Head1

(* The window of a target holds every session since the checkpoint.        *)
LEMMA WindowCovers ==
    ASSUME TypeInv, NEW d \in Day
    PROVE  ref.through + 1 .. d \subseteq Sessions(d)
  <1> DEFINE x == d - Window + 1
             y == ref.through + 1
  <1>1. d \in Int /\ x \in Int /\ y \in Int /\ 1 <= y
    BY FollowupAssumption DEF TypeInv, Reference, Day
  <1>2. Sessions(d) = {e \in 1 .. d : e >= Min({x, y})}
    BY DEF Sessions
  <1>3. ref.through + 1 .. d = y .. d
    OBVIOUS
  <1> HIDE DEF x, y
  <1>4. \E m \in {x, y} : \A z \in {x, y} : m =< z
    BY <1>1
  <1>5. Min({x, y}) \in {x, y} /\ Min({x, y}) <= y
    BY <1>4 DEF Min
  <1> DEFINE m == Min({x, y})
  <1>6. m \in Int /\ m <= y
    BY <1>1, <1>5
  <1>7. Sessions(d) = {e \in 1 .. d : e >= m}
    BY <1>2
  <1> HIDE DEF m
  <1>8. \A e \in y .. d : e \in 1 .. d /\ e >= m
    BY <1>1, <1>6
  <1> QED BY <1>3, <1>7, <1>8

(* The certified observations up to the checkpoint.                        *)
Complete(o, r) == \A k \in Key : k[2] \in Seed .. r.through => (o[k] # <<>> <=> Wanted(k))

RefInv ==
    /\ Known(ref) /\ Complete(obs, ref)
    /\ \A p \in pending : Known(p.next)
    /\ task.pc # "idle" => core = task.day
    /\ task.pc \in {"reference", "flows", "mark"} =>
         ref.through + 1 .. task.day \subseteq task.sessions
    /\ task.pc \in {"flows", "mark"} =>
         Known(task.next) /\ plans \subseteq AllPlans(task.next, task.sessions)

(* What is closed when a reference is prepared: of the assets that left    *)
(* the market since the checkpoint each misses a price.                    *)
LEMMA PreparedKnown ==
    ASSUME TypeInv, TailInv, RefInv, task.pc = "reference"
    PROVE  Known(Prepared)
  <1> SUFFICES ASSUME NEW a \in Asset, Gone[a] # 0, ~(Gone[a] > task.day),
                      a \notin ref.closed
               PROVE  a \in Vanished
    BY DEF Known, Prepared
  <1>1. Gone[a] \in Nat /\ task.day \in Int /\ ref.through \in Int /\ core = task.day
    BY FollowupAssumption DEF TypeInv, Program, Reference, Day, RefInv
  <1>2. Gone[a] > ref.through
    BY DEF RefInv, Known
  <1>3. Gone[a] \in task.sessions
    BY <1>1, <1>2 DEF RefInv
  <1>4. InPeriod(ref, a, Gone[a])
    BY DEF InPeriod, Periods
  <1>5. ~Priced(a, Gone[a])
    BY <1>1 DEF Priced, Listed
  <1> QED BY <1>3, <1>4, <1>5 DEF Vanished, Expected

LEMMA StoreSome ==
    ASSUME NEW s \in Seq(Value), NEW v \in Value
    PROVE  Store(s, v) # <<>>
  <1>1. Len(Append(s, v)) = Len(s) + 1 /\ Len(s) \in Nat
    OBVIOUS
  <1>2. Len(<<>>) = 0
    OBVIOUS
  <1>3. Append(s, v) # <<>>
    BY <1>1, <1>2
  <1> QED BY <1>3 DEF Store

(* The rows of a partition are wanted, and make no observation go away.    *)
LEMMA PublishComplete ==
    ASSUME TypeInv, TailInv, ReadInv, RefInv, Publish
    PROVE  Complete(obs', ref)
  <1>1. /\ task.pc = "flows" /\ plans # {} /\ Head1 \in DOMAIN got /\ got[Head1] # Failure
        /\ obs' = [k \in Key |-> IF k \in Keys(Head1) THEN Store(obs[k], got[Head1][k[2]])
                                 ELSE obs[k]]
    BY DEF Publish, PublishPartition
  <1>2. plans \subseteq AllPlans(task.next, task.sessions) /\ Known(task.next)
    BY <1>1 DEF RefInv
  <1>3. Head1 \in AllPlans(task.next, task.sessions)
    BY <1>1, <1>2, FirstLeft
  <1>4. /\ task.next \in Reference /\ task.sessions \in SUBSET Day
        /\ task.next.through = task.day /\ ref.through <= task.day
    BY <1>1 DEF TypeInv, TailInv, Program
  <1> SUFFICES ASSUME NEW k \in Key, k[2] \in Seed .. ref.through
               PROVE  obs'[k] # <<>> <=> Wanted(k)
    BY DEF Complete
  <1>5. obs[k] # <<>> <=> Wanted(k)
    BY DEF RefInv, Complete
  <1>6. CASE k \in Keys(Head1)
    <2>1. k \in KeysOf(task.next, task.sessions)
      BY <1>3, <1>6 DEF KeysOf
    <2>2. k[2] \in Int /\ ref.through \in Int /\ task.day \in Int
      BY <1>4, FollowupAssumption DEF TypeInv, Reference, Program, Day, Key
    <2>3. k[2] <= task.next.through
      BY <1>4, <2>2
    <2>4. Wanted(k)
      BY <1>2, <1>4, <2>1, <2>3, KnownAsks
    <2>5. obs[k] \in Seq(Value) /\ got[Head1][k[2]] \in Value
      BY <1>1, <1>6 DEF ReadInv, AnswerOK, Keys, Key
    <2>6. obs'[k] # <<>>
      BY <1>1, <1>6, <2>5, StoreSome
    <2> QED BY <2>4, <2>6
  <1>7. CASE k \notin Keys(Head1)
    BY <1>1, <1>5, <1>7
  <1> QED BY <1>6, <1>7

(* The verified window closes the gap between the checkpoint and the day.  *)
LEMMA CertifyComplete ==
    ASSUME TypeInv, TailInv, RefInv, Certify
    PROVE  Complete(obs, task.next)
  <1>1. task.pc = "flows" /\ Stored(task.sessions) = KeysOf(task.next, task.sessions)
    BY DEF Certify, Covered
  <1>2. /\ task.next \in Reference /\ task.sessions \in SUBSET Day /\ Known(task.next)
        /\ task.next.through = task.day
        /\ ref.through + 1 .. task.day \subseteq task.sessions
    BY <1>1 DEF TypeInv, TailInv, Program, RefInv
  <1> SUFFICES ASSUME NEW k \in Key, k[2] \in Seed .. task.day
               PROVE  obs[k] # <<>> <=> Wanted(k)
    BY <1>2 DEF Complete
  <1>3. k[2] \in Int /\ ref.through \in Int /\ task.day \in Int /\ Seed \in Int
    BY FollowupAssumption DEF TypeInv, Reference, Program, Day, Key
  <1>4. CASE k[2] \in task.sessions
    <2>1. k[2] <= task.next.through
      BY <1>2, <1>3
    <2>2. k \in KeysOf(task.next, task.sessions) <=> Wanted(k)
      BY <1>2, <1>4, <2>1, KnownAsks
    <2>3. k \in Stored(task.sessions) <=> obs[k] # <<>>
      BY <1>4 DEF Stored
    <2> QED BY <1>1, <2>2, <2>3
  <1>5. CASE k[2] \notin task.sessions
    <2>1. k[2] \in Seed .. ref.through
      BY <1>2, <1>3, <1>5
    <2> QED BY <2>1 DEF RefInv, Complete
  <1> QED BY <1>4, <1>5

LEMMA RefNext ==
    ASSUME TypeInv, TailInv, ReadInv, RefInv, [Next]_vars
    PROVE  RefInv'
  <1>1. ASSUME UNCHANGED <<core, ref, obs, pending, plans, task>> PROVE RefInv'
    BY <1>1 DEF RefInv, Complete
  <1>2. ASSUME UNCHANGED <<ref, obs, pending>>, task'.pc = "idle" PROVE RefInv'
    BY <1>2 DEF RefInv, Complete
  <1>3. CASE WorldStep
    BY <1>1, <1>3 DEF WorldStep, NextDay, Deliver, Post, Revise, Promote, kis, world
  <1>4. CASE Daily \/ GapReplay
    <2>1. PICK d \in Day, from \in 0 .. NumDays : Start(d, from)
      BY <1>4, Starts
    <2>2. /\ core' = d /\ UNCHANGED <<ref, obs, pending>>
          /\ task' = [Idle EXCEPT !.pc = "reference", !.day = d, !.from = from,
                                  !.sessions = Sessions(d)]
      BY <2>1 DEF Start, kis
    <2>3. task'.pc = "reference" /\ task'.day = d /\ task'.sessions = Sessions(d)
      BY <2>2 DEF Idle
    <2>4. ref.through + 1 .. d \subseteq Sessions(d)
      BY WindowCovers
    <2> QED BY <2>2, <2>3, <2>4 DEF RefInv, Complete
  <1>5. CASE LeaveStep \/ Finish
    BY <1>2, <1>5 DEF LeaveStep, Stop, Refuse, Incomplete, Finish, Leave, Idle, world, kis
  <1>6. ASSUME NEW r \in Reference, NEW m \in Nat, task.pc = "reference", Begin(r, m), Known(r),
               UNCHANGED <<core, ref, obs>>, \A p \in pending' : Known(p.next)
        PROVE  RefInv'
    <2>1. /\ task'.pc = "flows" /\ task'.next = r
          /\ task'.day = task.day /\ task'.sessions = task.sessions
      BY <1>6, BeginOK
    <2>2. plans' \subseteq AllPlans(r, task.sessions)
      BY <1>6 DEF Begin, Remaining
    <2> QED BY <1>6, <2>1, <2>2 DEF RefInv, Complete
  <1>7. CASE Prepare
    <2>1. /\ task.pc = "reference" /\ Preparable /\ Begin(Prepared, listings + 1)
          /\ pending' = pending \cup {[of |-> [sessions |-> task.sessions, ref |-> ref],
                                       manifest |-> listings + 1, next |-> Prepared]}
          /\ UNCHANGED <<core, ref, obs>>
      BY <1>7 DEF Prepare
    <2>2. Prepared \in Reference /\ listings + 1 \in Nat
      BY <2>1, PreparedOK DEF TypeInv
    <2>3. Known(Prepared)
      BY <2>1, PreparedKnown
    <2>4. \A p \in pending' : Known(p.next)
      BY <2>1, <2>3 DEF RefInv
    <2> QED BY <1>6, <2>1, <2>2, <2>3, <2>4
  <1>8. CASE Resume
    <2>1. task.pc = "reference" /\ UNCHANGED <<core, ref, obs, pending>>
      BY <1>8 DEF Resume, kis
    <2>2. PICK p \in Capture : Begin(p.next, p.manifest)
      BY <1>8 DEF Resume
    <2>3. p \in pending /\ p.next \in Reference /\ p.manifest \in Nat
      BY DEF Capture, TypeInv, CaptureOK
    <2>4. Known(p.next) /\ \A q \in pending' : Known(q.next)
      BY <2>1, <2>3 DEF RefInv
    <2> QED BY <1>6, <2>1, <2>2, <2>3, <2>4
  <1>9. ASSUME FlowStep, UNCHANGED obs, plans' \subseteq plans
        PROVE  RefInv'
    <2>1. /\ UNCHANGED <<core, ref, pending>>
          /\ task.pc \in {"flows", "mark"} /\ task'.pc \in {"flows", "mark"}
          /\ task'.day = task.day /\ task'.sessions = task.sessions /\ task'.next = task.next
      BY <1>9, FlowKeeps DEF tail
    <2> QED BY <1>9, <2>1 DEF RefInv, Complete
  <1>10. CASE FlowStep
    <2>1. CASE (\E p \in Ahead : Read(p) \/ ReadFails(p)) \/ Failed \/ Mark
      <3>1. UNCHANGED obs /\ plans' \subseteq plans
        BY <2>1 DEF Read, ReadFails, Failed, Mark, Drop, kis
      <3> QED BY <1>9, <1>10, <3>1
    <2>2. CASE Publish
      <3>1. /\ UNCHANGED <<core, ref, pending>>
            /\ task.pc \in {"flows", "mark"} /\ task'.pc \in {"flows", "mark"}
            /\ task'.day = task.day /\ task'.sessions = task.sessions /\ task'.next = task.next
        BY <1>10, FlowKeeps DEF tail
      <3>2. Complete(obs', ref) /\ plans' = plans
        BY <2>2, PublishComplete DEF Publish
      <3> QED BY <3>1, <3>2 DEF RefInv
    <2> QED BY <1>10, <2>1, <2>2 DEF FlowStep
  <1>11. CASE Certify
    <2>1. /\ task.pc = "flows" /\ ref' = task.next /\ task' = [task EXCEPT !.pc = "list"]
          /\ UNCHANGED <<core, obs, pending>>
      BY <1>11 DEF Certify
    <2>2. task'.pc = "list" /\ task'.day = task.day
      BY <2>1 DEF TypeInv, Program
    <2>3. Complete(obs, task.next) /\ Known(task.next)
      BY <1>11, <2>1, CertifyComplete DEF RefInv
    <2> QED BY <2>1, <2>2, <2>3 DEF RefInv
  <1>12. CASE GoldStep
    <2>1. /\ UNCHANGED <<core, ref, obs, pending>> /\ task'.pc = "gold"
          /\ task.pc \in {"list", "gold"} /\ task'.day = task.day
      BY <1>12 DEF GoldStep, ListFactors, RunFactor, kis, TypeInv, Program
    <2> QED BY <2>1 DEF RefInv, Complete
  <1>13. CASE UNCHANGED vars
    BY <1>1, <1>13 DEF vars, kis
  <1> QED BY <1>3, <1>4, <1>5, <1>7, <1>8, <1>10, <1>11, <1>12, <1>13, StepKinds
          DEF PrepareStep

LEMMA RefInit == Init => RefInv
  <1> SUFFICES ASSUME Init PROVE RefInv
    OBVIOUS
  <1>1. /\ ref = [through |-> Seed, closed |-> {a \in Asset : Gone[a] \in 1 .. Seed}]
        /\ obs = [k \in Key |-> IF k \in KeysOf(ref, 1 .. Seed) THEN <<0>> ELSE <<>>]
        /\ pending = {} /\ task.pc = "idle"
    BY DEF Init, Idle
  <1>2. ref \in Reference /\ ref.through = Seed /\ Seed \in Day /\ 1 .. Seed \in SUBSET Day
    BY <1>1, FollowupAssumption DEF Reference, Day
  <1>3. Known(ref)
    BY <1>1, FollowupAssumption DEF Known, Day
  <1>4. Complete(obs, ref)
    <2> SUFFICES ASSUME NEW k \in Key, k[2] \in Seed .. Seed
                 PROVE  obs[k] # <<>> <=> Wanted(k)
      BY <1>2 DEF Complete
    <2>1. k[2] = Seed /\ Seed \in 1 .. Seed /\ k[2] <= ref.through
      BY <1>2, FollowupAssumption DEF Day
    <2>2. k \in KeysOf(ref, 1 .. Seed) <=> Wanted(k)
      BY <1>2, <1>3, <2>1, KnownAsks
    <2>3. <<0>> # <<>>
      OBVIOUS
    <2> QED BY <1>1, <2>2, <2>3
  <1> QED BY <1>1, <1>3, <1>4 DEF RefInv

(* Up to the reference checkpoint every key that the listings and the NXT  *)
(* pages ask for has a certified observation and no other key has one, for *)
(* any listings, NXT entries, revisions, failed reads, stops, resumed      *)
(* windows and gap replays (kis_provider_daily.py verify_collection).      *)
THEOREM ReferenceKept == Spec => []ReferenceCovered
  <1>1. Init => TypeInv /\ TailInv /\ ReadInv /\ MarkInv /\ RefInv
    BY TailInit, FetchedInit, RefInit
  <1>2. TypeInv /\ TailInv /\ ReadInv /\ MarkInv /\ RefInv /\ [Next]_vars
          => (TypeInv /\ TailInv /\ ReadInv /\ MarkInv /\ RefInv)'
    BY TypeTailNext, FetchedNext, RefNext
  <1>3. RefInv => ReferenceCovered
    <2> SUFFICES ASSUME Complete(obs, ref)
                 PROVE  \A k \in Key : k \in Stored(Seed .. ref.through)
                            <=> k[2] \in Seed .. ref.through /\ Wanted(k)
      BY DEF RefInv, ReferenceCovered, Wanted, OnVenue, Stored
    <2> QED BY DEF Complete, Stored
  <1> QED BY <1>1, <1>2, <1>3, PTL DEF Spec

-----------------------------------------------------------------------------
(* The types of TypeOK, in three parts: what the world has shown, how far  *)
(* prices, reference and factors reach, and the partitions.                *)
WorldInv ==
    /\ core <= today
    /\ delivered \subseteq 1 .. today /\ posted \subseteq 1 .. today
    /\ revisions \in 0 .. MaxRevisions /\ stops \in 0 .. MaxStops

ReachInv ==
    /\ ref.through <= core /\ task.day <= core
    /\ task.pc # "idle" => task.from >= 1
    /\ gold \in [Factor -> SUBSET (1 .. core)]
    /\ finished \in [Day -> (SUBSET Factor) \cup {Unfinished}]

PartitionInv ==
    /\ \A p \in pending : p.of \in Identity /\ p.manifest \in 1 .. listings
    /\ \A c \in checks : c.manifest \in 1 .. listings /\ c.plan \in Plan
    /\ task.pc \in {"flows", "mark"} => task.manifest \in 1 .. listings
    /\ plans \subseteq Plan /\ DOMAIN got \subseteq plans

(* A task starts at the session after the last priced one, at the last     *)
(* priced one again, or over the sessions of a gap replay.                 *)
LEMMA StartsWithin ==
    ASSUME TypeInv, WorldInv, Daily \/ GapReplay
    PROVE  \E d \in Day, from \in 0 .. NumDays :
              Start(d, from) /\ core <= d /\ d <= today /\ 1 <= from
  <1>1. today \in 1 .. NumDays /\ core \in 1 .. NumDays /\ Seed \in 1 .. NumDays
        /\ NumDays \in Nat /\ core <= today
    BY FollowupAssumption DEF TypeInv, WorldInv, Day
  <1>2. CASE core < today /\ Start(core + 1, core + 1)
    <2>1. core + 1 \in Day /\ core + 1 \in 0 .. NumDays /\ core + 1 <= today /\ 1 <= core + 1
          /\ core <= core + 1
      BY <1>1, <1>2 DEF Day
    <2> QED BY <1>2, <2>1
  <1>3. CASE Start(core, core)
    <2>1. core \in Day /\ core \in 0 .. NumDays /\ 1 <= core /\ core <= core
      BY <1>1 DEF Day
    <2> QED BY <1>1, <1>3, <2>1
  <1>4. CASE GapReplay
    <2>1. PICK to \in core + 2 .. today, from \in Seed + 1 .. core + 1 : Start(to, from)
      BY <1>4 DEF GapReplay
    <2>2. to \in Day /\ from \in 0 .. NumDays /\ core <= to /\ to <= today /\ 1 <= from
      BY <1>1, <2>1 DEF Day
    <2> QED BY <2>1, <2>2
  <1> QED BY <1>2, <1>3, <1>4 DEF Daily

LEMMA WorldNext ==
    ASSUME TypeInv, WorldInv, [Next]_vars
    PROVE  WorldInv'
  <1>0. /\ today \in Int /\ core \in Int /\ revisions \in Int /\ stops \in Int
        /\ MaxRevisions \in Int /\ MaxStops \in Int
    BY FollowupAssumption DEF TypeInv, WorldInv, Day
  <1>1. ASSUME UNCHANGED <<world, core>>, stops' \in {stops, stops + 1},
               stops' # stops => stops < MaxStops
        PROVE  WorldInv'
    BY <1>0, <1>1 DEF WorldInv, world
  <1>2. CASE NextDay
    BY <1>0, <1>2 DEF NextDay, WorldInv
  <1>3. CASE \E d \in Day : Deliver(d) \/ Post(d)
    BY <1>3 DEF Deliver, Post, WorldInv
  <1>4. CASE \E a \in Asset, d \in Day : Revise(a, d)
    BY <1>0, <1>4 DEF Revise, WorldInv
  <1>5. CASE Daily \/ GapReplay
    <2>1. PICK d \in Day, from \in 0 .. NumDays : Start(d, from) /\ d <= today
      BY <1>5, StartsWithin
    <2> QED BY <2>1 DEF Start, world, WorldInv
  <1>6. CASE Promote \/ Refuse \/ Incomplete \/ PrepareStep \/ Certify \/ GoldStep \/ Finish
    <2>1. UNCHANGED <<world, core, stops>>
      BY <1>6 DEF Promote, Refuse, Incomplete, PrepareStep, Prepare, Resume, Certify, GoldStep,
                  ListFactors, RunFactor, Finish
    <2> QED BY <1>1, <2>1
  <1>7. CASE Stop \/ FlowStep
    <2>1. /\ UNCHANGED <<world, core>>
          /\ UNCHANGED stops \/ (stops < MaxStops /\ stops' = stops + 1)
      BY <1>7 DEF Stop, FlowStep, Read, ReadFails, Failed, Publish, Mark
    <2> QED BY <1>1, <2>1
  <1>8. CASE UNCHANGED vars
    BY <1>1, <1>8 DEF vars
  <1> QED BY <1>2, <1>3, <1>4, <1>5, <1>6, <1>7, <1>8, StepKinds DEF WorldStep, LeaveStep

LEMMA ReachNext ==
    ASSUME TypeInv, TailInv, WorldInv, ReachInv, [Next]_vars
    PROVE  ReachInv'
  <1>0. core \in Day /\ ref.through \in Int /\ task.day \in Int /\ task.from \in Int
        /\ core \in Int /\ 1 <= core
    BY FollowupAssumption DEF TypeInv, Reference, Program, Day
  <1>1. ASSUME UNCHANGED <<core, ref, gold, finished>>, task'.day = task.day,
               task'.from = task.from, task'.pc # "idle" => task.pc # "idle"
        PROVE  ReachInv'
    BY <1>1 DEF ReachInv
  <1>2. CASE WorldStep
    BY <1>1, <1>2, WorldKeeps DEF tail
  <1>3. CASE Daily \/ GapReplay
    <2>1. PICK d \in Day, from \in 0 .. NumDays : Start(d, from) /\ core <= d /\ 1 <= from
      BY <1>3, StartsWithin
    <2>2. /\ core' = d /\ UNCHANGED <<ref, gold, finished>>
          /\ task'.day = d /\ task'.from = from
      BY <2>1 DEF Start, kis, factors, Idle
    <2>3. d \in Int /\ ref.through <= d
      BY <1>0, <2>1 DEF ReachInv, Day
    <2>4. gold \in [Factor -> SUBSET (1 .. d)]
      BY <1>0, <2>1, <2>3 DEF ReachInv
    <2> QED BY <2>1, <2>2, <2>3, <2>4 DEF ReachInv
  <1>4. CASE LeaveStep
    <2>1. UNCHANGED <<tail, today, approved>> /\ task' = Idle
      BY <1>4, LeaveKeeps
    <2>2. task'.pc = "idle" /\ task'.day = 0
      BY <2>1 DEF Idle
    <2> QED BY <1>0, <2>1, <2>2 DEF ReachInv, tail
  <1>5. CASE PrepareStep
    <2>1. task.pc = "reference" /\ UNCHANGED <<core, ref, gold, finished>>
      BY <1>5 DEF PrepareStep, Prepare, Resume, kis, factors
    <2>2. task'.day = task.day /\ task'.from = task.from
      BY <1>5 DEF PrepareStep, Prepare, Resume, Begin, TypeInv, Program
    <2> QED BY <1>1, <2>1, <2>2
  <1>6. CASE FlowStep
    <2>1. /\ UNCHANGED <<core, ref, gold, finished>> /\ task'.day = task.day
          /\ task.pc \in {"flows", "mark"}
      BY <1>6, FlowKeeps DEF tail
    <2>2. task'.from = task.from
      BY <1>6 DEF FlowStep, Read, ReadFails, Failed, Publish, Mark, TypeInv, Program
    <2> QED BY <1>1, <2>1, <2>2
  <1>7. CASE Certify
    <2>1. /\ task.pc = "flows" /\ ref' = task.next /\ task' = [task EXCEPT !.pc = "list"]
          /\ UNCHANGED <<core, gold, finished>>
      BY <1>7 DEF Certify, factors
    <2>2. /\ task'.day = task.day /\ task'.from = task.from /\ ref'.through = task.day
      BY <2>1 DEF TypeInv, TailInv, Program
    <2> QED BY <2>1, <2>2 DEF ReachInv
  <1>8. CASE ListFactors
    <2>1. /\ task.pc = "list" /\ task'.day = task.day /\ task'.from = task.from
          /\ UNCHANGED <<core, ref, gold, finished>>
      BY <1>8 DEF ListFactors, kis, factors, TypeInv, Program
    <2> QED BY <1>1, <2>1
  <1>9. CASE \E f \in Factor : RunFactor(f)
    <2>1. PICK f \in Factor : RunFactor(f)
      BY <1>9
    <2>2. /\ task.pc = "gold" /\ gold' = [gold EXCEPT ![f] = @ \cup GoldDays]
          /\ task'.day = task.day /\ task'.from = task.from
          /\ UNCHANGED <<core, ref, finished>>
      BY <2>1 DEF RunFactor, kis, TypeInv, Program
    <2>3. GoldDays \subseteq 1 .. core
      BY <1>0, <2>2 DEF GoldDays, ReachInv
    <2>4. gold' \in [Factor -> SUBSET (1 .. core)]
      BY <2>2, <2>3 DEF ReachInv
    <2> QED BY <2>2, <2>4 DEF ReachInv
  <1>10. CASE Finish
    <2>1. /\ finished' = [d \in Day |-> IF d \in task.from .. task.day THEN task.list
                                        ELSE finished[d]]
          /\ task' = Idle /\ UNCHANGED <<core, ref, gold>>
      BY <1>10 DEF Finish, Leave, kis, factors
    <2>2. task.list \in SUBSET Factor /\ task'.pc = "idle" /\ task'.day = 0
      BY <2>1 DEF TypeInv, Program, Idle
    <2>3. finished' \in [Day -> (SUBSET Factor) \cup {Unfinished}]
      BY <2>1, <2>2 DEF ReachInv
    <2> QED BY <1>0, <2>1, <2>2, <2>3 DEF ReachInv
  <1>11. CASE UNCHANGED vars
    BY <1>1, <1>11 DEF vars, kis, factors
  <1> QED BY <1>2, <1>3, <1>4, <1>5, <1>6, <1>7, <1>8, <1>9, <1>10, <1>11, StepKinds
          DEF GoldStep

LEMMA PlanTyped ==
    ASSUME NEW r, NEW S \in SUBSET Day
    PROVE  AllPlans(r, S) \subseteq Plan
  <1> SUFFICES ASSUME NEW p \in AllPlans(r, S) PROVE p \in Plan
    OBVIOUS
  <1>1. PICK a \in Asset : p \in PlansOf(r, S, a)
    BY DEF AllPlans
  <1>2. PICK v \in Venue, D \in SUBSET Day : p = [asset |-> a, venue |-> v, days |-> D]
    BY <1>1 DEF PlansOf, Entries, Expected, Venue
  <1> QED BY <1>2 DEF Plan

LEMMA PartitionNext ==
    ASSUME TypeInv, TailInv, MarkInv, PartitionInv, [Next]_vars
    PROVE  PartitionInv'
  <1>0. listings \in Nat
    BY DEF TypeInv
  <1>1. ASSUME UNCHANGED <<pending, listings, checks, task, plans, got>> PROVE PartitionInv'
    BY <1>1 DEF PartitionInv
  <1>2. CASE WorldStep
    BY <1>1, <1>2 DEF WorldStep, NextDay, Deliver, Post, Revise, Promote, kis
  <1>3. CASE Daily \/ GapReplay
    <2>1. PICK d \in Day, from \in 0 .. NumDays : Start(d, from)
      BY <1>3, Starts
    <2>2. task'.pc = "reference"
      BY <2>1, StartType
    <2> QED BY <2>1, <2>2 DEF Start, kis, PartitionInv
  <1>4. CASE LeaveStep \/ Finish
    <2>1. /\ task' = Idle /\ plans' = {} /\ got' = <<>>
          /\ UNCHANGED <<pending, listings, checks>>
      BY <1>4 DEF LeaveStep, Stop, Refuse, Incomplete, Finish, Leave, kis
    <2>2. task'.pc = "idle" /\ DOMAIN got' = {}
      BY <2>1 DEF Idle
    <2> QED BY <2>1, <2>2 DEF PartitionInv
  <1>5. ASSUME NEW r \in Reference, NEW m \in 1 .. listings', Begin(r, m)
        PROVE  /\ task'.manifest \in 1 .. listings'
               /\ plans' \subseteq Plan /\ DOMAIN got' \subseteq plans'
    <2>1. task'.manifest = m /\ got' = <<>> /\ plans' \subseteq AllPlans(r, task.sessions)
      BY <1>5 DEF Begin, Remaining, TypeInv, Program
    <2>2. task.sessions \in SUBSET Day
      BY DEF TypeInv, Program
    <2>3. AllPlans(r, task.sessions) \subseteq Plan
      BY <2>2, PlanTyped
    <2> QED BY <2>1, <2>3
  <1>6. CASE Prepare
    <2>1. /\ task.pc = "reference" /\ Preparable /\ Begin(Prepared, listings + 1)
          /\ listings' = listings + 1 /\ UNCHANGED checks
          /\ pending' = pending \cup {[of |-> [sessions |-> task.sessions, ref |-> ref],
                                       manifest |-> listings + 1, next |-> Prepared]}
      BY <1>6 DEF Prepare
    <2>2. Prepared \in Reference /\ listings + 1 \in 1 .. listings'
      BY <1>0, <2>1, PreparedOK
    <2>3. [sessions |-> task.sessions, ref |-> ref] \in Identity
      BY DEF Identity, TypeInv, Program
    <2>4. 1 .. listings \subseteq 1 .. listings'
      BY <1>0, <2>1
    <2>5. \A p \in pending' : p.of \in Identity /\ p.manifest \in 1 .. listings'
      BY <2>1, <2>2, <2>3, <2>4 DEF PartitionInv
    <2>6. \A c \in checks' : c.manifest \in 1 .. listings' /\ c.plan \in Plan
      BY <2>1, <2>4 DEF PartitionInv
    <2>7. /\ task'.manifest \in 1 .. listings'
          /\ plans' \subseteq Plan /\ DOMAIN got' \subseteq plans'
      BY <1>5, <2>1, <2>2
    <2> QED BY <2>5, <2>6, <2>7 DEF PartitionInv
  <1>7. CASE Resume
    <2>1. task.pc = "reference" /\ UNCHANGED <<pending, listings, checks>>
      BY <1>7 DEF Resume, kis
    <2>2. PICK p \in Capture : Begin(p.next, p.manifest)
      BY <1>7 DEF Resume
    <2>3. p \in pending /\ p.next \in Reference /\ p.manifest \in 1 .. listings'
      BY <2>1 DEF Capture, TypeInv, CaptureOK, PartitionInv
    <2>4. /\ task'.manifest \in 1 .. listings'
          /\ plans' \subseteq Plan /\ DOMAIN got' \subseteq plans'
      BY <1>5, <2>2, <2>3
    <2> QED BY <2>1, <2>4 DEF PartitionInv
  <1>8. CASE \E p \in Ahead : Read(p) \/ ReadFails(p)
    <2>1. PICK p \in Ahead : Read(p) \/ ReadFails(p)
      BY <1>8
    <2>2. /\ UNCHANGED <<pending, listings, checks, task, plans>>
          /\ DOMAIN got' = DOMAIN got \cup {p}
      BY <2>1 DEF Read, ReadFails, Obtain, kis
    <2>3. p \in plans
      BY DEF Ahead
    <2> QED BY <2>2, <2>3 DEF PartitionInv
  <1>9. ASSUME Head1 \in DOMAIN got, task.pc \in {"flows", "mark"}, Drop,
               UNCHANGED <<pending, listings>>, task'.manifest = task.manifest,
               MarkPartition \/ UNCHANGED checks
        PROVE  PartitionInv'
    <2>1. Head1 \in Plan /\ task.manifest \in 1 .. listings
      BY <1>9 DEF PartitionInv
    <2>2. /\ plans' = plans \ {Head1} /\ DOMAIN got' = DOMAIN got \ {Head1}
      BY <1>9 DEF Drop
    <2>3. \A c \in checks' : c.manifest \in 1 .. listings /\ c.plan \in Plan
      BY <1>9, <2>1 DEF MarkPartition, PartitionInv
    <2> QED BY <1>9, <2>1, <2>2, <2>3 DEF PartitionInv
  <1>10. CASE Failed
    <2>1. /\ task.pc = "flows" /\ Head1 \in DOMAIN got /\ Drop
          /\ UNCHANGED <<pending, listings, checks>>
      BY <1>10 DEF Failed, kis
    <2>2. task'.manifest = task.manifest
      BY <1>10 DEF Failed, TypeInv, Program
    <2> QED BY <1>9, <2>1, <2>2
  <1>11. CASE Mark
    <2>1. /\ task.pc = "mark" /\ Drop /\ MarkPartition
          /\ UNCHANGED <<pending, listings>>
      BY <1>11 DEF Mark
    <2>2. task'.manifest = task.manifest /\ Head1 \in DOMAIN got
      BY <1>11, <2>1 DEF Mark, MarkInv, TypeInv, Program
    <2> QED BY <1>9, <2>1, <2>2
  <1>12. CASE Publish
    <2>1. task.pc = "flows" /\ UNCHANGED <<pending, listings, checks, plans, got>>
      BY <1>12 DEF Publish
    <2>2. task'.manifest = task.manifest
      BY <1>12 DEF Publish, TypeInv, Program
    <2> QED BY <2>1, <2>2 DEF PartitionInv
  <1>13. CASE Certify \/ GoldStep
    <2>1. UNCHANGED <<pending, listings, checks, plans, got>>
      BY <1>13 DEF Certify, GoldStep, ListFactors, RunFactor, kis
    <2>2. task'.pc \notin {"flows", "mark"}
      BY <1>13 DEF Certify, GoldStep, ListFactors, RunFactor, TypeInv, Program
    <2> QED BY <2>1, <2>2 DEF PartitionInv
  <1>14. CASE UNCHANGED vars
    BY <1>1, <1>14 DEF vars, kis
  <1> QED BY <1>2, <1>3, <1>4, <1>6, <1>7, <1>8, <1>10, <1>11, <1>12, <1>13, <1>14, StepKinds
          DEF PrepareStep, FlowStep

LEMMA TypesInit == Init => WorldInv /\ ReachInv /\ PartitionInv
  <1> SUFFICES ASSUME Init PROVE WorldInv /\ ReachInv /\ PartitionInv
    OBVIOUS
  <1>1. Seed \in Int /\ 1 <= Seed /\ core = Seed /\ today = Seed
    BY FollowupAssumption DEF Init, Day
  <1>2. WorldInv
    BY <1>1, FollowupAssumption DEF Init, WorldInv
  <1>3. task.pc = "idle" /\ task.day = 0 /\ ref.through = Seed
    BY DEF Init, Idle
  <1>4. gold \in [Factor -> SUBSET (1 .. core)]
    BY DEF Init
  <1>5. finished \in [Day -> (SUBSET Factor) \cup {Unfinished}]
    BY DEF Init
  <1>6. ReachInv
    BY <1>1, <1>3, <1>4, <1>5 DEF ReachInv
  <1>7. PartitionInv
    BY <1>3 DEF Init, PartitionInv
  <1> QED BY <1>2, <1>6, <1>7

(* The types of the tail, for any number of sessions, assets, factors,     *)
(* revisions and stops: the reference and the factors never reach beyond   *)
(* the certified prices, and a partition is marked under a published       *)
(* manifest (kis_provider_daily.py, silver/kis_flows.py).                  *)
THEOREM Typed == Spec => []TypeOK
  <1> DEFINE Inv == /\ TypeInv /\ TailInv /\ ReadInv /\ MarkInv
                    /\ WorldInv /\ ReachInv /\ PartitionInv
  <1>1. Init => Inv
    BY TailInit, FetchedInit, TypesInit
  <1>2. Inv /\ [Next]_vars => Inv'
    BY TypeTailNext, FetchedNext, WorldNext, ReachNext, PartitionNext
  <1>3. Inv => TypeOK
    <2> SUFFICES ASSUME Inv PROVE TypeOK
      OBVIOUS
    <2>1. task.day \in 0 .. core
      BY FollowupAssumption DEF TypeInv, ReachInv, Program, Day
    <2>2. task.pc \in PC /\ task.sessions \subseteq Day
      BY DEF TypeInv, Program
    <2>3. \A p \in pending : p.next \in Reference
      BY DEF TypeInv, CaptureOK
    <2>4. /\ \A p \in pending : p.of \in Identity /\ p.manifest \in 1 .. listings
          /\ \A c \in checks : c.manifest \in 1 .. listings /\ c.plan \in Plan
          /\ DOMAIN got \subseteq plans
      BY DEF PartitionInv
    <2>5. flow \in [Asset -> [Day -> Value]] /\ obs \in [Key -> Seq(Value)]
      BY DEF ReadInv
    <2>6. /\ ref.through <= core
          /\ gold \in [Factor -> SUBSET (1 .. core)]
          /\ finished \in [Day -> (SUBSET Factor) \cup {Unfinished}]
      BY DEF ReachInv
    <2>7. /\ today \in Day /\ core \in Day /\ ref \in Reference /\ approved \subseteq Factor
      BY DEF TypeInv
    <2> QED BY <2>1, <2>2, <2>3, <2>4, <2>5, <2>6, <2>7 DEF TypeOK, WorldInv, PC
  <1> QED BY <1>1, <1>2, <1>3, PTL DEF Spec
=============================================================================
