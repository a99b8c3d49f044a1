---------------------- MODULE SnapshotPublicationProofs ----------------------
(* Proofs about SnapshotPublication, for every number of tasks and         *)
(* components, with tasks that overlap and sessions that die.              *)
EXTENDS SnapshotPublicationRefinement, TLAPS

(* What the pool of a task works on: files of a snapshot, and component    *)
(* manifests only while it downloads.                                      *)
Sound(p) ==
    \A f \in p.todo :
      /\ f.kind = "leaf" \/ f \in Fixed
      /\ p.pc = "fetch" => f.of \in Component

TypeInv == TypeOK /\ \A t \in Task : Sound(task[t])

TaskOK == task \in [Task -> Program] /\ \A t \in Task : Sound(task[t])

PC == {"idle", "list", "fetch", "pointer", "overlay", "component", "paths",
       "head", "leaves", "checkpoint", "build", "entries", "upload", "switch"}

USE DEF PC

-----------------------------------------------------------------------------
(* The operators of the model.                                             *)

(* The constants of the module that records are made of. *)
LEMMA Versions == NoVersion \in Version /\ NoManifests \in Manifests
  BY PublicationConstants DEF NoVersion, Version, NoManifests, Manifests

(* The files at fixed paths are files of no leaf kind. *)
LEMMA FixedFiles ==
    /\ Fixed \subseteq File
    /\ \A f \in Fixed : f.kind # "leaf"
  BY PublicationConstants
  DEF Fixed, File, ActionFile, ComponentFile, Component

(* A component's manifest is at a fixed path and knows its component. *)
LEMMA ComponentFiles ==
    \A c \in Component : ComponentFile(c) \in Fixed /\ ComponentFile(c).of = c
  BY DEF Fixed, ComponentFile

(* The leaves of a component manifest are files. *)
LEMMA LeafFiles ==
    ASSUME NEW c \in Component, NEW v \in Version
    PROVE  /\ LeavesOf(c, v) \subseteq File
           /\ \A f \in LeavesOf(c, v) : f.kind = "leaf"
  BY PublicationConstants DEF LeavesOf, Leaf, File, Version, Component

(* The files of a snapshot are leaves or at fixed paths. *)
LEMMA SnapshotFiles ==
    ASSUME NEW v \in Version
    PROVE  /\ FilesOf(v) \subseteq File
           /\ \A f \in FilesOf(v) : f.kind = "leaf" \/ f \in Fixed
  BY FixedFiles, LeafFiles DEF FilesOf

(* The empty program is sound. *)
LEMMA IdleOK == Idle \in Program /\ Sound(Idle)
  <1>1. 1 \in Component
    BY PublicationConstants DEF Component
  <1>2. Idle \in Program
    BY <1>1, Versions, PublicationConstants DEF Idle, Program
  <1> QED BY <1>2 DEF Idle, Sound

-----------------------------------------------------------------------------
(* Steps that the actions share.                                           *)

(* A task gets a sound program. *)
LEMMA NewProgram ==
    ASSUME TypeInv, NEW t \in Task, NEW p \in Program, Sound(p),
           task' = [task EXCEPT ![t] = p]
    PROVE  TaskOK'
  BY DEF TypeInv, TypeOK, TaskOK

(* A task goes on to a place that is no download. *)
LEMMA GoOK ==
    ASSUME TypeInv, NEW t \in Task, NEW pc \in PC \ {"fetch"}, Go(t, pc)
    PROVE  TaskOK'
  <1> DEFINE p == [task[t] EXCEPT !.pc = pc]
  <1>1. p \in Program
    BY DEF TypeInv, TypeOK, Program
  <1>2. Sound(p)
    BY DEF TypeInv, TypeOK, Program, Sound
  <1>3. task' = [task EXCEPT ![t] = p]
    BY DEF Go
  <1> HIDE DEF p
  <1> QED BY <1>1, <1>2, <1>3, NewProgram

(* The pool of a task finishes a file. *)
LEMMA FinishOK ==
    ASSUME TypeInv, NEW t \in Task, NEW f, Finish(t, f)
    PROVE  TaskOK'
  <1> DEFINE p == [task[t] EXCEPT !.todo = @ \ {f}]
  <1>1. p \in Program
    BY DEF TypeInv, TypeOK, Program
  <1>2. Sound(p)
    BY DEF TypeInv, TypeOK, Program, Sound
  <1>3. task' = [task EXCEPT ![t] = p]
    BY DEF Finish
  <1> HIDE DEF p
  <1> QED BY <1>1, <1>2, <1>3, NewProgram

(* A task leaves. *)
LEMMA ExitOK ==
    ASSUME TypeInv, NEW t \in Task, Exit(t)
    PROVE  TaskOK' /\ (epochLock \in Task \cup {NoTask})'
  <1>1. TaskOK'
    BY IdleOK, NewProgram DEF Exit
  <1> QED BY <1>1 DEF Exit, Owns, TypeInv, TypeOK

(* A task goes on to its next component. *)
LEMMA AdvancedOK ==
    ASSUME TypeInv, NEW t \in Task, Advanced(t), task[t].pc # "fetch"
    PROVE  TaskOK'
  <1> DEFINE c == IF task[t].comp = Components THEN 1 ELSE task[t].comp + 1
             pc == IF task[t].comp = Components THEN "build" ELSE "component"
             p == [task[t] EXCEPT !.etag = NoVersion, !.comp = c, !.pc = pc]
  <1>1. c \in Component
    BY PublicationConstants DEF TypeInv, TypeOK, Program, Component
  <1>2. pc \in PC \ {"fetch"}
    OBVIOUS
  <1>3. task' = [task EXCEPT ![t] = p]
    BY DEF Advanced
  <1> HIDE DEF c, pc
  <1>4. p \in Program
    BY <1>1, <1>2, Versions DEF TypeInv, TypeOK, Program
  <1>5. Sound(p)
    BY <1>1, <1>2 DEF TypeInv, TypeOK, Program, Sound
  <1> HIDE DEF p
  <1> QED BY <1>3, <1>4, <1>5, NewProgram

(* What a task wants is a version. *)
LEMMA WantedOK ==
    ASSUME TypeInv, NEW t \in Task
    PROVE  Wanted(t) \in Version
  BY DEF TypeInv, TypeOK, Program, Disk, Wanted, Version

(* The file a task is at is at a fixed path. *)
LEMMA CurrentOK ==
    ASSUME TypeInv, NEW t \in Task
    PROVE  /\ task[t].comp \in Component
           /\ Current(t) \in Fixed
           /\ disk.body[Current(t)] \in Version
  <1>1. task[t].comp \in Component
    BY DEF TypeInv, TypeOK, Program
  <1>2. Current(t) \in Fixed
    BY <1>1, ComponentFiles DEF Current
  <1> QED BY <1>1, <1>2 DEF TypeInv, TypeOK, Disk

(* A body is written to the disk. *)
LEMMA DiskOK ==
    ASSUME TypeInv, NEW f, NEW v \in Version,
           disk' = [disk EXCEPT !.body[f] = v]
    PROVE  (disk \in Disk)'
  BY DEF TypeInv, TypeOK, Disk

(* The body a PUT reads is a version. *)
LEMMA DiskBodyOK ==
    ASSUME TypeInv, NEW t \in Task, NEW f \in task[t].todo
    PROVE  f \in File /\ DiskBody(f) \in Version
  <1>1. f \in File /\ (f.kind = "leaf" \/ f \in Fixed)
    BY DEF TypeInv, TypeOK, Program, Sound
  <1> QED BY <1>1, Versions DEF DiskBody, TypeInv, TypeOK, Disk

-----------------------------------------------------------------------------
(* Type correctness.                                                       *)

(* A start gives the task an empty program. *)
LEMMA StartedOK ==
    ASSUME TypeInv, NEW t \in Task, NEW kind, NEW end \in 0..LastDay,
           NEW pc \in PC \ {"fetch"}, Started(t, kind, end, pc)
    PROVE  TaskOK' /\ (overlapped \in BOOLEAN)'
  <1> DEFINE p == [Idle EXCEPT !.pc = pc, !.kind = kind, !.end = end]
  <1>1. kind \in {"publish", "inherit", "restore", "warm"}
    BY PublicationConstants DEF Started
  <1>2. p \in Program /\ p.todo = {}
    BY <1>1, IdleOK DEF Idle, Program
  <1>3. Sound(p)
    BY <1>2 DEF Sound
  <1>4. task' = [task EXCEPT ![t] = p]
    BY DEF Started
  <1>5. (overlapped \in BOOLEAN)'
    BY DEF Started
  <1> HIDE DEF p
  <1> QED BY <1>2, <1>3, <1>4, <1>5, NewProgram

(* Preparing, restoring and warming keep the types. *)
LEMMA TypeStart ==
    ASSUME TypeInv, NEW t \in Task,
           \/ \E end \in Day : (\E kind \in Kinds : Prepare(t, kind, end)) \/ Restore(t, end)
           \/ Warm(t)
    PROVE  TypeInv'
  <1>1. ASSUME NEW end \in Day, NEW kind \in Kinds, Prepare(t, kind, end)
        PROVE  TypeInv'
    <2>1. TaskOK' /\ (overlapped \in BOOLEAN)'
      BY <1>1, StartedOK DEF Prepare, Day
    <2> QED BY <1>1, <2>1 DEF Prepare, Acquire, Started, TypeInv, TypeOK, TaskOK, s3
  <1>2. ASSUME NEW end \in Day, Restore(t, end)
        PROVE  TypeInv'
    <2>1. TaskOK' /\ (overlapped \in BOOLEAN)'
      BY <1>2, StartedOK DEF Restore, Day
    <2> QED BY <1>2, <2>1 DEF Restore, Acquire, Started, TypeInv, TypeOK, TaskOK, s3
  <1>3. ASSUME Warm(t)
        PROVE  TypeInv'
    <2>1. TaskOK' /\ (overlapped \in BOOLEAN)'
      BY <1>3, StartedOK, PublicationConstants DEF Warm
    <2> QED BY <1>3, <2>1 DEF Warm, Started, TypeInv, TypeOK, TaskOK, s3
  <1> QED BY <1>1, <1>2, <1>3

(* Filling the disk keeps the types. *)
LEMMA TypeDownload ==
    ASSUME TypeInv, NEW t \in Task, List(t) \/ Fetched(t) \/ ReadPointer(t) \/ Overlaid(t)
    PROVE  TypeInv'
  <1>1. CASE List(t)
    <2> DEFINE todo == {ComponentFile(c) : c \in {d \in Component : ~CacheHit(d)}}
               p == [task[t] EXCEPT !.seen = filings, !.listed = checkpoint,
                                    !.todo = todo, !.pc = "fetch"]
    <2>1. todo \subseteq File /\ \A f \in todo : f \in Fixed /\ f.of \in Component
      BY ComponentFiles, FixedFiles
    <2>2. task' = [task EXCEPT ![t] = p]
      BY <1>1 DEF List
    <2> HIDE DEF todo
    <2>3. p \in Program
      BY <2>1 DEF TypeInv, TypeOK, Program
    <2>4. Sound(p)
      BY <2>1 DEF TypeInv, TypeOK, Program, Sound
    <2>5. TaskOK'
      <3> HIDE DEF p
      <3> QED BY <2>2, <2>3, <2>4, NewProgram
    <2> QED BY <1>1, <2>5 DEF List, TypeInv, TypeOK, TaskOK, s3
  <1>2. CASE Fetched(t)
    <2>1. TaskOK' /\ (epochLock \in Task \cup {NoTask})'
      <3>1. CASE task[t].kind = "warm"
        BY <1>2, <3>1, ExitOK DEF Fetched
      <3>2. CASE task[t].kind # "warm"
        BY <1>2, <3>2, GoOK DEF Fetched, TypeInv, TypeOK
      <3> QED BY <3>1, <3>2
    <2>2. (disk \in Disk)'
      BY <1>2 DEF Fetched, TypeInv, TypeOK, Disk, Program
    <2> QED BY <1>2, <2>1, <2>2 DEF Fetched, TypeInv, TypeOK, TaskOK, s3
  <1>3. CASE ReadPointer(t)
    <2> DEFINE todo == IF pointer = NoVersion THEN {} ELSE Fixed
               p == [task[t] EXCEPT !.previous = pointer, !.listed = NoManifests,
                                    !.seen = 0, !.todo = todo, !.pc = "overlay"]
    <2>1. todo \subseteq Fixed /\ todo \subseteq File /\ 0 \in 0..MaxFilings
      BY FixedFiles, PublicationConstants
    <2>2. task' = [task EXCEPT ![t] = p]
      BY <1>3 DEF ReadPointer
    <2> HIDE DEF todo
    <2>3. p \in Program
      BY <2>1, Versions DEF TypeInv, TypeOK, Program
    <2>4. Sound(p)
      BY <2>1 DEF TypeInv, TypeOK, Program, Sound
    <2>5. TaskOK'
      <3> HIDE DEF p
      <3> QED BY <2>2, <2>3, <2>4, NewProgram
    <2> QED BY <1>3, <2>5 DEF ReadPointer, TypeInv, TypeOK, TaskOK, s3
  <1>4. CASE Overlaid(t)
    <2>1. TaskOK' /\ (epochLock \in Task \cup {NoTask})'
      <3>1. CASE task[t].kind = "restore"
        BY <1>4, <3>1, ExitOK DEF Overlaid
      <3>2. CASE task[t].kind # "restore"
        BY <1>4, <3>2, GoOK DEF Overlaid, TypeInv, TypeOK
      <3> QED BY <3>1, <3>2
    <2> QED BY <1>4, <2>1 DEF Overlaid, TypeInv, TypeOK, TaskOK, s3
  <1> QED BY <1>1, <1>2, <1>3, <1>4

(* Making and checkpointing a component keeps the types. *)
LEMMA TypeComponent ==
    ASSUME TypeInv, NEW t \in Task,
           \/ Reuse(t) \/ Collect(t) \/ Paths(t) \/ Head(t)
           \/ FenceCheckpoint(t) \/ PutCheckpoint(t)
    PROVE  TypeInv'
  <1>1. CASE Reuse(t)
    <2>1. TaskOK'
      BY <1>1, AdvancedOK DEF Reuse, At
    <2> QED BY <1>1, <2>1 DEF Reuse, TypeInv, TypeOK, TaskOK, s3
  <1>2. CASE Collect(t)
    <2>1. TaskOK'
      BY <1>2, GoOK DEF Collect
    <2>2. (disk \in Disk)'
      BY <1>2, DiskOK, WantedOK DEF Collect
    <2> QED BY <1>2, <2>1, <2>2 DEF Collect, TypeInv, TypeOK, TaskOK, s3
  <1>3. CASE Paths(t)
    <2> DEFINE todo == LeavesOf(task[t].comp, disk.body[Current(t)])
               p == [task[t] EXCEPT !.todo = todo, !.pc = "head"]
    <2>1. todo \subseteq File /\ \A f \in todo : f.kind = "leaf"
      BY CurrentOK, LeafFiles
    <2>2. task' = [task EXCEPT ![t] = p]
      BY <1>3 DEF Paths
    <2> HIDE DEF todo
    <2>3. p \in Program
      BY <2>1 DEF TypeInv, TypeOK, Program
    <2>4. Sound(p)
      BY <2>1 DEF TypeInv, TypeOK, Program, Sound
    <2>5. TaskOK'
      <3> HIDE DEF p
      <3> QED BY <2>2, <2>3, <2>4, NewProgram
    <2> QED BY <1>3, <2>5 DEF Paths, TypeInv, TypeOK, TaskOK, s3
  <1>4. CASE Head(t)
    <2> DEFINE p == [task[t] EXCEPT !.etag = checkpoint[task[t].comp], !.pc = "leaves"]
    <2>1. checkpoint[task[t].comp] \in Version
      BY CurrentOK DEF TypeInv, TypeOK, Manifests
    <2>2. task' = [task EXCEPT ![t] = p]
      BY <1>4 DEF Head
    <2>3. p \in Program
      BY <2>1 DEF TypeInv, TypeOK, Program
    <2>4. Sound(p)
      BY DEF TypeInv, TypeOK, Program, Sound
    <2>5. TaskOK'
      <3> HIDE DEF p
      <3> QED BY <2>2, <2>3, <2>4, NewProgram
    <2> QED BY <1>4, <2>5 DEF Head, TypeInv, TypeOK, TaskOK, s3
  <1>5. CASE FenceCheckpoint(t)
    <2>1. TaskOK'
      BY <1>5, GoOK DEF FenceCheckpoint
    <2> QED BY <1>5, <2>1 DEF FenceCheckpoint, TypeInv, TypeOK, TaskOK, s3
  <1>6. CASE PutCheckpoint(t)
    <2>1. TaskOK'
      BY <1>6, AdvancedOK DEF PutCheckpoint, At
    <2>2. (checkpoint \in Manifests)'
      BY <1>6, CurrentOK DEF PutCheckpoint, Manifests, TypeInv, TypeOK
    <2> QED BY <1>6, <2>1, <2>2 DEF PutCheckpoint, TypeInv, TypeOK, TaskOK
  <1> QED BY <1>1, <1>2, <1>3, <1>4, <1>5, <1>6

(* Building and publishing a snapshot keeps the types. *)
LEMMA TypePublish ==
    ASSUME TypeInv, NEW t \in Task,
           Build(t) \/ Entries(t) \/ FencePointer(t) \/ SwitchPointer(t)
    PROVE  TypeInv'
  <1>1. CASE Build(t)
    <2>1. TaskOK' /\ (epochLock \in Task \cup {NoTask})'
      <3>1. CASE task[t].kind = "inherit"
        BY <1>1, <3>1, ExitOK DEF Build
      <3>2. CASE task[t].kind # "inherit"
        <4> DEFINE p == [task[t] EXCEPT !.id = Wanted(t), !.pc = "entries"]
        <4>1. task' = [task EXCEPT ![t] = p]
          BY <1>1, <3>2 DEF Build
        <4>2. p \in Program
          BY WantedOK DEF TypeInv, TypeOK, Program
        <4>3. Sound(p)
          BY DEF TypeInv, TypeOK, Program, Sound
        <4>4. TaskOK'
          <5> HIDE DEF p
          <5> QED BY <4>1, <4>2, <4>3, NewProgram
        <4> QED BY <1>1, <3>2, <4>4 DEF Build, TypeInv, TypeOK
      <3> QED BY <3>1, <3>2
    <2>2. (disk \in Disk)'
      BY <1>1, DiskOK, WantedOK DEF Build
    <2> QED BY <1>1, <2>1, <2>2 DEF Build, TypeInv, TypeOK, TaskOK, s3
  <1>2. CASE Entries(t)
    <2> DEFINE todo == FilesOf(task[t].id)
               p == [task[t] EXCEPT !.todo = todo, !.pc = "upload"]
    <2>1. todo \subseteq File /\ \A f \in todo : f.kind = "leaf" \/ f \in Fixed
      BY SnapshotFiles DEF TypeInv, TypeOK, Program
    <2>2. task' = [task EXCEPT ![t] = p]
      BY <1>2 DEF Entries
    <2> HIDE DEF todo
    <2>3. p \in Program
      BY <2>1 DEF TypeInv, TypeOK, Program
    <2>4. Sound(p)
      BY <2>1 DEF TypeInv, TypeOK, Program, Sound
    <2>5. TaskOK'
      <3> HIDE DEF p
      <3> QED BY <2>2, <2>3, <2>4, NewProgram
    <2> QED BY <1>2, <2>5 DEF Entries, TypeInv, TypeOK, TaskOK, s3
  <1>3. CASE FencePointer(t)
    <2>1. TaskOK'
      BY <1>3, GoOK DEF FencePointer
    <2> QED BY <1>3, <2>1 DEF FencePointer, TypeInv, TypeOK, TaskOK, s3
  <1>4. CASE SwitchPointer(t)
    <2>1. TaskOK' /\ (epochLock \in Task \cup {NoTask})'
      BY <1>4, ExitOK DEF SwitchPointer
    <2>2. pointer' \in Version
      BY <1>4 DEF SwitchPointer, TypeInv, TypeOK, Program
    <2> QED BY <1>4, <2>1, <2>2 DEF SwitchPointer, TypeInv, TypeOK, TaskOK
  <1> QED BY <1>1, <1>2, <1>3, <1>4

(* The work of a thread pool keeps the types. *)
LEMMA TypePool ==
    ASSUME TypeInv, NEW t \in Task, NEW f \in task[t].todo, StepOf(t, f)
    PROVE  TypeInv'
  <1>1. CASE Fetch(t, f)
    <2>1. f.of \in Component
      BY <1>1 DEF Fetch, At, TypeInv, Sound
    <2>2. PICK b \in Readable(t, f) : disk' = [disk EXCEPT !.body[f] = b]
      BY <1>1 DEF Fetch
    <2>3. b \in Version
      BY <2>1, <2>2 DEF Readable, TypeInv, TypeOK, Program, Manifests
    <2>4. (disk \in Disk)' /\ TaskOK'
      BY <1>1, <2>2, <2>3, DiskOK, FinishOK DEF Fetch
    <2> QED BY <1>1, <2>4 DEF Fetch, TypeInv, TypeOK, TaskOK, s3
  <1>2. CASE Overlay(t, f)
    <2>1. task[t].previous \in Version
      BY DEF TypeInv, TypeOK, Program
    <2>2. (disk \in Disk)' /\ TaskOK'
      BY <1>2, <2>1, DiskOK, FinishOK DEF Overlay
    <2> QED BY <1>2, <2>2 DEF Overlay, TypeInv, TypeOK, TaskOK, s3
  <1>3. CASE PublishLeaf(t, f)
    <2>1. TaskOK'
      BY <1>3, FinishOK DEF PublishLeaf
    <2> QED BY <1>3, <2>1, DiskBodyOK DEF PublishLeaf, TypeInv, TypeOK, TaskOK
  <1>4. ASSUME Uploading(t, f), bundles' \subseteq Version \X File \X Version
        PROVE  TypeInv'
    <2>1. TaskOK'
      BY <1>4, FinishOK DEF Uploading
    <2> QED BY <1>4, <2>1 DEF Uploading, TypeInv, TypeOK, TaskOK
  <1>5. task[t].id \in Version
    BY DEF TypeInv, TypeOK, Program
  <1>6. CASE KeepObject(t, f)
    BY <1>4, <1>6 DEF KeepObject, TypeInv, TypeOK
  <1>7. CASE CopyObject(t, f)
    BY <1>4, <1>5, <1>7, DiskBodyOK DEF CopyObject, TypeInv, TypeOK
  <1>8. CASE SendObject(t, f)
    BY <1>4, <1>5, <1>8, DiskBodyOK DEF SendObject, TypeInv, TypeOK
  <1>9. CASE AcceptObject(t, f)
    BY <1>4, <1>9 DEF AcceptObject, TypeInv, TypeOK
  <1> QED BY <1>1, <1>2, <1>3, <1>6, <1>7, <1>8, <1>9 DEF StepOf

(* Every step keeps the types. *)
LEMMA TypeNext == TypeInv /\ [Next]_vars => TypeInv'
  <1> SUFFICES ASSUME TypeInv, [Next]_vars PROVE TypeInv'
    OBVIOUS
  <1>1. CASE NewFiling
    BY <1>1, PublicationConstants DEF NewFiling, TypeInv, TypeOK, s3
  <1>2. ASSUME NEW t \in Task, Step(t) PROVE TypeInv'
    <2>1. CASE Raise(t)
      <3>1. TaskOK' /\ (epochLock \in Task \cup {NoTask})'
        BY <2>1, ExitOK DEF Raise
      <3> QED BY <2>1, <3>1 DEF Raise, TypeInv, TypeOK, TaskOK, s3
    <2> QED BY <1>2, <2>1, TypeDownload, TypeComponent, TypePublish, TypePool DEF Step
  <1>3. ASSUME NEW t \in Task, Stop(t) PROVE TypeInv'
    <2>1. TaskOK' /\ (epochLock \in Task \cup {NoTask})'
      BY <1>3, ExitOK DEF Stop
    <2> QED BY <1>3, <2>1, PublicationConstants DEF Stop, TypeInv, TypeOK, TaskOK, s3
  <1>4. ASSUME NEW t \in Task, LoseSession(t) PROVE TypeInv'
    BY <1>4, PublicationConstants DEF LoseSession, TypeInv, TypeOK, s3
  <1>5. CASE UNCHANGED vars
    BY <1>5 DEF vars, s3, TypeInv, TypeOK
  <1> QED BY <1>1, <1>2, <1>3, <1>4, <1>5, TypeStart DEF Next

(* The initial state has the types. *)
LEMMA TypeInit == Init => TypeInv
  <1> SUFFICES ASSUME Init PROVE TypeInv
    OBVIOUS
  <1>1. disk \in Disk
    BY Versions, PublicationConstants DEF Init, Disk
  <1>2. task \in [Task -> Program] /\ \A t \in Task : Sound(task[t])
    BY IdleOK DEF Init
  <1>3. checkpoint \in Manifests /\ pointer \in Version
    BY Versions DEF Init
  <1>4. filings \in 0..MaxFilings /\ faults \in 0..MaxFaults
    BY PublicationConstants DEF Init
  <1>5. /\ epochLock \in Task \cup {NoTask} /\ overlapped \in BOOLEAN
        /\ leaves \subseteq File /\ bundles \subseteq Version \X File \X Version
    BY DEF Init
  <1> QED BY <1>1, <1>2, <1>3, <1>4, <1>5 DEF TypeInv, TypeOK

(* Every variable keeps its type, however the tasks overlap: in particular *)
(* the component counter never runs past the last component.               *)
THEOREM TypeCorrect == Spec => []TypeOK
  <1>1. Init => TypeInv
    BY TypeInit
  <1>2. TypeInv => TypeOK
    BY DEF TypeInv
  <1> QED BY <1>1, <1>2, TypeNext, PTL DEF Spec

-----------------------------------------------------------------------------
(* The pointer only moves forward.                                         *)

(* A program that has read the pointer and built a snapshot: the disk has  *)
(* all the filings of both, and what is uploaded is no regression.         *)
Forward(p, n) ==
    /\ p.previous.filings <= n
    /\ p.pc \in {"entries", "upload", "switch"} =>
         p.previous.filings <= p.id.filings /\ p.id.filings <= n
    /\ p.pc \in {"upload", "switch"} => p.previous.end <= p.id.end

MonoInv ==
    /\ pointer.filings <= disk.filings
    /\ \A t \in Task : Forward(task[t], disk.filings)

(* The numbers in the state, for the arithmetic below. *)
LEMMA Numbers ==
    ASSUME TypeInv
    PROVE  /\ disk.filings \in Nat
           /\ pointer.filings \in Nat
           /\ \A t \in Task : /\ task[t].previous.filings \in Nat
                               /\ task[t].id.filings \in Nat
                               /\ task[t].seen \in Nat
  BY PublicationConstants DEF TypeInv, TypeOK, Disk, Version, Program

(* A program that has read nothing is in order. *)
LEMMA IdleForward ==
    ASSUME NEW n \in Nat PROVE Forward(Idle, n)
  BY DEF Forward, Idle, NoVersion

(* More filings on the disk do no harm. *)
LEMMA MoreFilings ==
    ASSUME TypeInv, NEW t \in Task, NEW n \in Nat, disk.filings <= n,
           Forward(task[t], disk.filings)
    PROVE  Forward(task[t], n)
  BY Numbers DEF Forward

(* A step that moves one task, leaves the pointer alone and takes no       *)
(* filing from the disk keeps the invariant if it keeps that task in order.*)
LEMMA ForwardStep ==
    ASSUME TypeInv, MonoInv, NEW t \in Task, NEW p,
           task' = [task EXCEPT ![t] = p], Forward(p, disk'.filings),
           disk'.filings \in Nat, disk.filings <= disk'.filings,
           pointer'.filings <= disk'.filings
    PROVE  MonoInv'
  <1>1. ASSUME NEW u \in Task PROVE Forward(task'[u], disk'.filings)
    <2>1. CASE u = t
      BY <2>1 DEF TypeInv, TypeOK
    <2>2. CASE u # t
      BY <2>2, MoreFilings DEF MonoInv, TypeInv, TypeOK
    <2> QED BY <2>1, <2>2
  <1> QED BY <1>1 DEF MonoInv

(* The same for a step that leaves the pointer and the filings alone.      *)
LEMMA QuietStep ==
    ASSUME TypeInv, MonoInv, NEW t \in Task, NEW p,
           task' = [task EXCEPT ![t] = p], Forward(p, disk.filings),
           disk'.filings = disk.filings, pointer' = pointer
    PROVE  MonoInv'
  BY ForwardStep, Numbers DEF MonoInv

(* A task that leaves without moving the pointer.                          *)
LEMMA LeaveStep ==
    ASSUME TypeInv, MonoInv, NEW t \in Task, Exit(t),
           disk'.filings \in Nat, disk.filings <= disk'.filings, pointer' = pointer
    PROVE  MonoInv'
  <1>1. Forward(Idle, disk'.filings)
    BY IdleForward
  <1>2. pointer'.filings <= disk'.filings
    BY Numbers DEF MonoInv
  <1>3. task' = [task EXCEPT ![t] = Idle]
    BY DEF Exit
  <1> QED BY <1>1, <1>2, <1>3, ForwardStep

(* Starting, downloading and overlaying. *)
LEMMA MonoDownload ==
    ASSUME TypeInv, MonoInv, NEW t \in Task,
           \/ \E kind, end, pc : pc \notin {"entries", "upload", "switch"} /\ Started(t, kind, end, pc)
           \/ List(t) \/ Fetched(t) \/ ReadPointer(t) \/ Overlaid(t)
    PROVE  MonoInv'
  <1>1. ASSUME NEW kind, NEW end, NEW pc, pc \notin {"entries", "upload", "switch"},
               Started(t, kind, end, pc)
        PROVE  MonoInv'
    <2> DEFINE p == [Idle EXCEPT !.pc = pc, !.kind = kind, !.end = end]
    <2>1. Forward(p, disk.filings)
      BY <1>1, Numbers DEF Forward, Idle, NoVersion
    <2> QED BY <1>1, <2>1, QuietStep DEF Started, s3
  <1>2. CASE List(t)
    <2> DEFINE p == [task[t] EXCEPT !.seen = filings, !.listed = checkpoint,
                       !.todo = {ComponentFile(c) : c \in {d \in Component : ~CacheHit(d)}},
                       !.pc = "fetch"]
    <2>1. Forward(p, disk.filings)
      BY DEF MonoInv, Forward, TypeInv, TypeOK, Program
    <2> QED BY <1>2, <2>1, QuietStep DEF List, s3
  <1>3. CASE Fetched(t)
    <2> DEFINE n == IF task[t].seen > disk.filings THEN task[t].seen ELSE disk.filings
    <2>1. disk'.filings = n
      BY <1>3 DEF Fetched, TypeInv, TypeOK, Disk
    <2>2. n \in Nat /\ disk.filings <= n
      BY Numbers
    <2> HIDE DEF n
    <2>3. CASE task[t].kind = "warm"
      BY <1>3, <2>1, <2>2, <2>3, LeaveStep DEF Fetched, s3
    <2>4. CASE task[t].kind # "warm"
      <3> DEFINE p == [task[t] EXCEPT !.pc = "pointer"]
      <3>1. Forward(p, n)
        BY <2>2, Numbers DEF MonoInv, Forward, TypeInv, TypeOK, Program
      <3>2. pointer'.filings <= n
        BY <1>3, <2>2, Numbers DEF Fetched, s3, MonoInv
      <3>3. task' = [task EXCEPT ![t] = p]
        BY <1>3, <2>4 DEF Fetched, Go
      <3> HIDE DEF p
      <3> QED BY <2>1, <2>2, <3>1, <3>2, <3>3, ForwardStep
    <2> QED BY <2>3, <2>4
  <1>4. CASE ReadPointer(t)
    <2> DEFINE p == [task[t] EXCEPT !.previous = pointer, !.listed = NoManifests, !.seen = 0,
                       !.todo = IF pointer = NoVersion THEN {} ELSE Fixed, !.pc = "overlay"]
    <2>1. Forward(p, disk.filings)
      BY DEF MonoInv, Forward, TypeInv, TypeOK, Program
    <2> QED BY <1>4, <2>1, QuietStep DEF ReadPointer, s3
  <1>5. CASE Overlaid(t)
    <2>1. CASE task[t].kind = "restore"
      BY <1>5, <2>1, LeaveStep, Numbers DEF Overlaid, s3
    <2>2. CASE task[t].kind # "restore"
      <3> DEFINE p == [task[t] EXCEPT !.pc = "component"]
      <3>1. Forward(p, disk.filings)
        BY DEF MonoInv, Forward, TypeInv, TypeOK, Program
      <3> QED BY <1>5, <2>2, <3>1, QuietStep DEF Overlaid, Go, s3
    <2> QED BY <2>1, <2>2
  <1> QED BY <1>1, <1>2, <1>3, <1>4, <1>5

(* Collecting and checkpointing. *)
LEMMA MonoComponent ==
    ASSUME TypeInv, MonoInv, NEW t \in Task,
           \/ Reuse(t) \/ Collect(t) \/ Paths(t) \/ Head(t)
           \/ FenceCheckpoint(t) \/ PutCheckpoint(t)
    PROVE  MonoInv'
  <1>1. ASSUME Advanced(t), disk' = disk, pointer' = pointer
        PROVE  MonoInv'
    <2> DEFINE p == [task[t] EXCEPT !.etag = NoVersion,
                 !.comp = IF @ = Components THEN 1 ELSE @ + 1,
                 !.pc = IF task[t].comp = Components THEN "build" ELSE "component"]
    <2>1. Forward(p, disk.filings)
      BY DEF MonoInv, Forward, TypeInv, TypeOK, Program
    <2> QED BY <1>1, <2>1, QuietStep DEF Advanced
  <1>2. ASSUME NEW pc \in {"paths", "checkpoint"}, Go(t, pc),
               disk'.filings = disk.filings, pointer' = pointer
        PROVE  MonoInv'
    <2> DEFINE p == [task[t] EXCEPT !.pc = pc]
    <2>1. Forward(p, disk.filings)
      BY DEF MonoInv, Forward, TypeInv, TypeOK, Program
    <2> QED BY <1>2, <2>1, QuietStep DEF Go
  <1>3. CASE Reuse(t)
    BY <1>1, <1>3 DEF Reuse, s3
  <1>4. CASE Collect(t)
    BY <1>2, <1>4 DEF Collect, s3, TypeInv, TypeOK, Disk
  <1>5. CASE Paths(t)
    <2> DEFINE p == [task[t] EXCEPT !.todo = LeavesOf(task[t].comp, disk.body[Current(t)]),
                                    !.pc = "head"]
    <2>1. Forward(p, disk.filings)
      BY DEF MonoInv, Forward, TypeInv, TypeOK, Program
    <2> QED BY <1>5, <2>1, QuietStep DEF Paths, s3
  <1>6. CASE Head(t)
    <2> DEFINE p == [task[t] EXCEPT !.etag = checkpoint[task[t].comp], !.pc = "leaves"]
    <2>1. Forward(p, disk.filings)
      BY DEF MonoInv, Forward, TypeInv, TypeOK, Program
    <2> QED BY <1>6, <2>1, QuietStep DEF Head, s3
  <1>7. CASE FenceCheckpoint(t)
    BY <1>2, <1>7 DEF FenceCheckpoint, s3
  <1>8. CASE PutCheckpoint(t)
    BY <1>1, <1>8 DEF PutCheckpoint
  <1> QED BY <1>3, <1>4, <1>5, <1>6, <1>7, <1>8

(* Building and publishing. *)
LEMMA MonoPublish ==
    ASSUME TypeInv, MonoInv, NEW t \in Task,
           Build(t) \/ Entries(t) \/ FencePointer(t) \/ SwitchPointer(t)
    PROVE  MonoInv'
  <1>1. CASE Build(t)
    <2>0. disk'.filings = disk.filings /\ pointer' = pointer
      BY <1>1 DEF Build, s3, TypeInv, TypeOK, Disk
    <2>1. CASE task[t].kind = "inherit"
      BY <1>1, <2>0, <2>1, LeaveStep, Numbers DEF Build
    <2>2. CASE task[t].kind # "inherit"
      <3> DEFINE p == [task[t] EXCEPT !.id = Wanted(t), !.pc = "entries"]
      <3>1. Forward(p, disk.filings)
        BY Numbers DEF MonoInv, Forward, Wanted, TypeInv, TypeOK, Program
      <3> QED BY <1>1, <2>0, <2>2, <3>1, QuietStep DEF Build
    <2> QED BY <2>1, <2>2
  <1>2. CASE Entries(t)
    <2> DEFINE p == [task[t] EXCEPT !.todo = FilesOf(task[t].id), !.pc = "upload"]
    <2>1. Forward(p, disk.filings)
      BY <1>2 DEF Entries, Publishable, At, MonoInv, Forward, TypeInv, TypeOK, Program
    <2> QED BY <1>2, <2>1, QuietStep DEF Entries, s3
  <1>3. CASE FencePointer(t)
    <2> DEFINE p == [task[t] EXCEPT !.pc = "switch"]
    <2>1. Forward(p, disk.filings)
      BY <1>3 DEF FencePointer, At, MonoInv, Forward, TypeInv, TypeOK, Program
    <2> QED BY <1>3, <2>1, QuietStep DEF FencePointer, Go, s3
  <1>4. CASE SwitchPointer(t)
    <2>1. pointer'.filings <= disk.filings
      BY <1>4 DEF SwitchPointer, At, MonoInv, Forward
    <2>2. /\ disk' = disk
          /\ task' = [task EXCEPT ![t] = Idle]
      BY <1>4 DEF SwitchPointer, Exit
    <2>3. disk.filings \in Nat /\ disk.filings <= disk.filings
      BY Numbers
    <2>4. Forward(Idle, disk.filings)
      BY <2>3, IdleForward
    <2> QED BY <2>1, <2>2, <2>3, <2>4, ForwardStep
  <1> QED BY <1>1, <1>2, <1>3, <1>4

(* The work of a thread pool. *)
LEMMA MonoPool ==
    ASSUME TypeInv, MonoInv, NEW t \in Task, NEW f \in task[t].todo, StepOf(t, f)
    PROVE  MonoInv'
  <1>1. Finish(t, f) /\ pointer' = pointer
    BY DEF StepOf, Fetch, Overlay, PublishLeaf, KeepObject, CopyObject, SendObject,
           AcceptObject, Uploading, s3
  <1>2. disk'.filings = disk.filings
    BY DEF StepOf, Fetch, Overlay, PublishLeaf, KeepObject, CopyObject, SendObject,
           AcceptObject, Uploading, TypeInv, TypeOK, Disk
  <1> DEFINE p == [task[t] EXCEPT !.todo = @ \ {f}]
  <1>3. Forward(p, disk.filings)
    BY DEF MonoInv, Forward, TypeInv, TypeOK, Program
  <1> QED BY <1>1, <1>2, <1>3, QuietStep DEF Finish

(* Every step keeps the invariant. *)
LEMMA MonoNext == TypeInv /\ MonoInv /\ [Next]_vars => MonoInv'
  <1> SUFFICES ASSUME TypeInv, MonoInv, [Next]_vars PROVE MonoInv'
    OBVIOUS
  <1>1. CASE NewFiling
    BY <1>1 DEF NewFiling, MonoInv, s3
  <1>2. ASSUME NEW t \in Task, NEW end \in Day,
               (\E kind \in Kinds : Prepare(t, kind, end)) \/ Restore(t, end)
        PROVE  MonoInv'
    BY <1>2, MonoDownload DEF Prepare, Restore
  <1>3. ASSUME NEW t \in Task, Warm(t) PROVE MonoInv'
    BY <1>3, MonoDownload DEF Warm
  <1>4. ASSUME NEW t \in Task, Step(t) PROVE MonoInv'
    <2>1. CASE Raise(t)
      BY <2>1, LeaveStep, Numbers DEF Raise, s3
    <2> QED BY <1>4, <2>1, MonoDownload, MonoComponent, MonoPublish, MonoPool DEF Step
  <1>5. ASSUME NEW t \in Task, Stop(t) PROVE MonoInv'
    BY <1>5, LeaveStep, Numbers DEF Stop, s3
  <1>6. ASSUME NEW t \in Task, LoseSession(t) PROVE MonoInv'
    BY <1>6 DEF LoseSession, MonoInv, s3
  <1>7. CASE UNCHANGED vars
    BY <1>7 DEF vars, s3, MonoInv
  <1> QED BY <1>1, <1>2, <1>3, <1>4, <1>5, <1>6, <1>7 DEF Next

(* Only SwitchPointer moves the pointer. *)
LEMMA PointerStays ==
    ASSUME TypeInv, [Next]_vars, \A t \in Task : ~SwitchPointer(t)
    PROVE  pointer' = pointer
  <1>1. ASSUME NEW t \in Task, Step(t) PROVE pointer' = pointer
    <2>1. ASSUME NEW f, StepOf(t, f) PROVE pointer' = pointer
      BY <2>1 DEF StepOf, Fetch, Overlay, PublishLeaf, KeepObject, CopyObject,
                  SendObject, AcceptObject, Uploading, s3
    <2> QED BY <1>1, <2>1 DEF Step, List, Fetched, ReadPointer, Overlaid, Reuse, Collect,
                  Paths, Head, FenceCheckpoint, PutCheckpoint, Build, Entries,
                  FencePointer, Raise, s3
  <1> QED BY <1>1 DEF Next, NewFiling, Prepare, Restore, Warm, Started, Stop, LoseSession,
                vars, s3

LEMMA MonoInit == Init => MonoInv
  BY IdleForward DEF Init, MonoInv, NoVersion

(* However many tasks overlap, stop or lose their session, the published   *)
(* pointer never goes back to an earlier day or to fewer filings: the CAS  *)
(* on the pointer that was read carries the comparison made before the     *)
(* upload over to the switch.                                              *)
THEOREM Monotone == Spec => PointerMonotone
  <1>1. Init => TypeInv /\ MonoInv
    BY TypeInit, MonoInit
  <1>2. TypeInv /\ MonoInv /\ [Next]_vars =>
          [pointer'.end >= pointer.end /\ pointer'.filings >= pointer.filings]_vars
    <2> SUFFICES ASSUME TypeInv, MonoInv, [Next]_vars
                 PROVE  pointer'.end >= pointer.end /\ pointer'.filings >= pointer.filings
      OBVIOUS
    <2>1. CASE \A t \in Task : ~SwitchPointer(t)
      <3>1. pointer.end \in Nat /\ pointer.filings \in Nat
        BY PublicationConstants DEF TypeInv, TypeOK, Version
      <3> QED BY <2>1, <3>1, PointerStays
    <2>2. ASSUME NEW t \in Task, SwitchPointer(t)
          PROVE  pointer'.end >= pointer.end /\ pointer'.filings >= pointer.filings
      <3>1. Forward(task[t], disk.filings) /\ task[t].pc = "switch"
        BY <2>2 DEF MonoInv, SwitchPointer, At
      <3>2. pointer = task[t].previous /\ pointer' = task[t].id
        BY <2>2 DEF SwitchPointer
      <3>3. /\ task[t].previous \in Version
            /\ task[t].id \in Version
        BY DEF TypeInv, TypeOK, Program
      <3> QED BY <3>1, <3>2, <3>3, PublicationConstants DEF Forward, Version
    <2> QED BY <2>1, <2>2
  <1> QED BY <1>1, <1>2, TypeNext, MonoNext, PTL DEF Spec, PointerMonotone
-----------------------------------------------------------------------------
(* What is named is stored, while tasks do not overlap.                    *)

(* What a task at work has to do and has done, against the pointer `ptr`,  *)
(* the bodies `body` on the disk, the leaves `lv` and the bundles `bs`.    *)
Holding == {"overlay", "component", "paths", "head", "leaves", "checkpoint", "build",
            "entries", "upload", "switch"}

Complete(p, body, lv) ==
    LeavesOf(p.comp, body[ComponentFile(p.comp)]) \subseteq lv \cup p.todo

Settled(p, ptr, body, lv, bs) ==
    /\ p.pc \in Holding => p.previous = ptr
    /\ p.pc \in {"head", "leaves", "checkpoint"} => Complete(p, body, lv)
    /\ p.pc \in {"checkpoint", "switch"} => p.todo = {}
    /\ p.pc = "upload" => \A f \in Fixed : body[f] = p.id
    /\ p.pc \in {"upload", "switch"} =>
         \A f \in FilesOf(p.id) \ p.todo : <<p.id, f, BodyOf(p.id, f)>> \in bs

Alone == \A t, u \in Task : ~At(t, "idle") /\ ~At(u, "idle") => t = u

(* No bundle holds another body than the key says. *)
BodiesTrue(bs) == \A o \in bs : o[3] = BodyOf(o[1], o[2])

CheckpointsIn(cp, lv) == \A c \in Component : LeavesOf(c, cp[c]) \subseteq lv
PointerIn(ptr, bs) ==
    ptr = NoVersion \/ \A f \in FilesOf(ptr) : <<ptr, f, BodyOf(ptr, f)>> \in bs

Orderly ==
    /\ Alone
    /\ BodiesTrue(bundles) /\ CheckpointsIn(checkpoint, leaves) /\ PointerIn(pointer, bundles)
    /\ \A t \in Task : Settled(task[t], pointer, disk.body, leaves, bundles)

NamedInv == overlapped \/ Orderly

(* An idle task owes nothing. *)
LEMMA IdleSettled ==
    ASSUME NEW p, p.pc \in {"idle", "list", "fetch", "pointer"},
           NEW ptr, NEW body, NEW lv, NEW bs
    PROVE  Settled(p, ptr, body, lv, bs)
  BY DEF Settled, Holding

(* The one task at work goes on: the others are idle. *)
LEMMA OnlyStep ==
    ASSUME TypeInv, Orderly, NEW t \in Task, ~At(t, "idle"),
           NEW p, task' = [task EXCEPT ![t] = p],
           NEW ptr, NEW body, NEW lv, NEW bs, Settled(p, ptr, body, lv, bs)
    PROVE  Alone' /\ \A u \in Task : Settled(task'[u], ptr, body, lv, bs)
  <1>1. \A u \in Task \ {t} : task'[u].pc = "idle"
    BY DEF Orderly, Alone, At, TypeInv, TypeOK
  <1>2. task'[t] = p
    BY DEF TypeInv, TypeOK
  <1>3. Alone'
    BY <1>1 DEF Alone, At
  <1> QED BY <1>1, <1>2, <1>3, IdleSettled

(* ... and writes nothing that others have stored. *)
LEMMA QuietOrderly ==
    ASSUME TypeInv, Orderly, NEW t \in Task, ~At(t, "idle"),
           NEW p, task' = [task EXCEPT ![t] = p],
           UNCHANGED s3,
           Settled(p, pointer', disk'.body, leaves', bundles')
    PROVE  Orderly'
  <1>1. Alone' /\ \A u \in Task : Settled(task'[u], pointer', disk'.body, leaves', bundles')
    BY OnlyStep
  <1> QED BY <1>1 DEF Orderly, s3

(* A task that leaves keeps everything in order. *)
LEMMA ExitOrderly ==
    ASSUME TypeInv, Orderly, NEW t \in Task, ~At(t, "idle"), Exit(t), UNCHANGED s3
    PROVE  Orderly'
  <1>1. Settled(Idle, pointer', disk'.body, leaves', bundles')
    BY IdleSettled DEF Idle
  <1> QED BY <1>1, QuietOrderly DEF Exit

(* A task downloads: the LIST, the cache, the pointer and its objects.     *)
LEMMA OrderlyDownload ==
    ASSUME TypeInv, Orderly, NEW t \in Task,
           List(t) \/ Fetched(t) \/ ReadPointer(t) \/ Overlaid(t)
    PROVE  Orderly'
  <1>1. CASE List(t)
    <2> DEFINE p == [task[t] EXCEPT
                       !.seen = filings, !.listed = checkpoint,
                       !.todo = {ComponentFile(c) : c \in {d \in Component : ~CacheHit(d)}},
                       !.pc = "fetch"]
    <2>1. task' = [task EXCEPT ![t] = p] /\ ~At(t, "idle")
      BY <1>1 DEF List, At
    <2>2. p.pc = "fetch"
      BY DEF TypeInv, TypeOK, Program
    <2>3. UNCHANGED s3
      BY <1>1 DEF List
    <2> HIDE DEF p
    <2>4. Settled(p, pointer', disk'.body, leaves', bundles')
      BY <2>2, IdleSettled
    <2> QED BY <2>1, <2>3, <2>4, QuietOrderly
  <1>2. CASE Fetched(t)
    <2>1. ~At(t, "idle") /\ UNCHANGED s3
      BY <1>2 DEF Fetched, At
    <2>2. CASE task[t].kind = "warm"
      BY <1>2, <2>1, <2>2, ExitOrderly DEF Fetched
    <2>3. CASE task[t].kind # "warm"
      <3> DEFINE p == [task[t] EXCEPT !.pc = "pointer"]
      <3>1. task' = [task EXCEPT ![t] = p]
        BY <1>2, <2>3 DEF Fetched, Go
      <3>2. p.pc = "pointer"
        BY DEF TypeInv, TypeOK, Program
      <3> HIDE DEF p
      <3>3. Settled(p, pointer', disk'.body, leaves', bundles')
        BY <3>2, IdleSettled
      <3> QED BY <2>1, <3>1, <3>3, QuietOrderly
    <2> QED BY <2>2, <2>3
  <1>3. CASE ReadPointer(t)
    <2> DEFINE p == [task[t] EXCEPT
                       !.previous = pointer, !.listed = NoManifests, !.seen = 0,
                       !.todo = IF pointer = NoVersion THEN {} ELSE Fixed,
                       !.pc = "overlay"]
    <2>1. task' = [task EXCEPT ![t] = p] /\ ~At(t, "idle") /\ UNCHANGED s3
      BY <1>3 DEF ReadPointer, At
    <2>2. p.pc = "overlay" /\ p.previous = pointer
      BY DEF TypeInv, TypeOK, Program
    <2>3. pointer' = pointer
      BY <2>1 DEF s3
    <2> HIDE DEF p
    <2>4. Settled(p, pointer', disk'.body, leaves', bundles')
      BY <2>2, <2>3 DEF Settled
    <2> QED BY <2>1, <2>4, QuietOrderly
  <1>4. CASE Overlaid(t)
    <2>1. ~At(t, "idle") /\ UNCHANGED s3
      BY <1>4 DEF Overlaid, At
    <2>2. CASE task[t].kind = "restore"
      BY <1>4, <2>1, <2>2, ExitOrderly DEF Overlaid
    <2>3. CASE task[t].kind # "restore"
      <3> DEFINE p == [task[t] EXCEPT !.pc = "component"]
      <3>1. task' = [task EXCEPT ![t] = p]
        BY <1>4, <2>3 DEF Overlaid, Go
      <3>2. p.pc = "component" /\ p.previous = task[t].previous /\ task[t].pc = "overlay"
        BY <1>4 DEF Overlaid, At, TypeInv, TypeOK, Program
      <3>3. p.previous = pointer'
        BY <2>1, <3>2 DEF Orderly, Settled, Holding, s3
      <3> HIDE DEF p
      <3>4. Settled(p, pointer', disk'.body, leaves', bundles')
        BY <3>2, <3>3 DEF Settled
      <3> QED BY <2>1, <3>1, <3>4, QuietOrderly
    <2> QED BY <2>2, <2>3
  <1> QED BY <1>1, <1>2, <1>3, <1>4

(* A task goes on to its next component.                                   *)
LEMMA OrderlyAdvanced ==
    ASSUME TypeInv, Orderly, NEW t \in Task, Advanced(t), task[t].pc \in Holding,
           NEW lv, NEW bs
    PROVE  Alone' /\ \A u \in Task : Settled(task'[u], pointer, disk'.body, lv, bs)
  <1> DEFINE c == IF task[t].comp = Components THEN 1 ELSE task[t].comp + 1
             pc == IF task[t].comp = Components THEN "build" ELSE "component"
             p == [task[t] EXCEPT !.etag = NoVersion, !.comp = c, !.pc = pc]
  <1>1. task' = [task EXCEPT ![t] = p]
    BY DEF Advanced
  <1>2. p.pc \in {"build", "component"} /\ p.previous = task[t].previous
    BY DEF TypeInv, TypeOK, Program
  <1>3. p.previous = pointer /\ ~At(t, "idle")
    BY <1>2 DEF Orderly, Settled, Holding, At
  <1> HIDE DEF p
  <1>4. Settled(p, pointer, disk'.body, lv, bs)
    BY <1>2, <1>3 DEF Settled
  <1>5. \A ptr, body, leaf, objects : Settled(p, ptr, body, leaf, objects) =>
          Alone' /\ \A u \in Task : Settled(task'[u], ptr, body, leaf, objects)
    BY <1>1, <1>3, OnlyStep
  <1> QED BY <1>4, <1>5

(* A task collects a component and puts its checkpoint.                    *)
LEMMA OrderlyComponent ==
    ASSUME TypeInv, Orderly, NEW t \in Task,
           \/ Reuse(t) \/ Collect(t) \/ Paths(t) \/ Head(t)
           \/ FenceCheckpoint(t) \/ PutCheckpoint(t)
    PROVE  Orderly'
  <1>0. Settled(task[t], pointer, disk.body, leaves, bundles)
    BY DEF Orderly
  <1>1. CASE Reuse(t)
    <2>1. Alone' /\ \A u \in Task : Settled(task'[u], pointer, disk'.body, leaves, bundles)
      BY <1>1, OrderlyAdvanced DEF Reuse, At, Holding
    <2> QED BY <1>1, <2>1 DEF Reuse, Orderly, s3
  <1>2. CASE Collect(t)
    <2> DEFINE p == [task[t] EXCEPT !.pc = "paths"]
    <2>1. task' = [task EXCEPT ![t] = p] /\ ~At(t, "idle") /\ UNCHANGED s3
      BY <1>2 DEF Collect, At, Go
    <2>2. p.pc = "paths" /\ p.previous = pointer /\ pointer' = pointer
      BY <1>0, <1>2 DEF Collect, At, Settled, Holding, TypeInv, TypeOK, Program, s3
    <2> HIDE DEF p
    <2>3. Settled(p, pointer', disk'.body, leaves', bundles')
      BY <2>2 DEF Settled
    <2> QED BY <2>1, <2>3, QuietOrderly
  <1>3. CASE Paths(t)
    <2> DEFINE p == [task[t] EXCEPT !.todo = LeavesOf(task[t].comp, disk.body[Current(t)]),
                                    !.pc = "head"]
    <2>1. task' = [task EXCEPT ![t] = p] /\ ~At(t, "idle") /\ UNCHANGED <<s3, disk>>
      BY <1>3 DEF Paths, At
    <2>2. p.pc = "head" /\ p.previous = pointer /\ pointer' = pointer /\ disk'.body = disk.body
      BY <1>0, <1>3, <2>1 DEF Paths, At, Settled, Holding, TypeInv, TypeOK, Program, s3
    <2>3. Complete(p, disk.body, leaves')
      BY DEF Complete, Current, TypeInv, TypeOK, Program
    <2> HIDE DEF p
    <2>4. Settled(p, pointer', disk'.body, leaves', bundles')
      BY <2>2, <2>3 DEF Settled
    <2> QED BY <2>1, <2>4, QuietOrderly
  <1>4. CASE Head(t)
    <2> DEFINE p == [task[t] EXCEPT !.etag = checkpoint[task[t].comp], !.pc = "leaves"]
    <2>1. task' = [task EXCEPT ![t] = p] /\ ~At(t, "idle") /\ UNCHANGED <<s3, disk>>
      BY <1>4 DEF Head, At
    <2>2. /\ p.pc = "leaves" /\ p.previous = pointer /\ pointer' = pointer
          /\ disk'.body = disk.body /\ leaves' = leaves
          /\ p.comp = task[t].comp /\ p.todo = task[t].todo
      BY <1>0, <1>4, <2>1 DEF Head, At, Settled, Holding, TypeInv, TypeOK, Program, s3
    <2>3. Complete(task[t], disk.body, leaves)
      BY <1>0, <1>4 DEF Head, At, Settled
    <2> HIDE DEF p
    <2>4. Settled(p, pointer', disk'.body, leaves', bundles')
      BY <2>2, <2>3 DEF Settled, Complete
    <2> QED BY <2>1, <2>4, QuietOrderly
  <1>5. CASE FenceCheckpoint(t)
    <2> DEFINE p == [task[t] EXCEPT !.pc = "checkpoint"]
    <2>1. task' = [task EXCEPT ![t] = p] /\ ~At(t, "idle") /\ UNCHANGED <<s3, disk>>
      BY <1>5 DEF FenceCheckpoint, At, Go
    <2>2. /\ p.pc = "checkpoint" /\ p.previous = pointer /\ pointer' = pointer
          /\ disk'.body = disk.body /\ leaves' = leaves
          /\ p.comp = task[t].comp /\ p.todo = task[t].todo /\ p.todo = {}
      BY <1>0, <1>5, <2>1
      DEF FenceCheckpoint, At, Settled, Holding, TypeInv, TypeOK, Program, s3
    <2>3. Complete(task[t], disk.body, leaves)
      BY <1>0, <1>5 DEF FenceCheckpoint, At, Settled
    <2> HIDE DEF p
    <2>4. Settled(p, pointer', disk'.body, leaves', bundles')
      BY <2>2, <2>3 DEF Settled, Complete
    <2> QED BY <2>1, <2>4, QuietOrderly
  <1>6. CASE PutCheckpoint(t)
    <2>1. LeavesOf(task[t].comp, disk.body[Current(t)]) \subseteq leaves
      BY <1>0, <1>6 DEF PutCheckpoint, At, Settled, Complete, Current
    <2>2. task[t].comp \in Component /\ checkpoint \in [Component -> Version]
      BY DEF TypeInv, TypeOK, Program, Manifests
    <2>3. CheckpointsIn(checkpoint', leaves')
      BY <1>6, <2>1, <2>2 DEF PutCheckpoint, CheckpointsIn, Orderly
    <2>4. Alone' /\ \A u \in Task : Settled(task'[u], pointer, disk'.body, leaves, bundles)
      BY <1>6, OrderlyAdvanced DEF PutCheckpoint, At, Holding
    <2> QED BY <1>6, <2>3, <2>4 DEF PutCheckpoint, Orderly
  <1> QED BY <1>1, <1>2, <1>3, <1>4, <1>5, <1>6

(* A task builds a snapshot, uploads its bundle and switches the pointer.  *)
LEMMA OrderlyPublish ==
    ASSUME TypeInv, Orderly, NEW t \in Task,
           Build(t) \/ Entries(t) \/ FencePointer(t) \/ SwitchPointer(t)
    PROVE  Orderly'
  <1>0. Settled(task[t], pointer, disk.body, leaves, bundles)
    BY DEF Orderly
  <1>1. CASE Build(t)
    <2>1. ~At(t, "idle") /\ UNCHANGED s3
      BY <1>1 DEF Build, At
    <2>2. CASE task[t].kind = "inherit"
      BY <1>1, <2>1, <2>2, ExitOrderly DEF Build
    <2>3. CASE task[t].kind # "inherit"
      <3> DEFINE p == [task[t] EXCEPT !.id = Wanted(t), !.pc = "entries"]
      <3>1. task' = [task EXCEPT ![t] = p]
        BY <1>1, <2>3 DEF Build
      <3>2. p.pc = "entries" /\ p.previous = pointer /\ pointer' = pointer
        BY <1>0, <1>1 DEF Build, At, Settled, Holding, TypeInv, TypeOK, Program, s3
      <3> HIDE DEF p
      <3>3. Settled(p, pointer', disk'.body, leaves', bundles')
        BY <3>2 DEF Settled
      <3> QED BY <2>1, <3>1, <3>3, QuietOrderly
    <2> QED BY <2>2, <2>3
  <1>2. CASE Entries(t)
    <2> DEFINE p == [task[t] EXCEPT !.todo = FilesOf(task[t].id), !.pc = "upload"]
    <2>1. task' = [task EXCEPT ![t] = p] /\ ~At(t, "idle") /\ UNCHANGED <<s3, disk>>
      BY <1>2 DEF Entries, At
    <2>2. /\ p.pc = "upload" /\ p.previous = pointer /\ pointer' = pointer
          /\ p.id = task[t].id /\ p.todo = FilesOf(p.id) /\ disk'.body = disk.body
      BY <1>0, <1>2, <2>1 DEF Entries, At, Settled, Holding, TypeInv, TypeOK, Program, s3
    <2>3. \A f \in Fixed : disk.body[f] = task[t].id
      BY <1>2 DEF Entries, Publishable, Verified
    <2> HIDE DEF p
    <2>4. Settled(p, pointer', disk'.body, leaves', bundles')
      BY <2>2, <2>3 DEF Settled
    <2> QED BY <2>1, <2>4, QuietOrderly
  <1>3. CASE FencePointer(t)
    <2> DEFINE p == [task[t] EXCEPT !.pc = "switch"]
    <2>1. task' = [task EXCEPT ![t] = p] /\ ~At(t, "idle") /\ UNCHANGED <<s3, disk>>
      BY <1>3 DEF FencePointer, At, Go
    <2>2. /\ p.pc = "switch" /\ p.previous = pointer /\ pointer' = pointer
          /\ p.id = task[t].id /\ p.todo = task[t].todo /\ p.todo = {}
          /\ bundles' = bundles
      BY <1>0, <1>3, <2>1
      DEF FencePointer, At, Settled, Holding, TypeInv, TypeOK, Program, s3
    <2>3. \A f \in FilesOf(task[t].id) \ task[t].todo :
            <<task[t].id, f, BodyOf(task[t].id, f)>> \in bundles
      BY <1>0, <1>3 DEF FencePointer, At, Settled
    <2> HIDE DEF p
    <2>4. Settled(p, pointer', disk'.body, leaves', bundles')
      BY <2>2, <2>3 DEF Settled
    <2> QED BY <2>1, <2>4, QuietOrderly
  <1>4. CASE SwitchPointer(t)
    <2>1. /\ task' = [task EXCEPT ![t] = Idle] /\ ~At(t, "idle")
          /\ pointer' = task[t].id
          /\ UNCHANGED <<checkpoint, leaves, bundles>>
      BY <1>4 DEF SwitchPointer, Exit, At
    <2>2. PointerIn(pointer', bundles')
      BY <1>0, <1>4, <2>1 DEF SwitchPointer, At, Settled, PointerIn
    <2> DEFINE p == Idle
    <2>3. p.pc = "idle" /\ task' = [task EXCEPT ![t] = p]
      BY <2>1 DEF Idle
    <2> HIDE DEF p
    <2>4. Settled(p, pointer', disk'.body, leaves', bundles')
      BY <2>3, IdleSettled
    <2>5. \A ptr, body, leaf, objects : Settled(p, ptr, body, leaf, objects) =>
            Alone' /\ \A u \in Task : Settled(task'[u], ptr, body, leaf, objects)
      BY <2>1, <2>3, OnlyStep
    <2>6. Alone' /\ \A u \in Task : Settled(task'[u], pointer', disk'.body, leaves', bundles')
      BY <2>4, <2>5
    <2> QED BY <2>1, <2>2, <2>6 DEF Orderly
  <1> QED BY <1>1, <1>2, <1>3, <1>4

(* What an upload of a file of the snapshot leaves in the bundles.         *)
LEMMA Uploaded ==
    ASSUME TypeInv, Orderly, NEW t \in Task, NEW f \in task[t].todo,
           KeepObject(t, f) \/ CopyObject(t, f) \/ SendObject(t, f) \/ AcceptObject(t, f)
    PROVE  /\ task[t].pc = "upload"
           /\ BodiesTrue(bundles') /\ PointerIn(pointer, bundles')
           /\ f \in FilesOf(task[t].id) =>
                <<task[t].id, f, BodyOf(task[t].id, f)>> \in bundles'
           /\ \A g : g # f /\ <<task[t].id, g, BodyOf(task[t].id, g)>> \in bundles =>
                <<task[t].id, g, BodyOf(task[t].id, g)>> \in bundles'
  <1> DEFINE id == task[t].id
             prev == task[t].previous
  <1>0. /\ task[t].pc = "upload"
        /\ prev = pointer
        /\ \A g \in Fixed : disk.body[g] = id
        /\ BodiesTrue(bundles) /\ PointerIn(pointer, bundles)
    BY DEF KeepObject, CopyObject, SendObject, AcceptObject, Uploading, At, Orderly,
           Settled, Holding
  <1>1. CASE KeepObject(t, f)
    <2>1. <<id, f, BodyOf(id, f)>> \in bundles
      BY <1>0, <1>1 DEF KeepObject, Prior, PointerIn
    <2> QED BY <1>0, <1>1, <2>1 DEF KeepObject
  <1>2. CASE CopyObject(t, f)
    <2>1. PICK b \in Version :
            /\ Prior(t, f) /\ prev # id
            /\ <<prev, f, b>> \in bundles
            /\ bundles' = {o \in bundles : o[1] # id \/ o[2] # f} \cup {<<id, f, b>>}
      BY <1>2 DEF CopyObject
    <2>2. b = BodyOf(prev, f)
      BY <1>0, <2>1 DEF BodiesTrue
    <2>3. b = BodyOf(id, f)
      BY <2>1, <2>2 DEF Prior
    <2>4. BodiesTrue(bundles')
      BY <1>0, <2>1, <2>3 DEF BodiesTrue
    <2>5. PointerIn(pointer, bundles')
      BY <1>0, <2>1 DEF PointerIn
    <2> QED BY <1>0, <2>1, <2>3, <2>4, <2>5
  <1>3. CASE SendObject(t, f)
    <2>1. bundles' = bundles \cup {<<id, f, DiskBody(f)>>}
      BY <1>3 DEF SendObject
    <2>2. DiskBody(f) = BodyOf(id, f)
      BY <1>0 DEF DiskBody, BodyOf, TypeInv, Sound
    <2>3. BodiesTrue(bundles')
      BY <1>0, <2>1, <2>2 DEF BodiesTrue
    <2>4. PointerIn(pointer, bundles')
      BY <1>0, <2>1 DEF PointerIn
    <2> QED BY <1>0, <2>1, <2>2, <2>3, <2>4
  <1>4. CASE AcceptObject(t, f)
    <2>1. <<id, f, BodyOf(id, f)>> \in bundles
      BY <1>0, <1>4 DEF AcceptObject, Stored, BodiesTrue
    <2> QED BY <1>0, <1>4, <2>1 DEF AcceptObject
  <1> QED BY <1>1, <1>2, <1>3, <1>4

(* The work of a thread pool.                                              *)
LEMMA OrderlyPool ==
    ASSUME TypeInv, Orderly, NEW t \in Task, NEW f \in task[t].todo, StepOf(t, f)
    PROVE  Orderly'
  <1> DEFINE p == [task[t] EXCEPT !.todo = @ \ {f}]
  <1>0. Settled(task[t], pointer, disk.body, leaves, bundles)
    BY DEF Orderly
  <1>1. /\ task' = [task EXCEPT ![t] = p]
        /\ pointer' = pointer /\ checkpoint' = checkpoint
        /\ task[t].pc \in {"fetch", "overlay", "leaves", "upload"}
    BY DEF StepOf, Fetch, Overlay, PublishLeaf, KeepObject, CopyObject, SendObject,
           AcceptObject, Uploading, Finish, At, s3
  <1>2. /\ p.pc = task[t].pc /\ p.previous = task[t].previous /\ p.comp = task[t].comp
        /\ p.id = task[t].id /\ p.todo = task[t].todo \ {f}
    BY DEF TypeInv, TypeOK, Program
  <1>3. ~At(t, "idle")
    BY <1>1 DEF At
  <1> HIDE DEF p
  <1>4. CASE Fetch(t, f)
    <2>1. UNCHANGED s3 /\ p.pc = "fetch"
      BY <1>2, <1>4 DEF Fetch, At
    <2>2. Settled(p, pointer', disk'.body, leaves', bundles')
      BY <2>1, IdleSettled
    <2> QED BY <1>1, <1>3, <2>1, <2>2, QuietOrderly
  <1>5. CASE Overlay(t, f)
    <2>1. UNCHANGED s3 /\ p.pc = "overlay"
      BY <1>2, <1>5 DEF Overlay, At
    <2>2. Settled(p, pointer', disk'.body, leaves', bundles')
      BY <1>0, <1>1, <1>2, <2>1 DEF Settled, Holding
    <2> QED BY <1>1, <1>3, <2>1, <2>2, QuietOrderly
  <1>6. CASE PublishLeaf(t, f)
    <2>1. /\ leaves' = leaves \cup {f} /\ UNCHANGED <<disk, bundles>>
          /\ p.pc = "leaves" /\ task[t].pc = "leaves"
      BY <1>2, <1>6 DEF PublishLeaf, At
    <2>2. Complete(p, disk.body, leaves')
      BY <1>0, <1>2, <2>1 DEF Settled, Complete
    <2>3. p.previous = pointer
      BY <1>0, <1>2, <2>1 DEF Settled, Holding
    <2>4. Settled(p, pointer', disk'.body, leaves', bundles')
      BY <1>1, <2>1, <2>2, <2>3 DEF Settled
    <2>5. \A ptr, body, leaf, objects : Settled(p, ptr, body, leaf, objects) =>
            Alone' /\ \A u \in Task : Settled(task'[u], ptr, body, leaf, objects)
      BY <1>1, <1>3, OnlyStep
    <2>6. CheckpointsIn(checkpoint', leaves')
      BY <1>1, <2>1 DEF Orderly, CheckpointsIn
    <2> QED BY <1>1, <2>1, <2>4, <2>5, <2>6 DEF Orderly
  <1>7. CASE KeepObject(t, f) \/ CopyObject(t, f) \/ SendObject(t, f) \/ AcceptObject(t, f)
    <2>1. UNCHANGED <<disk, leaves>>
      BY <1>7 DEF KeepObject, CopyObject, SendObject, AcceptObject, Uploading
    <2>2. task[t].pc = "upload" /\ BodiesTrue(bundles') /\ PointerIn(pointer, bundles')
      BY <1>7, Uploaded
    <2>3. \A g \in FilesOf(p.id) \ p.todo : <<p.id, g, BodyOf(p.id, g)>> \in bundles'
      <3>1. \A g \in FilesOf(task[t].id) \ task[t].todo :
              <<task[t].id, g, BodyOf(task[t].id, g)>> \in bundles
        BY <1>0, <2>2 DEF Settled
      <3>2. /\ f \in FilesOf(task[t].id) =>
                 <<task[t].id, f, BodyOf(task[t].id, f)>> \in bundles'
            /\ \A g : g # f /\ <<task[t].id, g, BodyOf(task[t].id, g)>> \in bundles =>
                 <<task[t].id, g, BodyOf(task[t].id, g)>> \in bundles'
        BY <1>7, Uploaded
      <3> QED BY <1>2, <3>1, <3>2
    <2>4. p.previous = pointer /\ \A g \in Fixed : disk.body[g] = p.id
      BY <1>0, <1>2, <2>2 DEF Settled, Holding
    <2>5. Settled(p, pointer', disk'.body, leaves', bundles')
      BY <1>1, <1>2, <2>1, <2>2, <2>3, <2>4 DEF Settled
    <2>6. \A ptr, body, leaf, objects : Settled(p, ptr, body, leaf, objects) =>
            Alone' /\ \A u \in Task : Settled(task'[u], ptr, body, leaf, objects)
      BY <1>1, <1>3, OnlyStep
    <2> QED BY <1>1, <2>1, <2>2, <2>5, <2>6 DEF Orderly
  <1> QED BY <1>4, <1>5, <1>6, <1>7 DEF StepOf

(* A task starts while no other is at work, or tasks overlap.              *)
LEMMA OrderlyStart ==
    ASSUME TypeInv, Orderly, NEW t \in Task, NEW kind, NEW end,
           NEW pc \in {"list", "pointer"}, Started(t, kind, end, pc)
    PROVE  NamedInv'
  <1> DEFINE p == [Idle EXCEPT !.pc = pc, !.kind = kind, !.end = end]
  <1>1. CASE \E u \in Task : ~At(u, "idle")
    BY <1>1 DEF Started, NamedInv
  <1>2. CASE \A u \in Task : At(u, "idle")
    <2>1. task' = [task EXCEPT ![t] = p] /\ UNCHANGED <<disk, s3>>
      BY DEF Started
    <2>2. p.pc = pc
      BY DEF Idle
    <2> HIDE DEF p
    <2>3. task'[t] = p /\ \A u \in Task \ {t} : task'[u].pc = "idle"
      BY <1>2, <2>1 DEF At, TypeInv, TypeOK
    <2>4. Alone'
      BY <2>3 DEF Alone, At
    <2>5. \A u \in Task : task'[u].pc \in {"idle", "list", "fetch", "pointer"}
      BY <2>2, <2>3
    <2>6. \A u \in Task : Settled(task'[u], pointer', disk'.body, leaves', bundles')
      BY <2>5, IdleSettled
    <2> QED BY <2>1, <2>4, <2>6 DEF NamedInv, Orderly, s3
  <1> QED BY <1>1, <1>2

(* Every step keeps the invariant.                                         *)
LEMMA NamedNext == TypeInv /\ NamedInv /\ [Next]_vars => NamedInv'
  <1> SUFFICES ASSUME TypeInv, NamedInv, [Next]_vars PROVE NamedInv'
    OBVIOUS
  <1>1. CASE overlapped
    <2>1. overlapped'
      <3>1. ASSUME NEW t \in Task, NEW f, StepOf(t, f) PROVE overlapped' = overlapped
        BY <3>1 DEF StepOf, Fetch, Overlay, PublishLeaf, KeepObject, CopyObject,
                    SendObject, AcceptObject, Uploading
      <3>2. ASSUME NEW t \in Task, Step(t) PROVE overlapped' = overlapped
        BY <3>1, <3>2 DEF Step, List, Fetched, ReadPointer, Overlaid, Reuse, Collect,
                    Paths, Head, FenceCheckpoint, PutCheckpoint, Build, Entries,
                    FencePointer, SwitchPointer, Raise
      <3> QED BY <1>1, <3>2 DEF Next, NewFiling, Prepare, Restore, Warm, Started, Stop,
                    LoseSession, vars
    <2> QED BY <2>1 DEF NamedInv
  <1>2. CASE Orderly
    <2>1. CASE NewFiling
      BY <1>2, <2>1 DEF NewFiling, NamedInv, Orderly, Alone, At, s3
    <2>2. ASSUME NEW t \in Task, NEW end \in Day,
                 (\E kind \in Kinds : Prepare(t, kind, end)) \/ Restore(t, end)
          PROVE  NamedInv'
      BY <1>2, <2>2, OrderlyStart DEF Prepare, Restore
    <2>3. ASSUME NEW t \in Task, Warm(t) PROVE NamedInv'
      BY <1>2, <2>3, OrderlyStart DEF Warm
    <2>4. ASSUME NEW t \in Task, Step(t) PROVE Orderly'
      <3>1. CASE Raise(t)
        <4>1. ~At(t, "idle")
          BY <3>1 DEF Raise, Refused, At
        <4> QED BY <1>2, <3>1, <4>1, ExitOrderly DEF Raise
      <3> QED BY <1>2, <2>4, <3>1, OrderlyDownload, OrderlyComponent, OrderlyPublish,
                 OrderlyPool DEF Step
    <2>5. ASSUME NEW t \in Task, Stop(t) PROVE Orderly'
      BY <1>2, <2>5, ExitOrderly DEF Stop
    <2>6. ASSUME NEW t \in Task, LoseSession(t) PROVE Orderly'
      BY <1>2, <2>6 DEF LoseSession, Orderly, Alone, At, s3
    <2>7. CASE UNCHANGED vars
      BY <1>2, <2>7 DEF vars, s3, NamedInv, Orderly, Alone, At
    <2> QED BY <2>1, <2>2, <2>3, <2>4, <2>5, <2>6, <2>7 DEF Next, NamedInv
  <1> QED BY <1>1, <1>2 DEF NamedInv

LEMMA NamedInit == Init => NamedInv
  <1> SUFFICES ASSUME Init PROVE Orderly
    BY DEF NamedInv
  <1>1. Alone
    BY DEF Init, Idle, Alone, At
  <1>2. BodiesTrue(bundles) /\ PointerIn(pointer, bundles)
    BY DEF Init, BodiesTrue, PointerIn
  <1>3. CheckpointsIn(checkpoint, leaves)
    BY PublicationConstants DEF Init, CheckpointsIn, NoManifests, LeavesOf, NoVersion
  <1>4. \A t \in Task : Settled(task[t], pointer, disk.body, leaves, bundles)
    <2>1. \A t \in Task : task[t].pc = "idle"
      BY DEF Init, Idle
    <2>2. ASSUME NEW p, p.pc = "idle"
          PROVE  Settled(p, pointer, disk.body, leaves, bundles)
      BY <2>2 DEF Settled, Holding
    <2> QED BY <2>1, <2>2
  <1> QED BY <1>1, <1>2, <1>3, <1>4 DEF Orderly

(* While tasks do not overlap, a checkpoint names only leaves that are in  *)
(* S3 and the pointer only objects with the bodies it promises, whichever  *)
(* task stopped at whichever step (_publish_component_checkpoint,          *)
(* _publish_generated_snapshot).                                           *)
THEOREM Named == Spec => []NamedStored
  <1>1. Init => TypeInv
    BY TypeInit
  <1>2. Init => NamedInv
    BY NamedInit
  <1>3. NamedInv => NamedStored
    BY DEF NamedInv, Orderly, NamedStored, CheckpointComplete, PointerIntact, Intact,
           CheckpointsIn, PointerIn
  <1> QED BY <1>1, <1>2, <1>3, TypeNext, NamedNext, PTL DEF Spec

-----------------------------------------------------------------------------
(* The published snapshot as its readers see it.                           *)

(* What a task works on is durable and on a day: the filings it has listed *)
(* are in Bronze, and only the warmer, which stops after the download, has *)
(* no day.                                                                 *)
Rooted(p, n) ==
    /\ p.seen <= n
    /\ p.pc # "idle" /\ p.kind # "warm" => p.end \in Day
    /\ p.kind = "warm" => p.pc \in {"list", "fetch"}
    /\ p.pc \in {"entries", "upload", "switch"} => p.id.end \in Day

DurableInv ==
    /\ disk.filings <= filings
    /\ \A t \in Task : Rooted(task[t], filings)

LEMMA IdleRooted ==
    ASSUME NEW n \in Nat PROVE Rooted(Idle, n)
  BY DEF Rooted, Idle

(* A step that moves one task keeps the invariant if it keeps that task    *)
(* rooted and reads no filing that is not in Bronze.                       *)
LEMMA RootedStep ==
    ASSUME TypeInv, DurableInv, NEW t \in Task, NEW p, task' = [task EXCEPT ![t] = p],
           Rooted(p, filings), disk'.filings <= filings, filings' = filings
    PROVE  DurableInv'
  <1>1. ASSUME NEW u \in Task PROVE Rooted(task'[u], filings)
    BY DEF DurableInv, TypeInv, TypeOK
  <1> QED BY <1>1 DEF DurableInv

(* A task goes on.                                                         *)
LEMMA RootedGo ==
    ASSUME TypeInv, DurableInv, NEW t \in Task, NEW p, task' = [task EXCEPT ![t] = p],
           task[t].pc # "idle", p.seen <= filings,
           p.kind = task[t].kind, p.end = task[t].end, p.id = task[t].id,
           p.kind = "warm" => p.pc \in {"list", "fetch"},
           p.pc \in {"entries", "upload", "switch"} =>
              task[t].pc \in {"entries", "upload", "switch"},
           disk'.filings <= filings, filings' = filings
    PROVE  DurableInv'
  <1>1. Rooted(p, filings)
    BY DEF DurableInv, Rooted
  <1> QED BY <1>1, RootedStep

LEMMA RootedExit ==
    ASSUME TypeInv, DurableInv, NEW t \in Task, Exit(t), disk'.filings <= filings,
           filings' = filings
    PROVE  DurableInv'
  <1>1. Rooted(Idle, filings)
    BY IdleRooted, PublicationConstants DEF TypeInv, TypeOK
  <1> QED BY <1>1, RootedStep DEF Exit

LEMMA RootedDownload ==
    ASSUME TypeInv, DurableInv, NEW t \in Task,
           \/ \E kind, end, pc : /\ pc \in {"list", "pointer"} /\ Started(t, kind, end, pc)
                                 /\ kind = "warm" => pc = "list"
                                 /\ kind # "warm" => end \in Day
           \/ List(t) \/ Fetched(t) \/ ReadPointer(t) \/ Overlaid(t)
    PROVE  DurableInv'
  <1>0. filings \in Nat /\ disk.filings <= filings /\ task[t].seen <= filings
        /\ Rooted(task[t], filings)
    BY PublicationConstants DEF DurableInv, Rooted, TypeInv, TypeOK
  <1>1. ASSUME NEW kind, NEW end, NEW pc \in {"list", "pointer"}, Started(t, kind, end, pc),
               kind = "warm" => pc = "list", kind # "warm" => end \in Day
        PROVE  DurableInv'
    <2> DEFINE p == [Idle EXCEPT !.pc = pc, !.kind = kind, !.end = end]
    <2>1. Rooted(p, filings)
      BY <1>0, <1>1 DEF Rooted, Idle
    <2>2. task' = [task EXCEPT ![t] = p] /\ filings' = filings /\ disk' = disk
      BY <1>1 DEF Started
    <2> HIDE DEF p
    <2> QED BY <1>0, <2>1, <2>2, RootedStep
  <1>2. CASE List(t)
    <2> DEFINE p == [task[t] EXCEPT !.seen = filings, !.listed = checkpoint,
                       !.todo = {ComponentFile(c) : c \in {d \in Component : ~CacheHit(d)}},
                       !.pc = "fetch"]
    <2>1. /\ p.seen <= filings /\ p.kind = task[t].kind /\ p.end = task[t].end
          /\ p.id = task[t].id /\ p.pc = "fetch"
      BY <1>0 DEF TypeInv, TypeOK, Program
    <2>2. task' = [task EXCEPT ![t] = p] /\ filings' = filings /\ disk' = disk
          /\ task[t].pc # "idle"
      BY <1>2 DEF List, At
    <2> HIDE DEF p
    <2> QED BY <1>0, <2>1, <2>2, RootedGo
  <1>3. CASE Fetched(t)
    <2>1. disk'.filings <= filings /\ filings' = filings
      BY <1>0, <1>3 DEF Fetched, TypeInv, TypeOK, Disk
    <2>2. CASE task[t].kind = "warm"
      BY <1>3, <2>1, <2>2, RootedExit DEF Fetched
    <2>3. CASE task[t].kind # "warm"
      <3> DEFINE p == [task[t] EXCEPT !.pc = "pointer"]
      <3>1. /\ p.seen <= filings /\ p.kind = task[t].kind /\ p.end = task[t].end
            /\ p.id = task[t].id /\ p.pc = "pointer"
        BY <1>0 DEF TypeInv, TypeOK, Program
      <3>2. task' = [task EXCEPT ![t] = p] /\ task[t].pc # "idle"
        BY <1>3, <2>3 DEF Fetched, Go, At
      <3> HIDE DEF p
      <3> QED BY <2>1, <2>3, <3>1, <3>2, RootedGo
    <2> QED BY <2>2, <2>3
  <1>4. CASE ReadPointer(t)
    <2> DEFINE p == [task[t] EXCEPT !.previous = pointer, !.listed = NoManifests, !.seen = 0,
                       !.todo = IF pointer = NoVersion THEN {} ELSE Fixed, !.pc = "overlay"]
    <2>1. /\ p.seen <= filings /\ p.kind = task[t].kind /\ p.end = task[t].end
          /\ p.id = task[t].id /\ p.pc = "overlay"
      BY <1>0 DEF TypeInv, TypeOK, Program
    <2>2. task' = [task EXCEPT ![t] = p] /\ filings' = filings /\ disk' = disk
          /\ task[t].pc = "pointer"
      BY <1>4 DEF ReadPointer, At
    <2>3. task[t].kind # "warm"
      BY <1>0, <2>2 DEF Rooted
    <2> HIDE DEF p
    <2> QED BY <1>0, <2>1, <2>2, <2>3, RootedGo
  <1>5. CASE Overlaid(t)
    <2>1. CASE task[t].kind = "restore"
      BY <1>0, <1>5, <2>1, RootedExit DEF Overlaid
    <2>2. CASE task[t].kind # "restore"
      <3> DEFINE p == [task[t] EXCEPT !.pc = "component"]
      <3>1. /\ p.seen <= filings /\ p.kind = task[t].kind /\ p.end = task[t].end
            /\ p.id = task[t].id /\ p.pc = "component"
        BY <1>0 DEF TypeInv, TypeOK, Program
      <3>2. task' = [task EXCEPT ![t] = p] /\ filings' = filings /\ disk' = disk
            /\ task[t].pc = "overlay"
        BY <1>5, <2>2 DEF Overlaid, Go, At
      <3>3. task[t].kind # "warm"
        BY <1>0, <3>2 DEF Rooted
      <3> HIDE DEF p
      <3> QED BY <1>0, <3>1, <3>2, <3>3, RootedGo
    <2> QED BY <2>1, <2>2
  <1> QED BY <1>1, <1>2, <1>3, <1>4, <1>5

LEMMA RootedComponent ==
    ASSUME TypeInv, DurableInv, NEW t \in Task,
           \/ Reuse(t) \/ Collect(t) \/ Paths(t) \/ Head(t)
           \/ FenceCheckpoint(t) \/ PutCheckpoint(t)
    PROVE  DurableInv'
  <1>0. filings \in Nat /\ disk.filings <= filings /\ task[t].seen <= filings
        /\ Rooted(task[t], filings)
    BY PublicationConstants DEF DurableInv, Rooted, TypeInv, TypeOK
  <1>1. disk'.filings = disk.filings /\ filings' = filings
    BY DEF Reuse, Collect, Paths, Head, FenceCheckpoint, PutCheckpoint, TypeInv, TypeOK, Disk
  <1>2. task[t].pc \in {"component", "paths", "head", "leaves", "checkpoint"}
    BY DEF Reuse, Collect, Paths, Head, FenceCheckpoint, PutCheckpoint, At
  <1>3. task[t].kind # "warm"
    BY <1>0, <1>2 DEF Rooted
  <1>4. ASSUME NEW p, task' = [task EXCEPT ![t] = p], p.seen = task[t].seen,
               p.kind = task[t].kind, p.end = task[t].end, p.id = task[t].id,
               p.pc \in {"component", "build", "paths", "head", "leaves", "checkpoint"}
        PROVE  DurableInv'
    BY <1>0, <1>1, <1>2, <1>3, <1>4, RootedGo
  <1>5. CASE Advanced(t)
    <2> DEFINE p == [task[t] EXCEPT !.etag = NoVersion,
                 !.comp = IF @ = Components THEN 1 ELSE @ + 1,
                 !.pc = IF task[t].comp = Components THEN "build" ELSE "component"]
    <2>1. /\ p.seen = task[t].seen /\ p.kind = task[t].kind /\ p.end = task[t].end
          /\ p.id = task[t].id /\ p.pc \in {"component", "build"}
      BY DEF TypeInv, TypeOK, Program
    <2>2. task' = [task EXCEPT ![t] = p]
      BY <1>5 DEF Advanced
    <2> HIDE DEF p
    <2> QED BY <1>4, <2>1, <2>2
  <1>6. ASSUME NEW pc \in {"paths", "checkpoint"}, Go(t, pc) PROVE DurableInv'
    <2> DEFINE p == [task[t] EXCEPT !.pc = pc]
    <2>1. /\ p.seen = task[t].seen /\ p.kind = task[t].kind /\ p.end = task[t].end
          /\ p.id = task[t].id /\ p.pc = pc
      BY DEF TypeInv, TypeOK, Program
    <2>2. task' = [task EXCEPT ![t] = p]
      BY <1>6 DEF Go
    <2> HIDE DEF p
    <2> QED BY <1>4, <1>6, <2>1, <2>2
  <1>7. CASE Paths(t)
    <2> DEFINE p == [task[t] EXCEPT !.todo = LeavesOf(task[t].comp, disk.body[Current(t)]),
                                    !.pc = "head"]
    <2>1. /\ p.seen = task[t].seen /\ p.kind = task[t].kind /\ p.end = task[t].end
          /\ p.id = task[t].id /\ p.pc = "head"
      BY DEF TypeInv, TypeOK, Program
    <2>2. task' = [task EXCEPT ![t] = p]
      BY <1>7 DEF Paths
    <2> HIDE DEF p
    <2> QED BY <1>4, <2>1, <2>2
  <1>8. CASE Head(t)
    <2> DEFINE p == [task[t] EXCEPT !.etag = checkpoint[task[t].comp], !.pc = "leaves"]
    <2>1. /\ p.seen = task[t].seen /\ p.kind = task[t].kind /\ p.end = task[t].end
          /\ p.id = task[t].id /\ p.pc = "leaves"
      BY DEF TypeInv, TypeOK, Program
    <2>2. task' = [task EXCEPT ![t] = p]
      BY <1>8 DEF Head
    <2> HIDE DEF p
    <2> QED BY <1>4, <2>1, <2>2
  <1> QED BY <1>5, <1>6, <1>7, <1>8 DEF Reuse, Collect, FenceCheckpoint, PutCheckpoint

LEMMA RootedPublish ==
    ASSUME TypeInv, DurableInv, NEW t \in Task,
           Build(t) \/ Entries(t) \/ FencePointer(t) \/ SwitchPointer(t)
    PROVE  DurableInv'
  <1>0. filings \in Nat /\ disk.filings <= filings /\ task[t].seen <= filings
        /\ Rooted(task[t], filings)
    BY PublicationConstants DEF DurableInv, Rooted, TypeInv, TypeOK
  <1>1. disk'.filings = disk.filings /\ filings' = filings
    BY DEF Build, Entries, FencePointer, SwitchPointer, TypeInv, TypeOK, Disk
  <1>2. task[t].pc \in {"build", "entries", "upload", "switch"}
    BY DEF Build, Entries, FencePointer, SwitchPointer, At
  <1>3. task[t].kind # "warm"
    BY <1>0, <1>2 DEF Rooted
  <1>4. CASE Exit(t)
    BY <1>0, <1>1, <1>4, RootedExit
  <1>5. CASE Build(t) /\ task[t].kind # "inherit"
    <2> DEFINE p == [task[t] EXCEPT !.id = Wanted(t), !.pc = "entries"]
    <2>1. task[t].end \in Day
      BY <1>0, <1>2, <1>3 DEF Rooted
    <2>2. Rooted(p, filings)
      BY <1>0, <1>3, <2>1 DEF Rooted, Wanted, TypeInv, TypeOK, Program
    <2>3. task' = [task EXCEPT ![t] = p]
      BY <1>5 DEF Build
    <2> HIDE DEF p
    <2> QED BY <1>0, <1>1, <2>2, <2>3, RootedStep
  <1>6. CASE Entries(t)
    <2> DEFINE p == [task[t] EXCEPT !.todo = FilesOf(task[t].id), !.pc = "upload"]
    <2>1. /\ p.seen = task[t].seen /\ p.kind = task[t].kind /\ p.end = task[t].end
          /\ p.id = task[t].id /\ p.pc = "upload"
      BY DEF TypeInv, TypeOK, Program
    <2>2. task' = [task EXCEPT ![t] = p] /\ task[t].pc = "entries"
      BY <1>6 DEF Entries, At
    <2> HIDE DEF p
    <2> QED BY <1>0, <1>1, <1>3, <2>1, <2>2, RootedGo
  <1>7. CASE FencePointer(t)
    <2> DEFINE p == [task[t] EXCEPT !.pc = "switch"]
    <2>1. /\ p.seen = task[t].seen /\ p.kind = task[t].kind /\ p.end = task[t].end
          /\ p.id = task[t].id /\ p.pc = "switch"
      BY DEF TypeInv, TypeOK, Program
    <2>2. task' = [task EXCEPT ![t] = p] /\ task[t].pc = "upload"
      BY <1>7 DEF FencePointer, At, Go
    <2> HIDE DEF p
    <2> QED BY <1>0, <1>1, <1>3, <2>1, <2>2, RootedGo
  <1> QED BY <1>4, <1>5, <1>6, <1>7 DEF Build, SwitchPointer

LEMMA RootedPool ==
    ASSUME TypeInv, DurableInv, NEW t \in Task, NEW f \in task[t].todo, StepOf(t, f)
    PROVE  DurableInv'
  <1>0. filings \in Nat /\ disk.filings <= filings /\ Rooted(task[t], filings)
    BY PublicationConstants DEF DurableInv, TypeInv, TypeOK
  <1>1. Finish(t, f) /\ filings' = filings
    BY DEF StepOf, Fetch, Overlay, PublishLeaf, KeepObject, CopyObject, SendObject,
           AcceptObject, Uploading
  <1>2. disk'.filings = disk.filings
    BY DEF StepOf, Fetch, Overlay, PublishLeaf, KeepObject, CopyObject, SendObject,
           AcceptObject, Uploading, TypeInv, TypeOK, Disk
  <1> DEFINE p == [task[t] EXCEPT !.todo = @ \ {f}]
  <1>3. Rooted(p, filings)
    BY <1>0 DEF Rooted, TypeInv, TypeOK, Program
  <1> QED BY <1>0, <1>1, <1>2, <1>3, RootedStep DEF Finish

LEMMA DurableNext == TypeInv /\ DurableInv /\ [Next]_vars => DurableInv'
  <1> SUFFICES ASSUME TypeInv, DurableInv, [Next]_vars PROVE DurableInv'
    OBVIOUS
  <1>0. disk.filings <= filings
    BY DEF DurableInv
  <1>1. CASE NewFiling
    <2>1. filings \in Nat /\ disk.filings \in Nat /\ \A t \in Task : task[t].seen \in Nat
      BY PublicationConstants, Numbers DEF TypeInv, TypeOK
    <2>2. filings' = filings + 1 /\ disk' = disk /\ task' = task
      BY <1>1 DEF NewFiling
    <2> QED BY <2>1, <2>2 DEF DurableInv, Rooted
  <1>2. ASSUME NEW t \in Task, NEW end \in Day,
               (\E kind \in Kinds : Prepare(t, kind, end)) \/ Restore(t, end)
        PROVE  DurableInv'
    <2>1. ASSUME NEW kind, Prepare(t, kind, end) PROVE DurableInv'
      <3>1. kind # "warm" /\ Started(t, kind, end, "list")
        BY <2>1 DEF Prepare
      <3> QED BY <3>1, RootedDownload
    <2>2. CASE Restore(t, end)
      <3>1. Started(t, "restore", end, "pointer")
        BY <2>2 DEF Restore
      <3> QED BY <3>1, RootedDownload
    <2> QED BY <1>2, <2>1, <2>2
  <1>3. ASSUME NEW t \in Task, Warm(t) PROVE DurableInv'
    <2>1. Started(t, "warm", 0, "list")
      BY <1>3 DEF Warm
    <2> QED BY <2>1, RootedDownload
  <1>4. ASSUME NEW t \in Task, Step(t) PROVE DurableInv'
    <2>1. CASE Raise(t)
      BY <1>0, <2>1, RootedExit DEF Raise
    <2> QED BY <1>4, <2>1, RootedDownload, RootedComponent, RootedPublish, RootedPool DEF Step
  <1>5. ASSUME NEW t \in Task, Stop(t) PROVE DurableInv'
    BY <1>0, <1>5, RootedExit DEF Stop
  <1>6. ASSUME NEW t \in Task, LoseSession(t) PROVE DurableInv'
    BY <1>6 DEF LoseSession, DurableInv
  <1>7. CASE UNCHANGED vars
    BY <1>7 DEF vars, DurableInv
  <1> QED BY <1>1, <1>2, <1>3, <1>4, <1>5, <1>6, <1>7 DEF Next

LEMMA DurableInit == Init => DurableInv
  BY PublicationConstants, IdleRooted DEF Init, DurableInv, Rooted, Idle

-----------------------------------------------------------------------------
(* What a reader gets is the published snapshot or a refusal, and the      *)
(* snapshot itself while tasks do not overlap.                             *)
LEMMA Answers ==
    /\ restored \in {pointer, Snapshot!Damaged}
    /\ NamedInv => overlapped \/ restored = pointer
  <1>1. restored \in {pointer, Snapshot!Damaged}
    BY DEF restored, refused, Snapshot!Damaged
  <1>2. NamedInv => overlapped \/ restored = pointer
    BY DEF NamedInv, Orderly, PointerIn, Intact, restored
  <1> QED BY <1>1, <1>2

(* Only a start can overlap with another task, and it touches nothing.     *)
LEMMA OverlapStays ==
    ASSUME TypeInv, [Next]_vars
    PROVE  \/ overlapped' = overlapped
           \/ overlapped' = TRUE /\ UNCHANGED <<filings, bundles, pointer>>
  <1>1. ASSUME NEW t \in Task, NEW f, StepOf(t, f) PROVE overlapped' = overlapped
    BY <1>1 DEF StepOf, Fetch, Overlay, PublishLeaf, KeepObject, CopyObject,
                SendObject, AcceptObject, Uploading
  <1>2. ASSUME NEW t \in Task, Step(t) PROVE overlapped' = overlapped
    BY <1>1, <1>2 DEF Step, List, Fetched, ReadPointer, Overlaid, Reuse, Collect,
                Paths, Head, FenceCheckpoint, PutCheckpoint, Build, Entries,
                FencePointer, SwitchPointer, Raise
  <1>3. ASSUME NEW t \in Task, NEW kind, NEW end, NEW pc, Started(t, kind, end, pc)
        PROVE  \/ overlapped' = overlapped
               \/ overlapped' = TRUE /\ UNCHANGED <<filings, bundles, pointer>>
    BY <1>3 DEF Started, s3, TypeInv, TypeOK
  <1>4. CASE NewFiling \/ UNCHANGED vars \/ \E t \in Task : Stop(t) \/ LoseSession(t)
    BY <1>4 DEF NewFiling, vars, Stop, LoseSession
  <1>5. ASSUME NEW t \in Task, NEW end, NEW kind, Prepare(t, kind, end) \/ Restore(t, end) \/ Warm(t)
        PROVE  \/ overlapped' = overlapped
               \/ overlapped' = TRUE /\ UNCHANGED <<filings, bundles, pointer>>
    BY <1>3, <1>5 DEF Prepare, Restore, Warm
  <1> QED BY <1>2, <1>4, <1>5 DEF Next

(* Only NewFiling makes a filing durable.                                  *)
LEMMA FilingsStay ==
    ASSUME [Next]_vars, ~NewFiling
    PROVE  filings' = filings
  <1>1. ASSUME NEW t \in Task, Step(t) PROVE filings' = filings
    <2>1. ASSUME NEW f, StepOf(t, f) PROVE filings' = filings
      BY <2>1 DEF StepOf, Fetch, Overlay, PublishLeaf, KeepObject, CopyObject,
                  SendObject, AcceptObject, Uploading
    <2> QED BY <1>1, <2>1 DEF Step, List, Fetched, ReadPointer, Overlaid, Reuse, Collect,
                  Paths, Head, FenceCheckpoint, PutCheckpoint, Build, Entries,
                  FencePointer, SwitchPointer, Raise
  <1> QED BY <1>1 DEF Next, Prepare, Restore, Warm, Started, Stop, LoseSession, vars

(* What the tasks switch the pointer to may follow what it was.            *)
LEMMA SwitchSucceeds ==
    ASSUME TypeInv, MonoInv, DurableInv, NEW t \in Task, SwitchPointer(t)
    PROVE  pointer' \in Snapshot!Successors
  <1>1. Forward(task[t], disk.filings) /\ Rooted(task[t], filings) /\ task[t].pc = "switch"
    BY DEF MonoInv, DurableInv, SwitchPointer, At
  <1>2. pointer = task[t].previous /\ pointer' = task[t].id
    BY DEF SwitchPointer
  <1>3. /\ task[t].previous \in Version /\ task[t].id \in Version
        /\ task[t].id.end \in 1 .. LastDay
    BY <1>1 DEF TypeInv, TypeOK, Program, Rooted, Day
  <1>4. task[t].id.filings <= filings
    <2>1. task[t].id.filings \in Nat /\ disk.filings \in Nat /\ filings \in Nat
      BY Numbers, PublicationConstants DEF TypeInv, TypeOK
    <2> QED BY <1>1, <2>1 DEF Forward, DurableInv
  <1>5. pointer' \in [end : 1 .. LastDay, filings : 0 .. MaxFilings]
    BY <1>2, <1>3 DEF Version
  <1> QED BY <1>1, <1>2, <1>4, <1>5 DEF Forward, Snapshot!Successors

(* The disks, pools, checkpoints and bundles of any number of tasks, which *)
(* overlap, stop and lose their sessions, implement the published snapshot *)
(* that readers rely on: it covers ever more, rests on durable filings     *)
(* only, and while tasks follow each other it is published whole and stays *)
(* as it is (_publish_generated_snapshot, _put_immutable_snapshot_object). *)
THEOREM Refinement == Spec => ImplementsActionSnapshot
  <1> DEFINE Inv == TypeInv /\ MonoInv /\ NamedInv /\ DurableInv
  <1>1. Init => Inv
    BY TypeInit, MonoInit, NamedInit, DurableInit
  <1>2. Inv /\ [Next]_vars => Inv'
    BY TypeNext, MonoNext, NamedNext, DurableNext
  <1>3. Init => Snapshot!Init
    BY DEF Init, Snapshot!Init, Snapshot!Nothing, restored, NoVersion
  <1>4. Inv /\ Inv' /\ [Next]_vars => [Snapshot!Next]_(Snapshot!vars)
    <2> SUFFICES ASSUME Inv, Inv', [Next]_vars
                 PROVE  Snapshot!Next \/ UNCHANGED <<filings, pointer, restored, ~overlapped>>
      BY DEF Snapshot!vars
    <2>0. /\ restored \in {pointer, Snapshot!Damaged} /\ (overlapped \/ restored = pointer)
          /\ restored' \in {pointer', Snapshot!Damaged} /\ (overlapped' \/ restored' = pointer')
      <3>1. restored' \in {pointer', Snapshot!Damaged}
        BY DEF restored, refused, Snapshot!Damaged
      <3>2. NamedInv' => overlapped' \/ restored' = pointer'
        BY DEF NamedInv, Orderly, PointerIn, Intact, restored
      <3> QED BY <3>1, <3>2, Answers
    <2>b. overlapped \in BOOLEAN /\ overlapped' \in BOOLEAN
      BY DEF TypeInv, TypeOK
    <2>1. ASSUME overlapped' # overlapped PROVE Snapshot!Next
      <3>1. overlapped' = TRUE /\ UNCHANGED <<filings, bundles, pointer>>
        BY <2>1, OverlapStays
      <3>2. restored' = restored
        BY <3>1 DEF restored, refused, Intact
      <3> QED BY <3>1, <3>2 DEF Snapshot!Next, Snapshot!Overlap
    <2>2. CASE NewFiling
      <3>1. /\ filings < MaxFilings /\ filings' = filings + 1
            /\ UNCHANGED <<pointer, bundles, overlapped>>
        BY <2>2 DEF NewFiling, s3
      <3>2. restored' = restored
        BY <3>1 DEF restored, refused, Intact
      <3> QED BY <3>1, <3>2 DEF Snapshot!Next, Snapshot!File
    <2>3. ASSUME NEW t \in Task, SwitchPointer(t), overlapped' = overlapped
          PROVE  Snapshot!Next
      <3>1. pointer' \in Snapshot!Successors
        BY <2>3, SwitchSucceeds
      <3>2. filings' = filings
        BY <2>3 DEF SwitchPointer
      <3>3. Snapshot!Publish
        BY <2>0, <2>3, <3>1, <3>2 DEF Snapshot!Publish
      <3> QED BY <3>3 DEF Snapshot!Next
    <2>4. ASSUME overlapped' = overlapped, filings' = filings, pointer' = pointer
          PROVE  Snapshot!Next \/ UNCHANGED <<filings, pointer, restored, ~overlapped>>
      <3>1. CASE overlapped
        BY <2>0, <2>4, <3>1 DEF Snapshot!Next, Snapshot!Touch
      <3>2. CASE ~overlapped
        BY <2>0, <2>4, <3>2
      <3> QED BY <3>1, <3>2
    <2> QED BY <2>1, <2>2, <2>3, <2>4, FilingsStay, PointerStays
  <1> QED BY <1>1, <1>2, <1>3, <1>4, PTL DEF Spec, ImplementsActionSnapshot, Snapshot!Spec
=============================================================================
