------------------------- MODULE SnapshotPublication -------------------------
(***************************************************************************)
(* How the generated DART action snapshot gets from the disk of a task     *)
(* into S3: the retry checkpoints of its components, the immutable bundle  *)
(* and the one mutable pointer.                                            *)
(*                                                                         *)
(*   pipeline/dart_silver_backfill_ecs.py   prepare_total_return_snapshot  *)
(*       and what it calls, restore_published_total_return_snapshot        *)
(*   pipeline/dart_snapshot_cache_warm.py   the cache warmer               *)
(*                                                                         *)
(* The disk is a file system that all tasks mount; it outlives them.  A    *)
(* generated file is determined by the day it covers and by the official   *)
(* filings it was made from: its version.  Component manifests and the     *)
(* action manifest live at fixed paths; leaves have the hash of their      *)
(* content in their path, and a leaf that was once on the disk stays.      *)
(***************************************************************************)
EXTENDS Naturals

CONSTANTS
    Task,          \* ECS task invocations
    NoTask,        \* owner of a free epoch lock
    LastDay,       \* the last day a snapshot may cover
    Components,    \* number of generated components, collected in order
    MaxFilings,    \* bound: official filings
    Kinds,         \* the entry points in use
    MaxFaults,     \* bound: how many times a task stops or loses its session
    SessionLoss    \* whether PostgreSQL sessions may die under a live process

ASSUME PublicationConstants ==
    /\ NoTask \notin Task
    /\ LastDay \in Nat
    /\ Components \in Nat \ {0}
    /\ MaxFilings \in Nat
    /\ Kinds \subseteq {"publish", "inherit", "restore", "warm"}
    /\ MaxFaults \in Nat
    /\ SessionLoss \in BOOLEAN

VARIABLES
    epochLock,  \* owner of DAILY_CERTIFICATION_LOCK_KEY
    filings,    \* official filings durable in Bronze
    disk,       \* the shared file system
    checkpoint, \* component manifests at their own keys in S3
    leaves,     \* leaf bodies at their own keys in S3
    bundles,    \* objects of the bundles in S3: version, file, body
    pointer,    \* quality/dart-total-return-snapshots/current.json
    task,       \* the program of every task
    faults,     \* stops and lost sessions so far
    overlapped  \* two tasks have been at work at the same time

s3   == <<checkpoint, leaves, bundles, pointer>>
vars == <<epochLock, filings, disk, s3, task, faults, overlapped>>

Day       == 1..LastDay
Filing    == 1..MaxFilings
Component == 1..Components

(* NoVersion stands for a file that does not exist.                        *)
Version   == [end : 0..LastDay, filings : 0..MaxFilings]
NoVersion == [end |-> 0, filings |-> 0]

ActionFile       == [kind |-> "action", of |-> 0, filing |-> 0]
ComponentFile(c) == [kind |-> "component", of |-> c, filing |-> 0]
Leaf(c, k)       == [kind |-> "leaf", of |-> c, filing |-> k]

File == [kind : {"action", "component", "leaf"}, of : 0..Components,
         filing : 0..MaxFilings]

(* The files at fixed paths; the leaves of a component manifest; all files *)
(* of a snapshot.                                                          *)
Fixed          == {ActionFile} \cup {ComponentFile(c) : c \in Component}
LeavesOf(c, v) == {Leaf(c, k) : k \in 1..v.filings}
FilesOf(v)     == Fixed \cup UNION {LeavesOf(c, v) : c \in Component}

Manifests   == [Component -> Version]
NoManifests == [c \in Component |-> NoVersion]

(* `filings` are the Bronze objects on the disk, `body` the generated      *)
(* files, `index` what the cache index says of the component manifests.    *)
Disk == [filings : 0..MaxFilings, body : [Fixed -> Version], index : Manifests]

Idle == [pc |-> "idle", kind |-> "none", end |-> 0, seen |-> 0,
         listed |-> NoManifests, comp |-> 1, previous |-> NoVersion,
         etag |-> NoVersion, id |-> NoVersion, todo |-> {}]

(* `seen` and `listed` are the LIST result, `previous` and `etag` the      *)
(* pointer and the checkpoint the task has read, `id` the snapshot it has  *)
(* built, `todo` the files its thread pool has not finished.               *)
Program ==
    [pc : {"idle", "list", "fetch", "pointer", "overlay", "component", "paths",
           "head", "leaves", "checkpoint", "build", "entries", "upload",
           "switch"},
     kind : {"none", "publish", "inherit", "restore", "warm"},
     end : 0..LastDay, seen : 0..MaxFilings, listed : Manifests,
     comp : Component, previous : Version, etag : Version, id : Version,
     todo : SUBSET File]

Init ==
    /\ epochLock = NoTask
    /\ filings = 0
    /\ disk = [filings |-> 0, body |-> [f \in Fixed |-> NoVersion],
               index |-> NoManifests]
    /\ checkpoint = NoManifests
    /\ leaves = {}
    /\ bundles = {}
    /\ pointer = NoVersion
    /\ task = [t \in Task |-> Idle]
    /\ faults = 0
    /\ overlapped = FALSE

-----------------------------------------------------------------------------
(* assert_daily_certification_lock *)
Owns(t) == epochLock = t

At(t, pc) == task[t].pc = pc

Go(t, pc) == task' = [task EXCEPT ![t].pc = pc]

(* The task returns or raises; it frees the epoch only if it has it.       *)
Exit(t) ==
    /\ task' = [task EXCEPT ![t] = Idle]
    /\ epochLock' = IF Owns(t) THEN NoTask ELSE epochLock

(* The thread pool of the task finishes f. *)
Finish(t, f) == task' = [task EXCEPT ![t].todo = @ \ {f}]

(* The file of the component the task is at, and the version it wants.     *)
Current(t) == ComponentFile(task[t].comp)
Wanted(t)  == [end |-> task[t].end, filings |-> disk.filings]

(* _generated_snapshot_paths: every body hashes as snapshot v says.        *)
Verified(v) == \A f \in Fixed : disk.body[f] = v

(* What the body of a file of snapshot v should be, and the one on the     *)
(* disk; a leaf has only one.                                              *)
BodyOf(v, f) == IF f.kind = "leaf" THEN NoVersion ELSE v
DiskBody(f)  == IF f.kind = "leaf" THEN NoVersion ELSE disk.body[f]

Stored(v, f) == \E b \in Version : <<v, f, b>> \in bundles
Intact(v, f) == <<v, f, BodyOf(v, f)>> \in bundles

(* Days and hashes have a fixed width: two versions of a component         *)
(* manifest have the same length when they name the same filings.          *)
SameLength(b, c) == b = c \/ (b # NoVersion /\ b.filings = c.filings)

(* What a PUT of f sends when its entry says snapshot v: ContentLength is  *)
(* that of the entry, the body is read from the disk.                      *)
Sendable(v, f) ==
    \/ DiskBody(f) = BodyOf(v, f)
    \/ f.kind = "component" /\ SameLength(DiskBody(f), v)

(* cache_hit: ETag and size of the LIST, and the size of the file.         *)
CacheHit(c) ==
    \/ checkpoint[c] = NoVersion
    \/ /\ disk.index[c] = checkpoint[c]
       /\ SameLength(disk.body[ComponentFile(c)], checkpoint[c])

-----------------------------------------------------------------------------
(* The DART collector stores a new filing in Bronze.                       *)
NewFiling ==
    /\ filings < MaxFilings
    /\ filings' = filings + 1
    /\ UNCHANGED <<epochLock, disk, s3, task, faults, overlapped>>

Started(t, kind, end, pc) ==
    /\ kind \in Kinds
    /\ At(t, "idle")
    /\ task' = [task EXCEPT ![t] = [Idle EXCEPT !.pc = pc, !.kind = kind, !.end = end]]
    /\ overlapped' = (overlapped \/ \E u \in Task : ~At(u, "idle"))
    /\ UNCHANGED <<filings, disk, s3, faults>>

(* acquire_daily_certification_lock *)
Acquire(t) == epochLock = NoTask /\ epochLock' = t

(* prepare_total_return_snapshot, with and without publish.                *)
Prepare(t, kind, end) ==
    kind \in {"publish", "inherit"} /\ Acquire(t) /\ Started(t, kind, end, "list")

(* restore_published_total_return_snapshot *)
Restore(t, end) == Acquire(t) /\ Started(t, "restore", end, "pointer")

(* dart_snapshot_cache_warm.run takes no lock.                             *)
Warm(t) == Started(t, "warm", 0, "list") /\ UNCHANGED epochLock

-----------------------------------------------------------------------------
(* _list_objects, and which component manifests are not in the cache.      *)
List(t) ==
    /\ At(t, "list")
    /\ task' = [task EXCEPT
         ![t].seen = filings,
         ![t].listed = checkpoint,
         ![t].todo = {ComponentFile(c) : c \in {d \in Component : ~CacheHit(d)}},
         ![t].pc = "fetch"]
    /\ UNCHANGED <<epochLock, filings, disk, s3, faults, overlapped>>

(* _download_changed: the body is read from S3 some time between the LIST  *)
(* and the replacement of the file, and has to have the size listed.       *)
Readable(t, f) ==
    {b \in {task[t].listed[f.of], checkpoint[f.of]} : SameLength(b, task[t].listed[f.of])}

Fetch(t, f) ==
    /\ At(t, "fetch")
    /\ f \in task[t].todo
    /\ \E b \in Readable(t, f) : disk' = [disk EXCEPT !.body[f] = b]
    /\ Finish(t, f)
    /\ UNCHANGED <<epochLock, filings, s3, faults, overlapped>>

(* ... then the cache index is replaced.                                   *)
Fetched(t) ==
    /\ At(t, "fetch")
    /\ task[t].todo = {}
    /\ disk' = [disk EXCEPT
         !.filings = IF task[t].seen > @ THEN task[t].seen ELSE @,
         !.index = task[t].listed]
    /\ IF task[t].kind = "warm" THEN Exit(t)
       ELSE Go(t, "pointer") /\ UNCHANGED epochLock
    /\ UNCHANGED <<filings, s3, faults, overlapped>>

(* _restore_published_snapshot reads the pointer,                          *)
ReadPointer(t) ==
    /\ At(t, "pointer")
    /\ task[t].kind = "restore" => pointer # NoVersion
    /\ task' = [task EXCEPT
         ![t].previous = pointer,
         ![t].listed = NoManifests,
         ![t].seen = 0,
         ![t].todo = IF pointer = NoVersion THEN {} ELSE Fixed,
         ![t].pc = "overlay"]
    /\ UNCHANGED <<epochLock, filings, disk, s3, faults, overlapped>>

(* then its objects: a file that hashes as the pointer says is kept, any   *)
(* other is downloaded, hashed and put in its place.                       *)
Restorable(v, f) == disk.body[f] = v \/ Intact(v, f)

Overlay(t, f) ==
    /\ At(t, "overlay")
    /\ f \in task[t].todo
    /\ Restorable(task[t].previous, f)
    /\ disk' = [disk EXCEPT !.body[f] = task[t].previous]
    /\ Finish(t, f)
    /\ UNCHANGED <<epochLock, filings, s3, faults, overlapped>>

Overlaid(t) ==
    /\ At(t, "overlay")
    /\ task[t].todo = {}
    /\ IF task[t].kind = "restore"
       THEN task[t].previous.end = task[t].end /\ Exit(t)
       ELSE Go(t, "component") /\ UNCHANGED epochLock
    /\ UNCHANGED <<filings, disk, s3, faults, overlapped>>

-----------------------------------------------------------------------------
(* Seeded error: the counter runs past the last component.                 *)
AdvancedPast(t) ==
    task' = [task EXCEPT
      ![t].etag = NoVersion,
      ![t].comp = @ + 1,
      ![t].pc = IF task[t].comp = Components THEN "build" ELSE "component"]

(* The component is done; the next one, or the build.                      *)
Advanced(t) ==
    task' = [task EXCEPT
      ![t].etag = NoVersion,
      ![t].comp = IF @ = Components THEN 1 ELSE @ + 1,
      ![t].pc = IF task[t].comp = Components THEN "build" ELSE "component"]

(* verify_viewer_corrections, verify_support_action_families               *)
Reuse(t) ==
    /\ At(t, "component")
    /\ disk.body[Current(t)] = Wanted(t)
    /\ Advanced(t)
    /\ UNCHANGED <<epochLock, filings, disk, s3, faults, overlapped>>

(* collect_viewer_corrections, collect_support_action_families             *)
Collect(t) ==
    /\ At(t, "component")
    /\ disk.body[Current(t)] # Wanted(t)
    /\ disk' = [disk EXCEPT !.body[Current(t)] = Wanted(t)]
    /\ Go(t, "paths")
    /\ UNCHANGED <<epochLock, filings, s3, faults, overlapped>>

(* _component_paths: the leaves that the manifest on the disk names.       *)
Paths(t) ==
    /\ At(t, "paths")
    /\ task' = [task EXCEPT
         ![t].todo = LeavesOf(task[t].comp, disk.body[Current(t)]),
         ![t].pc = "head"]
    /\ UNCHANGED <<epochLock, filings, disk, s3, faults, overlapped>>

(* _publish_component_checkpoint: HEAD of the manifest's key,              *)
Head(t) ==
    /\ At(t, "head")
    /\ task' = [task EXCEPT ![t].etag = checkpoint[task[t].comp], ![t].pc = "leaves"]
    /\ UNCHANGED <<epochLock, filings, disk, s3, faults, overlapped>>

(* publish_leaf, which accepts a leaf that is there already,               *)
PublishLeaf(t, f) ==
    /\ At(t, "leaves")
    /\ f \in task[t].todo
    /\ leaves' = leaves \cup {f}
    /\ Finish(t, f)
    /\ UNCHANGED <<epochLock, filings, disk, checkpoint, bundles, pointer, faults, overlapped>>

(* Seeded error: the checkpoint does not wait for the leaves.              *)
FenceCheckpointEarly(t) ==
    /\ At(t, "leaves")
    /\ Owns(t)
    /\ Go(t, "checkpoint")
    /\ UNCHANGED <<epochLock, filings, disk, s3, faults, overlapped>>

(* the fence,                                                              *)
FenceCheckpoint(t) ==
    /\ At(t, "leaves")
    /\ task[t].todo = {}
    /\ Owns(t)
    /\ Go(t, "checkpoint")
    /\ UNCHANGED <<epochLock, filings, disk, s3, faults, overlapped>>

(* and the conditional PUT of the manifest as it is on the disk by now.    *)
Unchanged(t) == checkpoint[task[t].comp] = task[t].etag

PutCheckpoint(t) ==
    /\ At(t, "checkpoint")
    /\ Unchanged(t)
    /\ checkpoint' = [checkpoint EXCEPT ![task[t].comp] = disk.body[Current(t)]]
    /\ Advanced(t)
    /\ UNCHANGED <<epochLock, filings, disk, leaves, bundles, pointer, faults, overlapped>>

-----------------------------------------------------------------------------
(* build_snapshot_manifest: verifies the components, writes the action     *)
(* manifest.  Without publish that is all.                                 *)
Buildable(t) == \A c \in Component : disk.body[ComponentFile(c)] = Wanted(t)

Build(t) ==
    /\ At(t, "build")
    /\ Buildable(t)
    /\ disk' = [disk EXCEPT !.body[ActionFile] = Wanted(t)]
    /\ IF task[t].kind = "inherit" THEN Exit(t)
       ELSE /\ task' = [task EXCEPT ![t].id = Wanted(t), ![t].pc = "entries"]
            /\ UNCHANGED epochLock
    /\ UNCHANGED <<filings, s3, faults, overlapped>>

(* Seeded error: any coverage may follow any other.                        *)
PublishableRegressed(t) == Owns(t) /\ Verified(task[t].id)

(* Seeded error: a snapshot of the same day counts as a regression.        *)
PublishableLater(t) ==
    Owns(t) /\ Verified(task[t].id) /\ task[t].previous.end < task[t].id.end

(* _publish_generated_snapshot: the fence, the bodies as the manifest on   *)
(* the disk says, no regression of the coverage.                           *)
Publishable(t) ==
    Owns(t) /\ Verified(task[t].id) /\ task[t].previous.end <= task[t].id.end

Entries(t) ==
    /\ At(t, "entries")
    /\ Publishable(t)
    /\ task' = [task EXCEPT ![t].todo = FilesOf(task[t].id), ![t].pc = "upload"]
    /\ UNCHANGED <<epochLock, filings, disk, s3, faults, overlapped>>

(* Seeded error: the previous entries are looked up by path only.          *)
PriorByPath(t, f) ==
    LET p == task[t].previous IN p # NoVersion /\ f \in FilesOf(p)

(* upload_one.  The entry equals that of the previous pointer,             *)
Prior(t, f) ==
    LET p == task[t].previous IN
    p # NoVersion /\ f \in FilesOf(p) /\ BodyOf(p, f) = BodyOf(task[t].id, f)

Uploading(t, f) ==
    /\ At(t, "upload")
    /\ f \in task[t].todo
    /\ Finish(t, f)
    /\ UNCHANGED <<epochLock, filings, disk, checkpoint, leaves, pointer, faults, overlapped>>

(* and so does the bundle;                                                 *)
KeepObject(t, f) ==
    /\ Prior(t, f) /\ task[t].previous = task[t].id
    /\ Uploading(t, f)
    /\ UNCHANGED bundles

(* or the object is copied from the previous bundle;                       *)
CopyObject(t, f) ==
    \E b \in Version :
      /\ Prior(t, f) /\ task[t].previous # task[t].id
      /\ <<task[t].previous, f, b>> \in bundles
      /\ Uploading(t, f)
      /\ bundles' = {o \in bundles : o[1] # task[t].id \/ o[2] # f}
                      \cup {<<task[t].id, f, b>>}

(* or it is PUT if there is none:                                          *)
SendObject(t, f) ==
    /\ ~Prior(t, f) /\ ~Stored(task[t].id, f)
    /\ Sendable(task[t].id, f)
    /\ Uploading(t, f)
    /\ bundles' = bundles \cup {<<task[t].id, f, DiskBody(f)>>}

(* _put_immutable_snapshot_object accepts one whose length and metadata    *)
(* are those of the entry, which the key implies.                          *)
AcceptObject(t, f) ==
    /\ ~Prior(t, f) /\ Stored(task[t].id, f)
    /\ Uploading(t, f)
    /\ UNCHANGED bundles

FencePointer(t) ==
    /\ At(t, "upload")
    /\ task[t].todo = {}
    /\ Owns(t)
    /\ Go(t, "switch")
    /\ UNCHANGED <<epochLock, filings, disk, s3, faults, overlapped>>

(* The only mutable step: PUT of the pointer if it is still the one read.  *)
SwitchPointer(t) ==
    /\ At(t, "switch")
    /\ pointer = task[t].previous
    /\ pointer' = task[t].id
    /\ Exit(t)
    /\ UNCHANGED <<filings, disk, checkpoint, leaves, bundles, faults, overlapped>>

-----------------------------------------------------------------------------
(* The checks at which a task raises.                                      *)
Refused(t) ==
    LET todo == task[t].todo IN
    \/ /\ At(t, "fetch")
       /\ \E f \in todo : ~SameLength(checkpoint[f.of], task[t].listed[f.of])
    \/ At(t, "pointer") /\ task[t].kind = "restore" /\ pointer = NoVersion
    \/ At(t, "overlay") /\ \E f \in todo : ~Restorable(task[t].previous, f)
    \/ /\ At(t, "overlay") /\ todo = {} /\ task[t].kind = "restore"
       /\ task[t].previous.end # task[t].end
    \/ (At(t, "leaves") \/ At(t, "upload")) /\ todo = {} /\ ~Owns(t)
    \/ At(t, "checkpoint") /\ ~Unchanged(t)
    \/ At(t, "build") /\ ~Buildable(t)
    \/ At(t, "entries") /\ ~Publishable(t)
    \/ /\ At(t, "upload")
       /\ \E f \in todo : ~Prior(t, f) /\ ~Stored(task[t].id, f) /\ ~Sendable(task[t].id, f)
    \/ At(t, "switch") /\ pointer # task[t].previous

Raise(t) ==
    /\ Refused(t)
    /\ Exit(t)
    /\ UNCHANGED <<filings, disk, s3, faults, overlapped>>

(* A crash, or a call that fails.                                          *)
Stop(t) ==
    /\ ~At(t, "idle")
    /\ faults < MaxFaults
    /\ faults' = faults + 1
    /\ Exit(t)
    /\ UNCHANGED <<filings, disk, s3, overlapped>>

(* The session dies, and the advisory lock with it; the task runs on.      *)
LoseSession(t) ==
    /\ SessionLoss
    /\ Owns(t)
    /\ faults < MaxFaults
    /\ faults' = faults + 1
    /\ epochLock' = NoTask
    /\ UNCHANGED <<filings, disk, s3, task, overlapped>>

StepOf(t, f) ==
    \/ Fetch(t, f) \/ Overlay(t, f) \/ PublishLeaf(t, f)
    \/ KeepObject(t, f) \/ CopyObject(t, f) \/ SendObject(t, f) \/ AcceptObject(t, f)

Step(t) ==
    \/ List(t) \/ Fetched(t) \/ ReadPointer(t) \/ Overlaid(t)
    \/ Reuse(t) \/ Collect(t) \/ Paths(t) \/ Head(t)
    \/ FenceCheckpoint(t) \/ PutCheckpoint(t)
    \/ Build(t) \/ Entries(t) \/ FencePointer(t) \/ SwitchPointer(t)
    \/ Raise(t)
    \/ \E f \in task[t].todo : StepOf(t, f)

Next ==
    \/ NewFiling
    \/ \E t \in Task :
         \/ \E end \in Day :
              \/ \E kind \in Kinds : Prepare(t, kind, end)
              \/ Restore(t, end)
         \/ Warm(t)
         \/ Step(t)
         \/ Stop(t)
         \/ LoseSession(t)

Spec == Init /\ [][Next]_vars

(* A live task runs on; a day without a published snapshot is tried again. *)
Fairness ==
    /\ \A t \in Task : WF_vars(Step(t))
    /\ SF_vars(\E t \in Task : Prepare(t, "publish", LastDay))

FairSpec == Spec /\ Fairness

-----------------------------------------------------------------------------
TypeOK ==
    /\ epochLock \in Task \cup {NoTask}
    /\ filings \in 0..MaxFilings
    /\ disk \in Disk
    /\ checkpoint \in Manifests
    /\ leaves \subseteq File
    /\ bundles \subseteq Version \X File \X Version
    /\ pointer \in Version
    /\ task \in [Task -> Program]
    /\ faults \in 0..MaxFaults
    /\ overlapped \in BOOLEAN

(* Whatever tasks stop, overlap or lose their session, the published       *)
(* pointer never goes back to an earlier day or to fewer filings           *)
(* (compare-and-swap of current.json on the ETag that was read before the  *)
(* bundle was built).                                                      *)
PointerMonotone ==
    [][/\ pointer'.end >= pointer.end
       /\ pointer'.filings >= pointer.filings]_vars

(* While no two tasks were at work at once, a component manifest at its    *)
(* key in S3 names only leaves that are in S3, wherever its task stopped   *)
(* (leaves first, then the checkpoint).                                    *)
CheckpointComplete ==
    overlapped \/ \A c \in Component : LeavesOf(c, checkpoint[c]) \subseteq leaves

(* While no two tasks were at work at once, every file of the published    *)
(* snapshot is in its bundle with the body its entry promises: a bundle    *)
(* that an earlier task left half written is completed, not trusted.       *)
PointerIntact ==
    overlapped \/ pointer = NoVersion \/ \A f \in FilesOf(pointer) : Intact(pointer, f)

(* Neither a checkpoint nor the published pointer names what is not there.  *)
NamedStored == CheckpointComplete /\ PointerIntact

(* The same, whoever was at work: "the immutable current pointer already   *)
(* binds every object by length and digest, so restoring and checking its  *)
(* coverage is sufficient" (restore_published_total_return_snapshot).      *)
PointerBinds ==
    pointer = NoVersion \/ \A f \in FilesOf(pointer) : Intact(pointer, f)

(* Every filing gets into a published snapshot of the last day, whatever   *)
(* earlier tasks have left on the disk, in the bundles and in the          *)
(* checkpoints.                                                            *)
Published ==
    \A k \in Filing :
      filings >= k ~> \/ overlapped
                      \/ pointer.end = LastDay /\ pointer.filings >= k
=============================================================================
