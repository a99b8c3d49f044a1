------------------------ MODULE ScaleEvidenceProofs ------------------------
(* Theorems about ScaleEvidence, for all official contents, revisions and  *)
(* numbers of changes, files collected again, and stops.                   *)
EXTENDS ScaleEvidence, FiniteSetTheorems, TLAPS

(* The fields that a job of each name has.                                 *)
BuildShape ==
    job = [name |-> "build", pc |-> job.pc, prev |-> job.prev, got |-> job.got]
SeedShape ==
    job = [name |-> "seed", bodies |-> job.bodies, kind |-> job.kind,
           requests |-> job.requests, manifest |-> job.manifest, prices |-> job.prices]
VerifyShape ==
    job = [name |-> job.name, pc |-> job.pc, pass |-> job.pass, next |-> job.next,
           frozen |-> job.frozen, snap |-> job.snap, was |-> job.was,
           result |-> job.result, prev |-> job.prev]

Shape ==
    \/ job = Idle
    \/ BuildShape
    \/ SeedShape
    \/ Verifying /\ VerifyShape

HasDir == job.name \in {"build", "publish", "recovery", "daily"}
DirShape == HasDir => dir = [f \in Files |-> dir[f]]

S3Shape ==
    s3 = [bodies |-> s3.bodies, kind |-> s3.kind, requests |-> s3.requests,
          manifest |-> s3.manifest, prices |-> s3.prices]

ShapeInv == Shape /\ DirShape /\ S3Shape

LEMMA FreshShape ==
    ASSUME NEW n \in {"publish", "recovery", "daily"}, NEW p, job' = Fresh(n, p)
    PROVE  Verifying' /\ VerifyShape'
BY DEF Fresh, Verifying, VerifyShape

LEMMA IdleShape == job' = Idle => Shape' /\ ~HasDir'
BY DEF Shape, HasDir, Idle

LEMMA JobNames ==
    ASSUME Shape
    PROVE  /\ job.name = "build" => BuildShape
           /\ job.name = "seed" => SeedShape
           /\ Verifying => VerifyShape
           /\ job.name = "idle" => job = Idle
           /\ HasDir <=> job.name = "build" \/ Verifying
           /\ job.name \in {"idle", "build", "seed", "publish", "recovery", "daily"}
BY DEF Shape, BuildShape, SeedShape, Verifying, Idle, HasDir

(* What a verification does to the job, when it goes on.                   *)
Went(pc, next, frozen, snap, was) ==
    /\ Verifying' /\ VerifyShape'
    /\ job'.pc = pc /\ job'.next = next
    /\ job'.frozen = frozen /\ job'.snap = snap /\ job'.was = was
    /\ job'.name = job.name /\ job'.pass = job.pass
    /\ job'.result = job.result /\ job'.prev = job.prev

LEMMA GoFrozen ==
    ASSUME Verifying, VerifyShape, NEW pc, NEW fr,
           job' = [job EXCEPT !.pc = pc, !.frozen = fr]
    PROVE  Went(pc, job.next, fr, job.snap, job.was)
<1>1. job' = [name |-> job.name, pc |-> job'.pc, pass |-> job.pass, next |-> job'.next,
              frozen |-> job'.frozen, snap |-> job'.snap, was |-> job'.was,
              result |-> job.result, prev |-> job.prev]
  BY DEF VerifyShape
<1>2. <<job'.pc, job'.next, job'.frozen, job'.snap, job'.was>>
        = <<pc, job.next, fr, job.snap, job.was>>
  BY DEF VerifyShape
<1> QED
  BY <1>1, <1>2 DEF Went, Verifying, VerifyShape

LEMMA GoSnap ==
    ASSUME Verifying, VerifyShape, NEW pc, NEW sn,
           job' = [job EXCEPT !.pc = pc, !.snap = sn]
    PROVE  Went(pc, job.next, job.frozen, sn, job.was)
<1>1. job' = [name |-> job.name, pc |-> job'.pc, pass |-> job.pass, next |-> job'.next,
              frozen |-> job'.frozen, snap |-> job'.snap, was |-> job'.was,
              result |-> job.result, prev |-> job.prev]
  BY DEF VerifyShape
<1>2. <<job'.pc, job'.next, job'.frozen, job'.snap, job'.was>>
        = <<pc, job.next, job.frozen, sn, job.was>>
  BY DEF VerifyShape
<1> QED
  BY <1>1, <1>2 DEF Went, Verifying, VerifyShape

LEMMA GoClosed ==
    ASSUME Verifying, VerifyShape, NEW pc, NEW fr, NEW was,
           job' = [job EXCEPT !.pc = pc, !.frozen = fr, !.was = was]
    PROVE  Went(pc, job.next, fr, job.snap, was)
<1>1. job' = [name |-> job.name, pc |-> job'.pc, pass |-> job.pass, next |-> job'.next,
              frozen |-> job'.frozen, snap |-> job'.snap, was |-> job'.was,
              result |-> job.result, prev |-> job.prev]
  BY DEF VerifyShape
<1>2. <<job'.pc, job'.next, job'.frozen, job'.snap, job'.was>>
        = <<pc, job.next, fr, job.snap, was>>
  BY DEF VerifyShape
<1> QED
  BY <1>1, <1>2 DEF Went, Verifying, VerifyShape

LEMMA GoTurn ==
    ASSUME Verifying, VerifyShape, NEW pc, NEW next,
           job' = [job EXCEPT !.next = next, !.pc = pc]
    PROVE  Went(pc, next, job.frozen, job.snap, job.was)
<1>1. job' = [name |-> job.name, pc |-> job'.pc, pass |-> job.pass, next |-> job'.next,
              frozen |-> job'.frozen, snap |-> job'.snap, was |-> job'.was,
              result |-> job.result, prev |-> job.prev]
  BY DEF VerifyShape
<1>2. <<job'.pc, job'.next, job'.frozen, job'.snap, job'.was>>
        = <<pc, next, job.frozen, job.snap, job.was>>
  BY DEF VerifyShape
<1> QED
  BY <1>1, <1>2 DEF Went, Verifying, VerifyShape

LEMMA GoNext ==
    ASSUME Verifying, VerifyShape, NEW next,
           job' = [job EXCEPT !.next = next]
    PROVE  Went(job.pc, next, job.frozen, job.snap, job.was)
<1>1. job' = [name |-> job.name, pc |-> job'.pc, pass |-> job.pass, next |-> job'.next,
              frozen |-> job'.frozen, snap |-> job'.snap, was |-> job'.was,
              result |-> job.result, prev |-> job.prev]
  BY DEF VerifyShape
<1>2. <<job'.pc, job'.next, job'.frozen, job'.snap, job'.was>>
        = <<job.pc, next, job.frozen, job.snap, job.was>>
  BY DEF VerifyShape
<1> QED
  BY <1>1, <1>2 DEF Went, Verifying, VerifyShape

LEMMA GoPc ==
    ASSUME Verifying, VerifyShape, NEW pc,
           job' = [job EXCEPT !.pc = pc]
    PROVE  Went(pc, job.next, job.frozen, job.snap, job.was)
<1>1. job' = [name |-> job.name, pc |-> job'.pc, pass |-> job.pass, next |-> job'.next,
              frozen |-> job'.frozen, snap |-> job'.snap, was |-> job'.was,
              result |-> job.result, prev |-> job.prev]
  BY DEF VerifyShape
<1>2. <<job'.pc, job'.next, job'.frozen, job'.snap, job'.was>>
        = <<pc, job.next, job.frozen, job.snap, job.was>>
  BY DEF VerifyShape
<1> QED
  BY <1>1, <1>2 DEF Went, Verifying, VerifyShape

LEMMA RefuseIdle == Refuse => job' = Idle
BY DEF Refuse, Done

(* The steps that a verification can take.                                 *)
VerifyStep == FreezeManifests \/ ValidateRows \/ BindUpstream \/ FreezeClosure \/ Sweep \/ Rebind

(* Each of them refuses, or goes on with nothing else changed.             *)
LEMMA VerifyGoes ==
    ASSUME Shape, VerifyStep
    PROVE  /\ Verifying /\ VerifyShape
           /\ \/ Refuse
              \/ /\ dir' = dir /\ base' = base
                 /\ \E pc, next, frozen, snap, was : Went(pc, next, frozen, snap, was)
<1>1. Verifying /\ VerifyShape
  BY JobNames DEF VerifyStep, FreezeManifests, ValidateRows, BindUpstream, FreezeClosure,
                  Sweep, Rebind
<1> DEFINE Goal == \/ Refuse
                   \/ /\ dir' = dir /\ base' = base
                      /\ \E pc, next, frozen, snap, was : Went(pc, next, frozen, snap, was)
<1>2. CASE FreezeManifests
  <2>1. Refuse \/ \E fs : Proceed([job EXCEPT !.pc = "rows", !.frozen = Freeze(fs)])
    BY <1>2 DEF FreezeManifests
  <2> QED
    BY <1>1, <2>1, GoFrozen DEF Proceed
<1>3. CASE ValidateRows
  <2>1. Refuse \/ \E fs : Proceed([job EXCEPT !.pc = "bind", !.frozen = Freeze(fs)])
    BY <1>3 DEF ValidateRows
  <2> QED
    BY <1>1, <2>1, GoFrozen DEF Proceed
<1>4. CASE BindUpstream
  <2>1. Refuse \/ Proceed([job EXCEPT !.pc = "close", !.snap = Snapshot])
    BY <1>4 DEF BindUpstream
  <2> QED
    BY <1>1, <2>1, GoSnap DEF Proceed
<1>5. CASE FreezeClosure
  <2>1. Proceed([job EXCEPT !.pc = "sweep", !.frozen = Freeze(Closure({"rows"})), !.was = dir])
    BY <1>5 DEF FreezeClosure
  <2> QED
    BY <1>1, <2>1, GoClosed DEF Proceed
<1>6. CASE Sweep
  <2>1. \/ Refuse
        \/ Proceed([job EXCEPT !.next = job.next + 1])
        \/ Proceed([job EXCEPT !.next = 1, !.pc = IF job.pc = "sweep" THEN "rebind" ELSE "accept"])
    BY <1>6 DEF Sweep
  <2>2. CASE Proceed([job EXCEPT !.next = job.next + 1])
    BY <1>1, <2>2, GoNext DEF Proceed
  <2>3. CASE Proceed([job EXCEPT !.next = 1,
                                 !.pc = IF job.pc = "sweep" THEN "rebind" ELSE "accept"])
    BY <1>1, <2>3, GoTurn DEF Proceed
  <2> QED
    BY <1>1, <2>1, <2>2, <2>3
<1>7. CASE Rebind
  <2>1. Refuse \/ Proceed([job EXCEPT !.pc = "resweep"])
    BY <1>7 DEF Rebind
  <2> QED
    BY <1>1, <2>1, GoPc DEF Proceed
<1> QED
  BY <1>2, <1>3, <1>4, <1>5, <1>6, <1>7 DEF VerifyStep

LEMMA ShapeStep == ShapeInv /\ [Next]_vars => ShapeInv'
<1> SUFFICES ASSUME ShapeInv, [Next]_vars PROVE ShapeInv'
  OBVIOUS
<1>1. Shape /\ DirShape /\ S3Shape
  BY DEF ShapeInv
<1>2. CASE UNCHANGED <<job, dir, s3>>
  BY <1>1, <1>2 DEF ShapeInv, Shape, DirShape, S3Shape, BuildShape, SeedShape, VerifyShape,
                    Verifying, HasDir
<1>3. CASE job' = Idle /\ UNCHANGED s3
  BY <1>1, <1>3, IdleShape DEF ShapeInv, DirShape, S3Shape
<1>4. CASE Upstream
  BY <1>2, <1>4 DEF Upstream, Change
<1>5. ASSUME NEW f \in Inputs, Refetch(f) PROVE ShapeInv'
  <2>1. UNCHANGED <<job, s3>> /\ HasDir /\ dir' = [dir EXCEPT ![f] = Collected(f)]
    BY <1>1, <1>5, JobNames DEF Refetch, HasDir
  <2>2. Shape' /\ S3Shape'
    BY <1>1, <2>1 DEF Shape, S3Shape, BuildShape, SeedShape, VerifyShape, Verifying
  <2>3. DirShape'
    BY <1>1, <2>1 DEF DirShape
  <2> QED
    BY <2>2, <2>3 DEF ShapeInv
<1>6. CASE StartBuild
  <2>1. BuildShape'
    BY <1>6 DEF StartBuild, BuildShape
  <2>2. DirShape' /\ S3Shape'
    BY <1>1, <1>6 DEF StartBuild, Load, DirShape, S3Shape
  <2> QED
    BY <2>1, <2>2 DEF ShapeInv, Shape
<1>7. CASE BuildFamilies
  <2>1. CASE /\ job' = [job EXCEPT !.pc = "classify",
                          !.got = [families |-> dir["families"], price |-> dir["price"]]]
             /\ UNCHANGED dir
    <3>1. BuildShape
      BY <1>1, <1>7, JobNames DEF BuildFamilies
    <3>2. BuildShape' /\ HasDir
      <4> DEFINE g == [families |-> dir["families"], price |-> dir["price"]]
      <4> HIDE DEF g
      <4>1. job' = [job EXCEPT !.pc = "classify", !.got = g]
        BY <2>1 DEF g
      <4>2. PICK pc, prev, got : job = [name |-> "build", pc |-> pc, prev |-> prev, got |-> got]
        BY <3>1 DEF BuildShape
      <4>3. job' = [name |-> "build", pc |-> "classify", prev |-> prev, got |-> g]
        BY <4>1, <4>2
      <4> QED
        BY <4>2, <4>3 DEF BuildShape, HasDir
    <3> QED
      BY <1>1, <1>7, <2>1, <3>2 DEF BuildFamilies, ShapeInv, Shape, DirShape, S3Shape
  <2> QED
    BY <1>3, <1>7, <2>1 DEF BuildFamilies, Done
<1>8. CASE BuildManifest
  <2>1. CASE /\ dir' = [dir EXCEPT !["manifest"] = BuildOne(Input)]
             /\ job' = Fresh("publish", job.prev)
    <3>1. Verifying' /\ VerifyShape'
      BY <2>1, FreshShape
    <3>2. DirShape'
      BY <1>1, <1>8, <2>1 DEF BuildManifest, DirShape, HasDir
    <3> QED
      BY <1>1, <1>8, <3>1, <3>2 DEF BuildManifest, ShapeInv, Shape, S3Shape
  <2> QED
    BY <1>3, <1>8, <2>1 DEF BuildManifest, Done
<1>9. CASE VerifyStep
  <2>1. UNCHANGED s3
    BY <1>9 DEF VerifyStep, FreezeManifests, ValidateRows, BindUpstream, FreezeClosure, Sweep,
                Rebind
  <2>2. CASE Refuse
    BY <1>3, <2>1, <2>2, RefuseIdle
  <2>3. CASE Verifying' /\ VerifyShape' /\ dir' = dir
    <3>1. HasDir
      BY <1>1, <1>9, VerifyGoes DEF Verifying, HasDir
    <3> QED
      BY <1>1, <2>1, <2>3, <3>1 DEF ShapeInv, Shape, DirShape, S3Shape
  <2> QED
    BY <1>1, <1>9, <2>2, <2>3, VerifyGoes DEF Went
<1>10. CASE AcceptPublication
  <2>1. CASE job.pass = 1
            /\ Proceed([Fresh("publish", job.prev) EXCEPT !.pass = 2, !.result = Manifest])
    <3>1. Verifying' /\ VerifyShape' /\ dir' = dir
      BY <2>1 DEF Proceed, Fresh, Verifying, VerifyShape
    <3>2. HasDir
      BY <1>10 DEF AcceptPublication, HasDir
    <3> QED
      BY <1>1, <1>10, <3>1, <3>2 DEF AcceptPublication, ShapeInv, Shape, DirShape, S3Shape
  <2> QED
    BY <1>3, <1>10, <2>1, RefuseIdle DEF AcceptPublication, Done
<1>11. CASE PersistRun
  BY <1>3, <1>11 DEF PersistRun, Done
<1>12. CASE StartRecovery
  <2>1. Verifying' /\ VerifyShape'
    BY <1>12, FreshShape DEF StartRecovery
  <2> QED
    BY <1>1, <1>12, <2>1 DEF StartRecovery, Load, ShapeInv, Shape, DirShape, S3Shape
<1>13. CASE StartDaily
  <2>1. Verifying' /\ VerifyShape'
    BY <1>13, FreshShape DEF StartDaily
  <2>2. DirShape'
    BY <1>13 DEF StartDaily, DirShape
  <2> QED
    BY <1>1, <1>13, <2>1, <2>2 DEF StartDaily, ShapeInv, Shape, S3Shape
<1>14. CASE StartSeed
  <2>1. SeedShape' /\ ~HasDir'
    BY <1>14 DEF StartSeed, SeedShape, HasDir
  <2> QED
    BY <1>1, <1>14, <2>1 DEF StartSeed, ShapeInv, Shape, DirShape, S3Shape
<1>15. CASE PutOnce
  <2>1. CASE job' = Idle /\ UNCHANGED s3
    BY <1>3, <2>1
  <2>2. ASSUME NEW i \in DOMAIN SeedOrder, UNCHANGED job,
               s3' = [s3 EXCEPT ![SeedOrder[i]] = job[SeedOrder[i]]]
        PROVE  ShapeInv'
    <3>1. S3Shape'
      BY <1>1, <2>2 DEF S3Shape
    <3> QED
      BY <1>1, <1>15, <2>2, <3>1 DEF PutOnce, ShapeInv, Shape, DirShape, BuildShape, SeedShape,
                                     VerifyShape, Verifying, HasDir
  <2> QED
    BY <1>15, <2>1, <2>2 DEF PutOnce, Unseeded
<1>16. CASE Migrate
  <2>1. S3Shape'
    BY <1>1, <1>16 DEF Migrate, S3Shape
  <2> QED
    BY <1>1, <1>16, <2>1 DEF Migrate, ShapeInv, Shape, DirShape, BuildShape, SeedShape,
                             VerifyShape, Verifying, HasDir
<1>17. CASE Stop
  BY <1>3, <1>17 DEF Stop, Done
<1>18. CASE UNCHANGED vars
  BY <1>2, <1>18 DEF vars
<1> QED
  BY <1>4, <1>5, <1>6, <1>7, <1>8, <1>9, <1>10, <1>11, <1>12, <1>13, <1>14, <1>15, <1>16,
     <1>17, <1>18 DEF Next, Step, VerifyStep

-----------------------------------------------------------------------------
(* The files a verification has frozen when it has read the rows and their *)
(* bodies, and when it has closed over what they depend on.                *)
Heads == {"manifest", "families", "kind"}
Bodies == Heads \cup {"cash", "price", "notice"} \cup Closure({"body"})
Whole == Bodies \cup Closure({"rows"})

FrozenFiles ==
    IF job.pc = "freeze" THEN {} ELSE IF job.pc = "rows" THEN Heads
    ELSE IF job.pc \in {"bind", "close"} THEN Bodies ELSE Whole

(* The rows' contract, with the bodies as they were frozen.                *)
RowsHold ==
    /\ ValidGroups(Manifest.rows)
    /\ CashBodies(Manifest, job.frozen["cash"]) /\ PriceBodies(Manifest, job.frozen["price"])
    /\ NoticeBodies(Manifest.rows, job.frozen["notice"])
    /\ DartComponents(Manifest.rows) # {} => ComponentBodies(Manifest.rows, job.frozen["body"])

(* The upstream contract, with the files as they were when it was bound.   *)
Read == {"families", "body", "rows", "kind"}
SnapOf(f) == IF f = "families" THEN job.snap.families ELSE IF f = "body" THEN job.snap.body
             ELSE IF f = "rows" THEN job.snap.rows ELSE job.snap.kind
SnapBinds ==
    /\ DartComponents(Manifest.rows) # {} =>
         FamiliesVerify(job.snap.families, job.snap.body, job.snap.rows)
    /\ FamilyBindings(Manifest.rows, job.snap.families)
    /\ KindBindings(Manifest.rows, job.snap.kind)

AsWas(f) == f \in DOMAIN job.frozen => job.frozen[f] = job.was[f]
AsBound(f) == f \in DOMAIN job.frozen => job.frozen[f] = SnapOf(f)

Pcs == {"freeze", "rows", "bind", "close", "sweep", "rebind", "resweep", "accept"}
AfterRows == Pcs \ {"freeze", "rows"}
AfterBind == AfterRows \ {"bind"}
AfterClose == AfterBind \ {"close"}

(* A file that was not collected again since it was frozen has been the    *)
(* same at the binding, at the closure and ever since; a sweep proves it   *)
(* of the files it has read.                                               *)
VerifyInv ==
    Verifying =>
      /\ job.pc \in Pcs /\ job.next \in 1 .. 8
      /\ job.pc \in {"freeze", "rows", "bind", "close", "rebind", "accept"} => job.next = 1
      /\ DOMAIN job.frozen = FrozenFiles
      /\ \A f \in DOMAIN job.frozen : f \notin touched => job.frozen[f] = dir[f]
      /\ job.pc \in AfterRows => RowsHold
      /\ job.pc \in AfterBind =>
           SnapBinds /\ \A f \in Read : f \notin touched /\ f # "rows" => AsBound(f)
      /\ job.pc \in AfterClose => \A f \in Files : f \notin touched => AsWas(f)
      /\ job.pc = "sweep" => \A i \in 1 .. 8 : i < job.next => AsWas(FileOrder[i])
      /\ job.pc \in {"rebind", "resweep", "accept"} => \A f \in Files : AsWas(f)
      /\ job.pc \in {"resweep", "accept"} =>
           \A f \in Read : f \notin touched => AsBound(f)
      /\ job.pc = "resweep" =>
           \A i \in 1 .. 8 : i < job.next /\ FileOrder[i] \in Read => AsBound(FileOrder[i])
      /\ job.pc = "accept" => \A f \in Read : AsBound(f)

LEMMA Order ==
    /\ Len(FileOrder) = 8
    /\ \A f \in Files : \E i \in 1 .. 8 : FileOrder[i] = f
    /\ Read \subseteq Files
BY DEF FileOrder, Files, Inputs, Read

LEMMA FreezeFacts ==
    ASSUME NEW fs
    PROVE  /\ DOMAIN Freeze(fs) = fs \cup DOMAIN job.frozen
           /\ \A f \in fs : Freeze(fs)[f] = dir[f]
           /\ \A f \in DOMAIN job.frozen : f \notin fs => Freeze(fs)[f] = job.frozen[f]
BY DEF Freeze

LEMMA AtFreeze ==
    ASSUME job'.pc = "freeze", job'.next = 1, DOMAIN job'.frozen = {}
    PROVE  VerifyInv'
<1>1. job'.pc \in Pcs /\ job'.next \in 1 .. 8 /\ FrozenFiles' = {}
  BY DEF Pcs, FrozenFiles
<1>2. /\ job'.pc \notin AfterRows /\ job'.pc \notin AfterBind /\ job'.pc \notin AfterClose
      /\ job'.pc \notin {"sweep", "rebind", "resweep", "accept"}
  BY DEF Pcs, AfterRows, AfterBind, AfterClose
<1> QED
  BY <1>1, <1>2 DEF VerifyInv

LEMMA FreshInv ==
    ASSUME NEW n, NEW p,
           \/ job' = Fresh(n, p)
           \/ \E r : job' = [Fresh(n, p) EXCEPT !.pass = 2, !.result = r]
    PROVE  VerifyInv'
<1>1. DOMAIN Nowhere = {}
  BY DEF Nowhere
<1>2. CASE job' = Fresh(n, p)
  BY <1>1, <1>2, AtFreeze DEF Fresh
<1>3. ASSUME NEW r, job' = [Fresh(n, p) EXCEPT !.pass = 2, !.result = r]
      PROVE  VerifyInv'
  BY <1>1, <1>3, AtFreeze DEF Fresh
<1> QED
  BY <1>2, <1>3

LEMMA NotVerifying == job'.name \in {"idle", "build", "seed"} => VerifyInv'
BY DEF VerifyInv, Verifying

(* What stays true when neither the frozen files nor the snapshots change. *)
LEMMA SameFrozen ==
    ASSUME UNCHANGED <<job.frozen, job.snap, job.was>>
    PROVE  /\ RowsHold' <=> RowsHold
           /\ SnapBinds' <=> SnapBinds
           /\ \A f : AsWas(f)' <=> AsWas(f)
           /\ \A f : AsBound(f)' <=> AsBound(f)
           /\ Bodies' = Bodies /\ Whole' = Whole
<1>1. Manifest' = Manifest
  BY DEF Manifest
<1>2. \A fs : Closure(fs)' = Closure(fs)
  BY <1>1 DEF Closure
<1>3. Bodies' = Bodies /\ Whole' = Whole
  BY <1>2 DEF Bodies, Whole
<1>4. RowsHold' <=> RowsHold
  BY <1>1 DEF RowsHold
<1>5. SnapBinds' <=> SnapBinds
  BY <1>1 DEF SnapBinds
<1>6. \A f : (AsWas(f)' <=> AsWas(f)) /\ (AsBound(f)' <=> AsBound(f))
  BY DEF AsWas, AsBound, SnapOf
<1> QED
  BY <1>3, <1>4, <1>5, <1>6

(* The invariant in terms of what a step does.                             *)
LEMMA FreezeManifestsInv ==
    ASSUME ShapeInv, VerifyInv, FreezeManifests PROVE VerifyInv'
<1>1. Verifying /\ VerifyShape
  BY JobNames DEF FreezeManifests, ShapeInv
<1>2. CASE Refuse
  BY <1>2, RefuseIdle, NotVerifying DEF Idle
<1>3. CASE /\ touched' = touched \ Heads
           /\ Proceed([job EXCEPT !.pc = "rows", !.frozen = Freeze(Heads)])
  <2>1. Went("rows", job.next, Freeze(Heads), job.snap, job.was) /\ dir' = dir
    BY <1>1, <1>3, GoFrozen DEF Proceed
  <2>2. job.pc = "freeze" /\ DOMAIN job.frozen = {} /\ job.next = 1
    BY <1>1 DEF FreezeManifests, VerifyInv, FrozenFiles
  <2>3. DOMAIN Freeze(Heads) = Heads /\ \A f \in Heads : Freeze(Heads)[f] = dir[f]
    BY <2>2, FreezeFacts
  <2>4. job'.pc = "rows" /\ job'.next = 1 /\ DOMAIN job'.frozen = Heads
        /\ \A f \in Heads : job'.frozen[f] = dir'[f]
    BY <2>1, <2>2, <2>3 DEF Went
  <2>5. FrozenFiles' = Heads
    BY <2>4 DEF FrozenFiles, Heads
  <2>6. /\ job'.pc \in Pcs /\ job'.next \in 1 .. 8
        /\ job'.pc \notin AfterRows /\ job'.pc \notin AfterBind /\ job'.pc \notin AfterClose
        /\ job'.pc \notin {"sweep", "rebind", "resweep", "accept"}
    BY <2>4 DEF Pcs, AfterRows, AfterBind, AfterClose
  <2> QED
    BY <2>4, <2>5, <2>6 DEF VerifyInv
<1> QED
  BY <1>2, <1>3 DEF FreezeManifests, Heads

LEMMA ValidateRowsInv ==
    ASSUME ShapeInv, VerifyInv, ValidateRows PROVE VerifyInv'
<1>1. Verifying /\ VerifyShape
  BY JobNames DEF ValidateRows, ShapeInv
<1>2. CASE Refuse
  BY <1>2, RefuseIdle, NotVerifying DEF Idle
<1> DEFINE fs == {"cash", "price", "notice"} \cup Closure({"body"})
<1>3. CASE /\ ValidGroups(Manifest.rows)
           /\ CashBodies(Manifest, dir["cash"]) /\ PriceBodies(Manifest, dir["price"])
           /\ NoticeBodies(Manifest.rows, dir["notice"])
           /\ ComponentBodies(Manifest.rows, dir["body"])
           /\ touched' = touched \ fs
           /\ Proceed([job EXCEPT !.pc = "bind", !.frozen = Freeze(fs)])
  <2>1. fs \subseteq {"cash", "price", "notice", "body"}
    BY DEF Closure
  <2> HIDE DEF fs
  <2>2. Went("bind", job.next, Freeze(fs), job.snap, job.was) /\ dir' = dir
    BY <1>1, <1>3, GoFrozen DEF Proceed
  <2>3. job.pc = "rows" /\ DOMAIN job.frozen = Heads /\ job.next = 1
        /\ \A f \in Heads : f \notin touched => job.frozen[f] = dir[f]
    BY <1>1 DEF ValidateRows, VerifyInv, FrozenFiles
  <2>4. /\ DOMAIN job'.frozen = fs \cup Heads
        /\ \A f \in fs : job'.frozen[f] = dir[f]
        /\ \A f \in Heads : job'.frozen[f] = job.frozen[f]
    <3>1. \A f \in Heads : f \notin fs
      BY <2>1 DEF Heads
    <3>2. job'.frozen = Freeze(fs)
      BY <2>2 DEF Went
    <3> QED
      BY <2>3, <3>1, <3>2, FreezeFacts
  <2>5. job'.pc = "bind" /\ job'.next = 1
    BY <2>2, <2>3 DEF Went
  <2>6. Manifest' = Manifest
    BY <2>4 DEF Manifest, Heads
  <2>7. (Bodies = fs \cup Heads)'
    BY <2>6 DEF Bodies, Closure, fs
  <2>8. FrozenFiles' = fs \cup Heads
    <3>1. FrozenFiles' = Bodies'
      BY <2>5 DEF FrozenFiles
    <3>2. Closure({"body"})' = Closure({"body"})
      BY <2>6 DEF Closure
    <3> QED
      BY <3>1, <3>2 DEF Bodies, fs, Heads
  <2>9. RowsHold'
    <3>1. job'.frozen["cash"] = dir["cash"] /\ job'.frozen["price"] = dir["price"]
          /\ job'.frozen["notice"] = dir["notice"]
      BY <2>4 DEF fs
    <3>2. DartComponents(Manifest.rows) # {} => job'.frozen["body"] = dir["body"]
      BY <2>4 DEF fs, Closure
    <3> QED
      BY <1>3, <2>6, <3>1, <3>2 DEF RowsHold
  <2>10. \A f \in DOMAIN job'.frozen : f \notin touched' => job'.frozen[f] = dir'[f]
    BY <1>3, <2>2, <2>3, <2>4
  <2>11. /\ job'.pc \in Pcs /\ job'.next \in 1 .. 8
         /\ job'.pc \notin AfterBind /\ job'.pc \notin AfterClose
         /\ job'.pc \notin {"sweep", "rebind", "resweep", "accept"}
    BY <2>5 DEF Pcs, AfterRows, AfterBind, AfterClose
  <2> QED
    BY <2>4, <2>5, <2>8, <2>9, <2>10, <2>11 DEF VerifyInv
<1> QED
  BY <1>2, <1>3 DEF ValidateRows

LEMMA BindUpstreamInv ==
    ASSUME ShapeInv, VerifyInv, BindUpstream PROVE VerifyInv'
<1>1. Verifying /\ VerifyShape
  BY JobNames DEF BindUpstream, ShapeInv
<1>2. CASE Refuse
  BY <1>2, RefuseIdle, NotVerifying DEF Idle
<1>3. CASE /\ BindingsHold /\ UNCHANGED touched
           /\ Proceed([job EXCEPT !.pc = "close", !.snap = Snapshot])
  <2>1. Went("close", job.next, job.frozen, Snapshot, job.was) /\ dir' = dir
    BY <1>1, <1>3, GoSnap DEF Proceed
  <2>2. /\ job.pc = "bind" /\ job.next = 1 /\ RowsHold
        /\ DOMAIN job.frozen = Bodies
        /\ \A f \in DOMAIN job.frozen : f \notin touched => job.frozen[f] = dir[f]
    BY <1>1 DEF BindUpstream, VerifyInv, FrozenFiles, AfterRows, Pcs
  <2>3. job'.pc = "close" /\ job'.next = 1 /\ job'.frozen = job.frozen /\ job'.snap = Snapshot
    BY <2>1, <2>2 DEF Went
  <2>4. Manifest' = Manifest
    BY <2>3 DEF Manifest
  <2>5. RowsHold'
    BY <2>2, <2>3, <2>4 DEF RowsHold
  <2>6. SnapBinds'
    BY <1>3, <2>3, <2>4 DEF SnapBinds, BindingsHold, Snapshot
  <2>7. Bodies' = Bodies
    BY <2>4 DEF Bodies, Closure
  <2>8. FrozenFiles' = Bodies
    BY <2>3, <2>7 DEF FrozenFiles
  <2>9. \A f \in Read : f \notin touched' /\ f # "rows" => AsBound(f)'
    BY <1>3, <2>2, <2>3 DEF AsBound, SnapOf, Snapshot, Read
  <2>10. /\ job'.pc \in Pcs /\ job'.next \in 1 .. 8 /\ job'.pc \notin AfterClose
         /\ job'.pc \notin {"sweep", "rebind", "resweep", "accept"}
    BY <2>3 DEF Pcs, AfterRows, AfterBind, AfterClose
  <2> QED
    BY <1>3, <2>1, <2>2, <2>3, <2>5, <2>6, <2>8, <2>9, <2>10 DEF VerifyInv
<1> QED
  BY <1>2, <1>3 DEF BindUpstream

LEMMA FreezeClosureInv ==
    ASSUME ShapeInv, VerifyInv, FreezeClosure PROVE VerifyInv'
<1>1. Verifying /\ VerifyShape
  BY JobNames DEF FreezeClosure, ShapeInv
<1> DEFINE fs == Closure({"rows"})
<1>2. fs \subseteq {"rows"}
  BY DEF Closure
<1>3. /\ touched' = touched \ fs
      /\ Proceed([job EXCEPT !.pc = "sweep", !.frozen = Freeze(fs), !.was = dir])
  BY DEF FreezeClosure
<1> HIDE DEF fs
<1>4. Went("sweep", job.next, Freeze(fs), job.snap, dir) /\ dir' = dir
  BY <1>1, <1>3, GoClosed DEF Proceed
<1>5. /\ job.pc = "close" /\ job.next = 1 /\ RowsHold /\ SnapBinds
      /\ DOMAIN job.frozen = Bodies
      /\ \A f \in DOMAIN job.frozen : f \notin touched => job.frozen[f] = dir[f]
      /\ \A f \in Read : f \notin touched /\ f # "rows" => AsBound(f)
  BY <1>1 DEF FreezeClosure, VerifyInv, FrozenFiles, AfterRows, AfterBind, Pcs
<1>6. "rows" \notin Bodies /\ Heads \cup {"cash", "price", "notice"} \subseteq Bodies
      /\ (DartComponents(Manifest.rows) # {} => "body" \in Bodies)
  BY DEF Bodies, Heads, Closure
<1>7. /\ DOMAIN job'.frozen = fs \cup Bodies
      /\ \A f \in fs : job'.frozen[f] = dir[f]
      /\ \A f \in Bodies : job'.frozen[f] = job.frozen[f]
  <2>1. job'.frozen = Freeze(fs)
    BY <1>4 DEF Went
  <2>2. \A f \in Bodies : f \notin fs
    BY <1>2, <1>6
  <2> QED
    BY <1>5, <2>1, <2>2, FreezeFacts
<1>8. job'.pc = "sweep" /\ job'.next = 1 /\ job'.was = dir /\ job'.snap = job.snap
  BY <1>4, <1>5 DEF Went
<1>9. Manifest' = Manifest
  BY <1>6, <1>7 DEF Manifest, Heads
<1>10. FrozenFiles' = fs \cup Bodies
  <2>1. Bodies' = Bodies /\ Closure({"rows"})' = Closure({"rows"})
    BY <1>9 DEF Bodies, Closure
  <2> QED
    BY <1>8, <2>1 DEF FrozenFiles, Whole, fs
<1>11. RowsHold'
  <2>1. job'.frozen["cash"] = job.frozen["cash"] /\ job'.frozen["price"] = job.frozen["price"]
        /\ job'.frozen["notice"] = job.frozen["notice"]
    BY <1>6, <1>7
  <2>2. DartComponents(Manifest.rows) # {} => job'.frozen["body"] = job.frozen["body"]
    BY <1>6, <1>7
  <2> QED
    BY <1>5, <1>9, <2>1, <2>2 DEF RowsHold
<1>12. SnapBinds'
  BY <1>5, <1>8, <1>9 DEF SnapBinds
<1>13. \A f \in DOMAIN job'.frozen : f \notin touched' => job'.frozen[f] = dir'[f]
  BY <1>3, <1>4, <1>5, <1>7
<1>14. \A f \in Files : f \notin touched' => AsWas(f)'
  BY <1>4, <1>8, <1>13 DEF AsWas
<1>15. \A f \in Read : f \notin touched' /\ f # "rows" => AsBound(f)'
  <2>1. SUFFICES ASSUME NEW f \in Read, f \notin touched', f # "rows", f \in DOMAIN job'.frozen
                 PROVE  job'.frozen[f] = SnapOf(f)'
    BY DEF AsBound
  <2>2. f \in Bodies /\ f \notin touched
    BY <1>2, <1>3, <1>7, <2>1
  <2>3. job.frozen[f] = SnapOf(f)
    BY <1>5, <2>1, <2>2 DEF AsBound
  <2> QED
    BY <1>7, <1>8, <2>2, <2>3 DEF SnapOf
<1>16. /\ job'.pc \in Pcs /\ job'.next \in 1 .. 8 /\ ~\E i \in 1 .. 8 : i < job'.next
       /\ job'.pc \notin {"rebind", "resweep", "accept"}
  BY <1>8 DEF Pcs
<1> QED
  BY <1>7, <1>8, <1>10, <1>11, <1>12, <1>13, <1>14, <1>15, <1>16 DEF VerifyInv

LEMMA SweepInv ==
    ASSUME ShapeInv, VerifyInv, Sweep PROVE VerifyInv'
<1>1. Verifying /\ VerifyShape
  BY JobNames DEF Sweep, ShapeInv
<1>2. CASE Refuse
  BY <1>2, RefuseIdle, NotVerifying DEF Idle
<1> DEFINE f == FileOrder[job.next]
<1>3. /\ job.pc \in {"sweep", "resweep"} /\ job.next \in 1 .. 8
      /\ DOMAIN job.frozen = Whole /\ RowsHold /\ SnapBinds
      /\ \A g \in DOMAIN job.frozen : g \notin touched => job.frozen[g] = dir[g]
      /\ \A g \in Read : g \notin touched /\ g # "rows" => AsBound(g)
      /\ \A g \in Files : g \notin touched => AsWas(g)
      /\ job.pc = "sweep" => \A i \in 1 .. 8 : i < job.next => AsWas(FileOrder[i])
      /\ job.pc = "resweep" =>
           /\ \A g \in Files : AsWas(g)
           /\ \A g \in Read : g \notin touched => AsBound(g)
           /\ \A i \in 1 .. 8 : i < job.next /\ FileOrder[i] \in Read => AsBound(FileOrder[i])
  BY <1>1 DEF Sweep, VerifyInv, FrozenFiles, AfterRows, AfterBind, AfterClose, Pcs
<1>4. CASE /\ f \notin touched \cap DOMAIN job.frozen /\ UNCHANGED <<touched, dir>>
           /\ \/ /\ job.next < 8 /\ job' = [job EXCEPT !.next = job.next + 1]
              \/ /\ job.next >= 8
                 /\ job' = [job EXCEPT !.next = 1,
                              !.pc = IF job.pc = "sweep" THEN "rebind" ELSE "accept"]
  <2>1. f \in Files
    BY <1>3 DEF FileOrder, Files, Inputs
  <2>2. AsWas(f) /\ (job.pc = "resweep" /\ f \in Read => AsBound(f))
    BY <1>3, <1>4, <2>1 DEF AsWas, AsBound
  <2>3. UNCHANGED <<job.frozen, job.snap, job.was>>
    <3>1. CASE job' = [job EXCEPT !.next = job.next + 1]
      BY <1>1, <3>1, GoNext DEF Went
    <3>2. CASE job' = [job EXCEPT !.next = 1,
                              !.pc = IF job.pc = "sweep" THEN "rebind" ELSE "accept"]
      BY <1>1, <3>2, GoTurn DEF Went
    <3> QED
      BY <1>4, <3>1, <3>2
  <2>4. /\ RowsHold' /\ SnapBinds' /\ Whole' = Whole
        /\ \A g : AsWas(g)' <=> AsWas(g)
        /\ \A g : AsBound(g)' <=> AsBound(g)
    BY <1>3, <2>3, SameFrozen
  <2>5. CASE job.next < 8 /\ job' = [job EXCEPT !.next = job.next + 1]
    <3>1. job'.pc = job.pc /\ job'.next = job.next + 1
      BY <1>1, <2>5, GoNext DEF Went
    <3>2. \A i \in 1 .. 8 : i < job'.next => i < job.next \/ i = job.next
      BY <1>3, <3>1
    <3>3. job.pc = "sweep" => \A i \in 1 .. 8 : i < job'.next => AsWas(FileOrder[i])'
      BY <1>3, <2>2, <2>4, <3>2
    <3>4. job.pc = "resweep" => \A i \in 1 .. 8 :
            i < job'.next /\ FileOrder[i] \in Read => AsBound(FileOrder[i])'
      BY <1>3, <2>2, <2>4, <3>2
    <3>5. FrozenFiles' = Whole
      BY <1>3, <2>4, <3>1 DEF FrozenFiles
    <3>6. job'.next \in 1 .. 8 /\ job'.pc \in Pcs
      BY <1>3, <2>5, <3>1 DEF Pcs
    <3> QED
      BY <1>3, <1>4, <2>3, <2>4, <3>1, <3>3, <3>4, <3>5, <3>6 DEF VerifyInv
  <2>6. CASE /\ job.next >= 8
             /\ job' = [job EXCEPT !.next = 1,
                          !.pc = IF job.pc = "sweep" THEN "rebind" ELSE "accept"]
    <3>1. job'.next = 1 /\ job'.pc = (IF job.pc = "sweep" THEN "rebind" ELSE "accept")
      BY <1>1, <2>6, GoTurn DEF Went
    <3>2. job.next = 8 /\ \A i \in 1 .. 8 : i < job.next \/ i = job.next
      BY <1>3, <2>6
    <3>3. \A g \in Files : AsWas(g)
      BY <1>3, <2>2, <3>2, Order
    <3>4. job.pc = "resweep" => \A g \in Read : AsBound(g)
      BY <1>3, <2>2, <3>2, Order
    <3>5. FrozenFiles' = Whole /\ job'.pc \in Pcs /\ job'.next \in 1 .. 8
      BY <1>3, <2>4, <3>1 DEF FrozenFiles, Pcs
    <3>6. job.pc = "sweep" => job'.pc = "rebind"
      BY <3>1
    <3>7. job.pc = "resweep" => job'.pc = "accept"
      BY <3>1
    <3> QED
      BY <1>3, <1>4, <2>3, <2>4, <3>1, <3>3, <3>4, <3>5, <3>6, <3>7 DEF VerifyInv
  <2> QED
    BY <1>4, <2>5, <2>6
<1>5. Refuse \/ /\ f \notin touched \cap DOMAIN job.frozen /\ UNCHANGED <<touched, dir>>
                /\ \/ /\ job.next < 8 /\ job' = [job EXCEPT !.next = job.next + 1]
                   \/ /\ job.next >= 8
                      /\ job' = [job EXCEPT !.next = 1,
                                   !.pc = IF job.pc = "sweep" THEN "rebind" ELSE "accept"]
  <2>1. CASE f \in touched \cap DOMAIN job.frozen
    BY <2>1 DEF Sweep
  <2>2. CASE f \notin touched \cap DOMAIN job.frozen
    <3>1. CASE job.next < 8
      BY <2>2, <3>1, Order DEF Sweep, Proceed
    <3>2. CASE ~(job.next < 8)
      <4>1. job.next >= 8
        BY <1>3, <3>2
      <4> QED
        BY <2>2, <3>2, <4>1, Order DEF Sweep, Proceed
    <3> QED
      BY <3>1, <3>2
  <2> QED
    BY <2>1, <2>2
<1> QED
  BY <1>2, <1>4, <1>5

LEMMA RebindInv ==
    ASSUME ShapeInv, VerifyInv, Rebind PROVE VerifyInv'
<1>1. Verifying /\ VerifyShape
  BY JobNames DEF Rebind, ShapeInv
<1>2. CASE Refuse
  BY <1>2, RefuseIdle, NotVerifying DEF Idle
<1>3. CASE /\ Snapshot = job.snap /\ UNCHANGED touched
           /\ Proceed([job EXCEPT !.pc = "resweep"])
  <2>1. Went("resweep", job.next, job.frozen, job.snap, job.was) /\ dir' = dir
    BY <1>1, <1>3, GoPc DEF Proceed
  <2>2. /\ job.pc = "rebind" /\ job.next = 1 /\ DOMAIN job.frozen = Whole
        /\ RowsHold /\ SnapBinds
        /\ \A g \in DOMAIN job.frozen : g \notin touched => job.frozen[g] = dir[g]
        /\ \A g \in Read : g \notin touched /\ g # "rows" => AsBound(g)
        /\ \A g \in Files : g \notin touched => AsWas(g)
        /\ \A g \in Files : AsWas(g)
    BY <1>1 DEF Rebind, VerifyInv, FrozenFiles, AfterRows, AfterBind, AfterClose, Pcs
  <2>3. job'.pc = "resweep" /\ job'.next = 1 /\ UNCHANGED <<job.frozen, job.snap, job.was>>
    BY <2>1, <2>2 DEF Went
  <2>4. /\ RowsHold' /\ SnapBinds' /\ Whole' = Whole
        /\ \A g : AsWas(g)' <=> AsWas(g)
        /\ \A g : AsBound(g)' <=> AsBound(g)
    BY <2>2, <2>3, SameFrozen
  <2>5. \A g \in Read : dir[g] = SnapOf(g)
    BY <1>3 DEF Snapshot, SnapOf, Read
  <2>6. \A g \in Read : g \notin touched => AsBound(g)
    BY <2>2, <2>5 DEF AsBound
  <2>7. /\ FrozenFiles' = Whole /\ job'.pc \in Pcs /\ job'.next \in 1 .. 8
        /\ ~\E i \in 1 .. 8 : i < job'.next
    BY <2>3, <2>4 DEF FrozenFiles, Pcs
  <2> QED
    BY <1>3, <2>1, <2>2, <2>3, <2>4, <2>6, <2>7 DEF VerifyInv
<1> QED
  BY <1>2, <1>3 DEF Rebind

LEMMA VerifyInvStep == ShapeInv /\ VerifyInv /\ [Next]_vars => VerifyInv'
<1> SUFFICES ASSUME ShapeInv, VerifyInv, [Next]_vars PROVE VerifyInv'
  OBVIOUS
<1>1. CASE UNCHANGED <<job, dir, touched>>
  <2>1. /\ RowsHold' <=> RowsHold
        /\ SnapBinds' <=> SnapBinds
        /\ \A f : AsWas(f)' <=> AsWas(f)
        /\ \A f : AsBound(f)' <=> AsBound(f)
        /\ FrozenFiles' = FrozenFiles
    BY <1>1, SameFrozen DEF FrozenFiles
  <2> QED
    BY <1>1, <2>1 DEF VerifyInv, Verifying
<1>2. CASE job' = Idle
  BY <1>2, NotVerifying DEF Idle
<1>3. CASE Upstream \/ Migrate \/ UNCHANGED vars
  BY <1>1, <1>3 DEF Upstream, Change, Migrate, vars
<1>4. ASSUME NEW f \in Inputs, Refetch(f) PROVE VerifyInv'
  <2>1. UNCHANGED job /\ touched' = touched \cup {f} /\ dir' = [dir EXCEPT ![f] = Collected(f)]
    BY <1>4 DEF Refetch
  <2>2. /\ RowsHold' <=> RowsHold
        /\ SnapBinds' <=> SnapBinds
        /\ \A g : AsWas(g)' <=> AsWas(g)
        /\ \A g : AsBound(g)' <=> AsBound(g)
        /\ FrozenFiles' = FrozenFiles
    BY <2>1, SameFrozen DEF FrozenFiles
  <2>3. ASSUME Verifying PROVE FrozenFiles \subseteq Files /\ dir = [g \in Files |-> dir[g]]
    BY <2>3 DEF FrozenFiles, Whole, Bodies, Heads, Closure, Files, Inputs, Verifying, HasDir,
                ShapeInv, DirShape
  <2>4. ASSUME Verifying, NEW g \in DOMAIN job.frozen, g \notin touched'
        PROVE  job'.frozen[g] = dir'[g]
    BY <2>1, <2>3, <2>4 DEF VerifyInv
  <2> QED
    BY <2>1, <2>2, <2>4 DEF VerifyInv, Verifying
<1>5. CASE StartBuild \/ StartSeed
  <2>1. job'.name \in {"build", "seed"}
    BY <1>5 DEF StartBuild, StartSeed
  <2> QED
    BY <2>1, NotVerifying
<1>6. CASE BuildFamilies
  <2>1. CASE job' = [job EXCEPT !.pc = "classify",
                       !.got = [families |-> dir["families"], price |-> dir["price"]]]
    <3>1. job.name = "build" /\ BuildShape
      BY <1>6, JobNames DEF BuildFamilies, ShapeInv
    <3>2. job'.name = "build"
      BY <2>1, <3>1 DEF BuildShape
    <3> QED
      BY <3>2, NotVerifying
  <2> QED
    BY <1>2, <1>6, <2>1 DEF BuildFamilies, Done
<1>7. CASE BuildManifest
  BY <1>2, <1>7, FreshInv DEF BuildManifest, Done
<1>8. CASE AcceptPublication
  <2>1. CASE Proceed([Fresh("publish", job.prev) EXCEPT !.pass = 2, !.result = Manifest])
    BY <2>1, FreshInv DEF Proceed
  <2> QED
    BY <1>2, <1>8, <2>1, RefuseIdle DEF AcceptPublication, Done
<1>9. CASE PersistRun \/ Stop
  BY <1>2, <1>9 DEF PersistRun, Stop, Done
<1>10. CASE StartRecovery
  BY <1>10, FreshInv DEF StartRecovery
<1>11. CASE StartDaily
  BY <1>11, FreshInv DEF StartDaily
<1>12. CASE PutOnce
  BY <1>1, <1>2, <1>12 DEF PutOnce
<1> QED
  BY <1>3, <1>4, <1>5, <1>6, <1>7, <1>8, <1>9, <1>10, <1>11, <1>12, FreezeManifestsInv,
     ValidateRowsInv, BindUpstreamInv, FreezeClosureInv, SweepInv, RebindInv DEF Next, Step

LEMMA AcceptHolds == VerifyInv => AcceptedTogether
<1> SUFFICES ASSUME VerifyInv, Verifying, job.pc = "accept"
             PROVE  /\ \A f \in DOMAIN job.frozen : job.frozen[f] = job.was[f]
                    /\ Verifies(Manifest, job.was)
  BY DEF AcceptedTogether
<1>1. /\ DOMAIN job.frozen = Whole /\ RowsHold /\ SnapBinds
      /\ \A f \in Files : AsWas(f)
      /\ \A f \in Read : AsBound(f)
  BY DEF VerifyInv, FrozenFiles, AfterRows, AfterBind, Pcs
<1>2. /\ Whole \subseteq Files /\ Heads \cup {"cash", "price", "notice"} \subseteq Whole
      /\ DartComponents(Manifest.rows) # {} => {"body", "rows"} \subseteq Whole
  BY DEF Whole, Bodies, Heads, Closure, Files, Inputs
<1>3. \A f \in Whole : job.frozen[f] = job.was[f]
  BY <1>1, <1>2 DEF AsWas
<1>4. /\ job.was["families"] = job.snap.families /\ job.was["kind"] = job.snap.kind
      /\ DartComponents(Manifest.rows) # {} =>
           job.was["body"] = job.snap.body /\ job.was["rows"] = job.snap.rows
  BY <1>1, <1>2, <1>3 DEF AsBound, SnapOf, Read, Heads
<1>5. /\ job.was["cash"] = job.frozen["cash"] /\ job.was["price"] = job.frozen["price"]
      /\ job.was["notice"] = job.frozen["notice"]
      /\ DartComponents(Manifest.rows) # {} => job.was["body"] = job.frozen["body"]
  BY <1>2, <1>3
<1>6. DartComponents(Manifest.rows) = {} => ComponentBodies(Manifest.rows, job.was["body"])
  BY DEF ComponentBodies
<1>7. Verifies(Manifest, job.was)
  BY <1>1, <1>4, <1>5, <1>6 DEF Verifies, RowsHold, SnapBinds
<1> QED
  BY <1>1, <1>3, <1>7

(* What a verification accepts was on disk all at once, whatever files     *)
(* were collected again meanwhile (verify_source_evidence_manifest).       *)
THEOREM Accepted == Spec => []AcceptedTogether
<1>1. Init => ShapeInv /\ VerifyInv
  BY DEF Init, ShapeInv, Shape, DirShape, S3Shape, HasDir, Idle, VerifyInv, Verifying
<1>2. VerifyInv => AcceptedTogether
  BY AcceptHolds
<1> QED
  BY ShapeStep, VerifyInvStep, <1>1, <1>2, PTL DEF Spec

-----------------------------------------------------------------------------
(* The operator's directory.  A publication can still put back a manifest  *)
(* that was published before it.                                           *)
PublishInv ==
    /\ stops \in Nat /\ touched \subseteq Inputs
    /\ stops = 0 =>
         /\ job.name # "publish" => base \in built \cup {Absent}
         /\ job.name = "build" => job.prev = base
         /\ job.name = "publish" =>
              job.prev \in built \cup {Absent} /\ dir["manifest"] = base

LEMMA PublishStep == ShapeInv /\ VerifyInv /\ PublishInv /\ [Next]_vars => PublishInv'
<1> SUFFICES ASSUME ShapeInv, VerifyInv, PublishInv, [Next]_vars PROVE PublishInv'
  OBVIOUS
<1>1. CASE UNCHANGED <<job, dir, base, built, stops, touched>>
  BY <1>1 DEF PublishInv
<1>2. CASE Upstream \/ Migrate \/ UNCHANGED vars
  BY <1>1, <1>2 DEF Upstream, Change, Migrate, vars
<1>3. ASSUME job' = Idle, base' = base, built' = built, stops' = stops, touched' = {},
             job.name # "publish"
      PROVE  PublishInv'
  BY <1>3 DEF PublishInv, Idle
<1>4. ASSUME Refuse, built' = built, stops' = stops PROVE PublishInv'
  <2>1. job' = Idle /\ touched' = {}
    BY <1>4 DEF Refuse, Done
  <2>2. base' = IF job.name = "publish" THEN job.prev ELSE base
    BY <1>4 DEF Refuse
  <2> QED
    BY <1>4, <2>1, <2>2 DEF PublishInv, Idle
<1>5. ASSUME NEW f \in Inputs, Refetch(f) PROVE PublishInv'
  <2>1. /\ UNCHANGED <<job, base, built, stops>> /\ touched' = touched \cup {f}
        /\ dir' = [dir EXCEPT ![f] = Collected(f)]
    BY <1>5 DEF Refetch
  <2>2. job.name = "publish" => dir'["manifest"] = dir["manifest"]
    <3> SUFFICES ASSUME job.name = "publish" PROVE dir'["manifest"] = dir["manifest"]
      OBVIOUS
    <3>1. dir = [g \in Files |-> dir[g]]
      BY DEF ShapeInv, DirShape, HasDir
    <3>2. f # "manifest" /\ "manifest" \in Files
      BY DEF Inputs, Files
    <3> QED
      BY <2>1, <3>1, <3>2
  <2> QED
    BY <2>1, <2>2 DEF PublishInv
<1>6. CASE StartBuild
  <2>1. /\ job.name = "idle" /\ job'.name = "build" /\ job'.prev = base
        /\ UNCHANGED <<base, built, stops, touched>>
    BY <1>6 DEF StartBuild, Idle
  <2> QED
    BY <2>1 DEF PublishInv
<1>7. CASE BuildFamilies
  <2>1. job.name = "build" /\ UNCHANGED <<base, built, stops>>
    BY <1>7 DEF BuildFamilies
  <2>2. CASE /\ UNCHANGED <<dir, touched>>
             /\ job' = [job EXCEPT !.pc = "classify",
                          !.got = [families |-> dir["families"], price |-> dir["price"]]]
    <3>1. PICK pc, prev, got : job = [name |-> "build", pc |-> pc, prev |-> prev, got |-> got]
      BY <2>1, JobNames DEF ShapeInv, BuildShape
    <3>2. job'.name = "build" /\ job'.prev = job.prev
      BY <2>2, <3>1
    <3> QED
      BY <2>1, <2>2, <3>2 DEF PublishInv
  <2> QED
    BY <1>3, <1>7, <2>1, <2>2 DEF BuildFamilies, Done
<1>8. CASE BuildManifest
  <2>1. job.name = "build" /\ UNCHANGED <<built, stops>>
    BY <1>8 DEF BuildManifest
  <2>2. CASE /\ dir' = [dir EXCEPT !["manifest"] = BuildOne(Input)]
             /\ base' = BuildOne(Input)
             /\ job' = Fresh("publish", job.prev) /\ UNCHANGED touched
    <3>1. dir = [g \in Files |-> dir[g]] /\ "manifest" \in Files
      BY <2>1 DEF ShapeInv, DirShape, HasDir, Files
    <3>2. dir'["manifest"] = base'
      BY <2>2, <3>1
    <3>3. job'.name = "publish" /\ job'.prev = job.prev
      BY <2>2 DEF Fresh
    <3> QED
      BY <2>1, <2>2, <3>2, <3>3 DEF PublishInv
  <2> QED
    BY <1>3, <1>8, <2>1, <2>2 DEF BuildManifest, Done
<1>9. CASE VerifyStep
  <2>1. UNCHANGED <<built, stops>>
    BY <1>9 DEF VerifyStep, FreezeManifests, ValidateRows, BindUpstream, FreezeClosure, Sweep,
                Rebind
  <2>2. CASE Refuse
    BY <1>4, <2>1, <2>2
  <2>3. CASE ~Refuse
    <3>1. /\ Verifying /\ dir' = dir /\ base' = base
          /\ job'.name = job.name /\ job'.prev = job.prev
      BY <1>9, <2>3, VerifyGoes DEF ShapeInv, Went
    <3>2. touched' \subseteq touched
      <4>1. CASE FreezeManifests
        BY <2>3, <4>1 DEF FreezeManifests
      <4>2. CASE ValidateRows
        BY <2>3, <4>2 DEF ValidateRows
      <4>3. CASE BindUpstream \/ Sweep \/ Rebind
        BY <2>3, <4>3 DEF BindUpstream, Sweep, Rebind
      <4>4. CASE FreezeClosure
        BY <4>4 DEF FreezeClosure
      <4> QED
        BY <1>9, <4>1, <4>2, <4>3, <4>4 DEF VerifyStep
    <3> QED
      BY <2>1, <3>1, <3>2 DEF PublishInv, Verifying
  <2> QED
    BY <2>2, <2>3
<1>10. CASE AcceptPublication
  <2>1. job.name = "publish" /\ job.pc = "accept" /\ stops' = stops
    BY <1>10 DEF AcceptPublication
  <2>2. stops = 0 => Manifest = base
    <3> SUFFICES ASSUME stops = 0 PROVE Manifest = base
      OBVIOUS
    <3>1. "manifest" \in DOMAIN job.frozen /\ "manifest" \notin touched
      BY <2>1 DEF VerifyInv, Verifying, FrozenFiles, Whole, Bodies, Heads, PublishInv, Inputs
    <3>2. job.frozen["manifest"] = dir["manifest"]
      BY <2>1, <3>1 DEF VerifyInv, Verifying
    <3> QED
      BY <2>1, <3>2 DEF Manifest, PublishInv
  <2>3. CASE /\ Proceed([Fresh("publish", job.prev) EXCEPT !.pass = 2, !.result = Manifest])
             /\ UNCHANGED <<touched, built>>
    <3>1. job'.name = "publish" /\ job'.prev = job.prev /\ UNCHANGED <<base, dir>>
      BY <2>3 DEF Proceed, Fresh
    <3> QED
      BY <2>1, <2>3, <3>1 DEF PublishInv
  <2>4. CASE Done /\ built' = built \cup {Manifest} /\ UNCHANGED base
    <3>1. job'.name = "idle" /\ touched' = {}
      BY <2>4 DEF Done, Idle
    <3> QED
      BY <2>1, <2>2, <2>4, <3>1 DEF PublishInv
  <2>5. CASE Refuse /\ UNCHANGED built
    BY <1>4, <2>1, <2>5
  <2> QED
    BY <1>10, <2>3, <2>4, <2>5 DEF AcceptPublication
<1>11. CASE PersistRun
  BY <1>3, <1>11 DEF PersistRun, Done
<1>12. CASE StartRecovery \/ StartDaily \/ StartSeed
  <2>1. /\ job.name = "idle" /\ job'.name \in {"recovery", "daily", "seed"}
        /\ UNCHANGED <<base, built, stops, touched>>
    BY <1>12 DEF StartRecovery, StartDaily, StartSeed, Idle, Fresh
  <2> QED
    BY <2>1 DEF PublishInv
<1>13. CASE PutOnce
  <2>1. job.name = "seed" /\ UNCHANGED <<dir, base, built, stops, touched>>
    BY <1>13 DEF PutOnce
  <2>2. UNCHANGED job \/ job' = Idle
    BY <1>13 DEF PutOnce
  <2> QED
    BY <2>1, <2>2 DEF PublishInv, Idle
<1>14. CASE Stop
  <2>1. stops' = stops + 1 /\ touched' = {}
    BY <1>14 DEF Stop, Done
  <2> QED
    BY <2>1 DEF PublishInv
<1> QED
  BY <1>2, <1>5, <1>6, <1>7, <1>8, <1>9, <1>10, <1>11, <1>12, <1>13, <1>14
     DEF Next, Step, VerifyStep

(* Without a stopped process the operator's directory holds no manifest    *)
(* but one a publication verified twice (_publish_source_manifest).        *)
THEOREM Restored == Spec => []PublishedOrRestored
<1>1. Init => ShapeInv /\ VerifyInv /\ PublishInv
  BY DEF Init, ShapeInv, Shape, DirShape, S3Shape, HasDir, Idle, VerifyInv, Verifying,
         PublishInv
<1>2. PublishInv => PublishedOrRestored
  BY DEF PublishInv, PublishedOrRestored, Idle
<1> QED
  BY ShapeStep, VerifyInvStep, PublishStep, <1>1, <1>2, PTL DEF Spec

-----------------------------------------------------------------------------
(* One entitlement, one component.                                         *)
LEMMA AtMostOne ==
    ASSUME NEW S, IsFiniteSet(S), Cardinality(S) <= 1
    PROVE  \A x, y \in S : x = y
<1> SUFFICES ASSUME NEW x \in S, NEW y \in S, x # y PROVE FALSE
  OBVIOUS
<1>1. IsFiniteSet({x}) /\ Cardinality({x}) = 1
  BY FS_Singleton
<1>2. y \notin {x}
  OBVIOUS
<1>4. IsFiniteSet({x} \cup {y}) /\ Cardinality({x} \cup {y}) = Cardinality({x}) + 1
  BY <1>1, <1>2, FS_AddElement, Zenon
<1>3. {x} \cup {y} \subseteq S
  OBVIOUS
<1>5. Cardinality({x} \cup {y}) <= Cardinality(S) /\ Cardinality(S) \in Nat
  BY <1>3, FS_Subset, FS_CardinalityType
<1> QED
  BY <1>1, <1>4, <1>5

LEMMA OneOrNone ==
    ASSUME NEW S, \A x, y \in S : x = y
    PROVE  Cardinality(S) <= 1
<1>1. CASE S = {}
  BY <1>1, FS_EmptySet
<1>2. CASE S # {}
  <2>1. PICK x \in S : TRUE
    BY <1>2
  <2>2. S = {x}
    BY <2>1
  <2> QED
    BY <2>2, FS_Singleton
<1> QED
  BY <1>1, <1>2

Entitlements(rows) ==
    {r \in rows : r.role = "ADJUSTMENT_COMPONENT" /\ r.act \in {Stock, Paid}}

(* The two roles of a row.                                                *)
LEMMA ComponentRole ==
    ASSUME NEW in, NEW r \in ComponentSupports(in)
    PROVE  r.role = "ADJUSTMENT_COMPONENT"
<1>1. \/ \E f \in Admitted(in, Stock) \cup Admitted(in, Bonus) :
           r = Component(Source(f), f.act, f.ver)
      \/ \E k \in in.kind : r = Component("KRX_KIND", k.act, k.ver)
  BY DEF ComponentSupports
<1> QED
  BY <1>1 DEF Component

LEMMA DartRole ==
    ASSUME NEW in, NEW groups, NEW r \in DartCorroborations(in, groups)
    PROVE  r.role = "CORROBORATION"
<1>1. \E n : r = Corroboration("DART_DISCLOSURE", n, NamedGroups(n, TRUE) \cap groups)
  BY DEF DartCorroborations
<1> QED
  BY <1>1 DEF Corroboration

LEMMA KindRole ==
    ASSUME NEW in, NEW groups, NEW r \in KindCorroborations(in, groups)
    PROVE  r.role = "CORROBORATION"
<1>1. \E k : r = Corroboration("KRX_KIND", k.note, NamedGroups(k.note, FALSE) \cap groups)
  BY DEF KindCorroborations
<1> QED
  BY <1>1 DEF Corroboration

(* The sources that describe an entitlement exclude each other, so what a  *)
(* classified event is given holds one component of it (_component_supports). *)
LEMMA ClassifiedOnce ==
    ASSUME NEW in, IsFiniteSet(in.families), IsFiniteSet(in.kind), Classifies(in)
    PROVE  \A x, y \in Entitlements(Supports(in)) : x = y
<1> DEFINE stock == Admitted(in, Stock)
           kindStock == KindOf(in.kind, "ADJUSTMENT_COMPONENT", Stock)
           kindPaid == KindOf(in.kind, "ADJUSTMENT_COMPONENT", Paid)
           Kind(k) == Component("KRX_KIND", k.act, k.ver)
           Dart(f) == Component(Source(f), f.act, f.ver)
<1>1. /\ Cardinality(stock) <= 1 /\ Cardinality(kindStock) <= 1 /\ Cardinality(kindPaid) <= 1
      /\ kindStock = {} \/ stock = {}
      /\ kindPaid = {} \/ (stock = {} /\ kindStock = {})
  BY DEF Classifies, ComponentsAgree
<1>2. stock \subseteq in.families /\ kindStock \subseteq in.kind /\ kindPaid \subseteq in.kind
  BY DEF Admitted, OfAct, KindOf
<1>3. IsFiniteSet(stock) /\ IsFiniteSet(kindStock) /\ IsFiniteSet(kindPaid)
  BY <1>2, FS_Subset
<1>4. \A x, y \in stock : x = y
  BY <1>1, <1>3, AtMostOne
<1>5. \A x, y \in kindStock : x = y
  BY <1>1, <1>3, AtMostOne
<1>6. \A x, y \in kindPaid : x = y
  BY <1>1, <1>3, AtMostOne
<1>7. ASSUME NEW r \in Entitlements(Supports(in))
      PROVE  \/ \E f \in stock : r = Dart(f)
             \/ \E k \in kindStock : r = Kind(k)
             \/ \E k \in kindPaid : r = Kind(k)
  <2>1. r \in Supports(in) /\ r.role = "ADJUSTMENT_COMPONENT" /\ r.act \in {Stock, Paid}
    BY <1>7 DEF Entitlements
  <2>2. r \in ComponentSupports(in)
    <3>2. \A q \in DartCorroborations(in, GroupsOf(ComponentSupports(in))) :
            q.role = "CORROBORATION"
      BY DartRole
    <3>3. \A q \in KindCorroborations(in, GroupsOf(ComponentSupports(in))) :
            q.role = "CORROBORATION"
      BY KindRole
    <3>4. r \notin DartCorroborations(in, GroupsOf(ComponentSupports(in)))
      BY <2>1, <3>2
    <3>5. r \notin KindCorroborations(in, GroupsOf(ComponentSupports(in)))
      BY <2>1, <3>3
    <3> QED
      BY <2>1, <3>4, <3>5, Zenon DEF Supports
  <2>3. CASE \E f \in Admitted(in, Stock) \cup Admitted(in, Bonus) : r = Dart(f)
    <3>1. PICK f \in Admitted(in, Stock) \cup Admitted(in, Bonus) : r = Dart(f)
      BY <2>3
    <3>2. r.act = f.act
      BY <3>1 DEF Component
    <3>3. f \in Admitted(in, Bonus) => f.act = "bonus_issue"
      BY DEF Admitted, OfAct, Bonus
    <3> QED
      BY <2>1, <3>1, <3>2, <3>3 DEF Stock, Paid
  <2>4. CASE \E k \in in.kind : k.role = "ADJUSTMENT_COMPONENT" /\ r = Kind(k)
    <3>1. PICK k \in in.kind : k.role = "ADJUSTMENT_COMPONENT" /\ r = Kind(k)
      BY <2>4
    <3>2. r.act = k.act
      BY <3>1 DEF Component
    <3> QED
      BY <2>1, <3>1, <3>2 DEF KindOf
  <2> QED
    BY <2>2, <2>3, <2>4 DEF ComponentSupports
<1> HIDE DEF stock, kindStock, kindPaid, Kind, Dart
<1>8. SUFFICES ASSUME NEW x \in Entitlements(Supports(in)), NEW y \in Entitlements(Supports(in))
      PROVE  x = y
  OBVIOUS
<1>9. \/ \E f \in stock : x = Dart(f)
      \/ \E k \in kindStock : x = Kind(k)
      \/ \E k \in kindPaid : x = Kind(k)
  BY <1>7
<1>10. \/ \E f \in stock : y = Dart(f)
       \/ \E k \in kindStock : y = Kind(k)
       \/ \E k \in kindPaid : y = Kind(k)
  BY <1>7
<1>11. CASE stock # {}
  BY <1>1, <1>4, <1>9, <1>10, <1>11
<1>12. CASE kindStock # {}
  BY <1>1, <1>5, <1>9, <1>10, <1>12
<1>13. CASE kindPaid # {}
  BY <1>1, <1>6, <1>9, <1>10, <1>13
<1> QED
  BY <1>9, <1>11, <1>12, <1>13

LEMMA FiniteVersions ==
    ASSUME NEW fs, IsFiniteSet(fs), NEW v
    PROVE  IsFiniteSet({[f EXCEPT !.ver = v] : f \in fs})
<1> DEFINE T == {[f EXCEPT !.ver = v] : f \in fs}
           m == [f \in fs |-> [f EXCEPT !.ver = v]]
<1>1. m \in [fs -> T] /\ \A t \in T : \E f \in fs : m[f] = t
  OBVIOUS
<1> HIDE DEF T, m
<1>2. m \in Surjection(fs, T)
  BY <1>1 DEF Surjection
<1>3. IsFiniteSet(T)
  BY <1>2, FS_Surjection
<1> QED
  BY <1>3 DEF T

(* What a build reads is finite: it reads the official files, first or     *)
(* collected again.                                                        *)
FiniteFamilies(d) == IsFiniteSet(d["families"]) /\ IsFiniteSet(d["kind"])
Official == DOMAIN bronze = Inputs /\ FiniteFamilies(bronze)
FiniteInv ==
    /\ Official
    /\ job.name = "build" => FiniteFamilies(dir)
    /\ job.name = "build" /\ job.pc = "classify" => IsFiniteSet(job.got.families)

LEMMA UpstreamKeeps ==
    ASSUME FiniteInv, Upstream PROVE Official' /\ bronze'["kind"] = bronze["kind"]
<1> USE DEF FiniteFamilies
<1> DEFINE Kept == Official' /\ bronze'["kind"] = bronze["kind"]
<1>1. DOMAIN bronze = Inputs /\ {"families", "kind", "body", "rows", "cash"} \subseteq Inputs
  BY DEF FiniteInv, Official, Inputs
<1>2. ASSUME NEW fs \in Revisions, NEW v,
             bronze' = [bronze EXCEPT !["families"] = {[f EXCEPT !.ver = v] : f \in fs},
                                      !["body"] = v]
      PROVE  Kept
  <2> DEFINE T == {[f EXCEPT !.ver = v] : f \in fs}
  <2>1. IsFiniteSet(T)
    <3>1. IsFiniteSet(fs)
      BY FiniteFiles
    <3> QED
      BY ONLY <3>1, FiniteVersions
  <2> HIDE DEF T
  <2>2. bronze' = [bronze EXCEPT !["families"] = T, !["body"] = v]
    BY <1>2 DEF T
  <2>3. DOMAIN bronze' = Inputs /\ bronze'["families"] = T /\ bronze'["kind"] = bronze["kind"]
    BY <1>1, <2>2
  <2> QED
    BY <2>1, <2>3 DEF FiniteInv, Official
<1>3. ASSUME NEW r, bronze' = [bronze EXCEPT !["rows"] = r]
      PROVE  Kept
  <2>1. /\ DOMAIN bronze' = Inputs /\ bronze'["families"] = bronze["families"]
        /\ bronze'["kind"] = bronze["kind"]
    BY <1>1, <1>3
  <2> QED
    BY <2>1 DEF FiniteInv, Official
<1>4. ASSUME NEW l, NEW e,
             bronze' = [bronze EXCEPT !["cash"].list = @ + l, !["cash"].econ = @ + e]
      PROVE  Kept
  <2> DEFINE c == [bronze["cash"] EXCEPT !.list = @ + l]
  <2>1. bronze' = [[bronze EXCEPT !["cash"] = c] EXCEPT !["cash"].econ = @ + e]
    BY <1>1, <1>4
  <2> HIDE DEF c
  <2>2. /\ DOMAIN bronze' = Inputs /\ bronze'["families"] = bronze["families"]
        /\ bronze'["kind"] = bronze["kind"]
    BY <1>1, <2>1
  <2> QED
    BY <2>2 DEF FiniteInv, Official
<1>5. Kept
  <2>1. \/ \E fs \in Revisions, v \in {bronze["body"], bronze["body"] + 1} :
             bronze' = [bronze EXCEPT !["families"] = {[f EXCEPT !.ver = v] : f \in fs},
                                      !["body"] = v]
        \/ \E r : bronze' = [bronze EXCEPT !["rows"] = r]
        \/ \E l, e \in 0..1 :
             bronze' = [bronze EXCEPT !["cash"].list = @ + l, !["cash"].econ = @ + e]
    BY DEF Upstream, Change
  <2> QED
    BY <1>2, <1>3, <1>4, <2>1
<1> QED
  BY <1>5

LEMMA FiniteStep == ShapeInv /\ FiniteInv /\ [Next]_vars => FiniteInv'
<1> SUFFICES ASSUME ShapeInv, FiniteInv, [Next]_vars PROVE FiniteInv'
  OBVIOUS
<1> USE DEF FiniteFamilies
<1>1. CASE UNCHANGED <<bronze, job, dir>>
  BY <1>1 DEF FiniteInv, Official
<1>2. CASE job'.name # "build" /\ bronze' = bronze
  BY <1>2 DEF FiniteInv, Official
<1>3. CASE Upstream
  <2>1. UNCHANGED <<job, dir>>
    BY <1>3 DEF Upstream, Change
  <2> QED
    BY <1>3, <2>1, UpstreamKeeps DEF FiniteInv
<1>4. ASSUME NEW f \in Inputs, Refetch(f) PROVE FiniteInv'
  <2>1. UNCHANGED <<job, bronze>> /\ dir' = [dir EXCEPT ![f] = Collected(f)]
    BY <1>4 DEF Refetch
  <2>2. job.name = "build" => FiniteFamilies(dir')
    <3> SUFFICES ASSUME job.name = "build" PROVE FiniteFamilies(dir')
      OBVIOUS
    <3>1. dir = [g \in Files |-> dir[g]] /\ {"families", "kind"} \subseteq Files
      BY DEF ShapeInv, DirShape, HasDir, Files, Inputs
    <3>2. \A g \in Files : dir'[g] = IF g = f THEN bronze[f] ELSE dir[g]
      BY <2>1, <3>1 DEF Collected
    <3> QED
      BY <3>1, <3>2 DEF FiniteInv, Official
  <2> QED
    BY <2>1, <2>2 DEF FiniteInv, Official
<1>5. CASE StartBuild
  <2>1. job'.name = "build" /\ job'.pc = "families" /\ bronze' = bronze
    BY <1>5 DEF StartBuild
  <2>2. dir' = [f \in Files |-> IF f = "manifest" THEN base ELSE bronze[f]]
    BY <1>5 DEF StartBuild, Load
  <2>3. dir'["families"] = bronze["families"] /\ dir'["kind"] = bronze["kind"]
    BY <2>2 DEF Files, Inputs
  <2> QED
    BY <2>1, <2>3 DEF FiniteInv, Official
<1>6. CASE BuildFamilies
  <2>1. job.name = "build" /\ bronze' = bronze
    BY <1>6 DEF BuildFamilies
  <2>2. CASE /\ dir' = dir
             /\ job' = [job EXCEPT !.pc = "classify",
                          !.got = [families |-> dir["families"], price |-> dir["price"]]]
    <3>1. PICK pc, prev, got : job = [name |-> "build", pc |-> pc, prev |-> prev, got |-> got]
      BY <2>1, JobNames DEF ShapeInv, BuildShape
    <3>2. job'.got.families = dir["families"]
      BY <2>2, <3>1
    <3> QED
      BY <2>1, <2>2, <3>2 DEF FiniteInv, Official
  <2> QED
    BY <1>2, <1>6, <2>1, <2>2 DEF BuildFamilies, Done, Idle
<1>7. CASE BuildManifest
  <2>1. bronze' = bronze /\ job'.name # "build"
    BY <1>7 DEF BuildManifest, Done, Idle, Fresh
  <2> QED
    BY <1>2, <2>1
<1>8. CASE VerifyStep
  <2>1. bronze' = bronze
    BY <1>8 DEF VerifyStep, FreezeManifests, ValidateRows, BindUpstream, FreezeClosure, Sweep,
                Rebind
  <2>2. job'.name # "build"
    BY <1>8, VerifyGoes, RefuseIdle DEF ShapeInv, Went, Verifying, Idle
  <2> QED
    BY <1>2, <2>1, <2>2
<1>9. CASE AcceptPublication
  <2>1. CASE Proceed([Fresh("publish", job.prev) EXCEPT !.pass = 2, !.result = Manifest])
    BY <1>2, <1>9, <2>1 DEF AcceptPublication, Proceed, Fresh
  <2>2. CASE job' = Idle
    BY <1>2, <1>9, <2>2 DEF AcceptPublication, Idle
  <2> QED
    BY <1>9, <2>1, <2>2, RefuseIdle DEF AcceptPublication, Done
<1>10. CASE PersistRun \/ Stop
  BY <1>2, <1>10 DEF PersistRun, Stop, Done, Idle
<1>11. CASE StartRecovery \/ StartDaily \/ StartSeed
  BY <1>2, <1>11 DEF StartRecovery, StartDaily, StartSeed, Fresh
<1>12. CASE PutOnce
  <2>1. bronze' = bronze /\ dir' = dir /\ (job' = job \/ job' = Idle)
    BY <1>12 DEF PutOnce
  <2> QED
    BY <1>1, <1>2, <2>1 DEF Idle
<1>13. CASE Migrate \/ UNCHANGED vars
  BY <1>1, <1>13 DEF Migrate, vars
<1> QED
  BY <1>3, <1>4, <1>5, <1>6, <1>7, <1>8, <1>9, <1>10, <1>11, <1>12, <1>13
     DEF Next, Step, VerifyStep

(* Every manifest, wherever it is kept, holds one entitlement once.        *)
Single(m) ==
    /\ IsManifest(m)
    /\ m # Absent => \A x, y \in Entitlements(m.rows) : x = y

SingleInv ==
    /\ Single(base) /\ Single(db) /\ Single(s3.manifest)
    /\ HasDir => Single(dir["manifest"])
    /\ job.name = "build" \/ Verifying => Single(job.prev)
    /\ Verifying /\ "manifest" \in DOMAIN job.frozen => Single(job.frozen["manifest"])
    /\ job.name = "seed" => Single(job.manifest)

LEMMA BuiltSingle ==
    ASSUME FiniteInv, job.name = "build", job.pc = "classify", Classifies(Input)
    PROVE  Single(BuildOne(Input))
<1>1. IsFiniteSet(Input.families) /\ IsFiniteSet(Input.kind)
  BY DEF FiniteInv, FiniteFamilies, Input
<1>2. \A x, y \in Entitlements(Supports(Input)) : x = y
  BY <1>1, ClassifiedOnce
<1>3. \A r \in Supports(Input) : r.role \in {"ADJUSTMENT_COMPONENT", "CORROBORATION"}
  <2> DEFINE groups == GroupsOf(ComponentSupports(Input))
  <2>2. \A r \in ComponentSupports(Input) : r.role = "ADJUSTMENT_COMPONENT"
    BY ComponentRole
  <2>3. \A r \in DartCorroborations(Input, groups) : r.role = "CORROBORATION"
    BY DartRole
  <2>4. \A r \in KindCorroborations(Input, groups) : r.role = "CORROBORATION"
    BY KindRole
  <2>5. \A r \in Supports(Input) : \/ r \in ComponentSupports(Input)
                                  \/ r \in DartCorroborations(Input, groups)
                                  \/ r \in KindCorroborations(Input, groups)
    BY DEF Supports
  <2> QED
    BY <2>2, <2>3, <2>4, <2>5
<1>4. /\ DOMAIN BuildOne(Input) = {"list", "econ", "price", "rows"}
      /\ BuildOne(Input).rows = Supports(Input)
  BY DEF BuildOne
<1> QED
  BY <1>2, <1>3, <1>4 DEF Single, IsManifest

(* What a step of a verification does to the frozen files.                 *)
LEMMA FrozenGrows ==
    ASSUME Shape, VerifyStep, ~Refuse
    PROVE  job'.frozen = job.frozen \/ \E fs : job'.frozen = Freeze(fs)
<1>1. Verifying /\ VerifyShape
  BY VerifyGoes
<1>2. CASE FreezeManifests
  <2>1. \E fs : Proceed([job EXCEPT !.pc = "rows", !.frozen = Freeze(fs)])
    BY <1>2 DEF FreezeManifests
  <2> QED
    BY <1>1, <2>1, GoFrozen DEF Proceed, Went
<1>3. CASE ValidateRows
  <2>1. \E fs : Proceed([job EXCEPT !.pc = "bind", !.frozen = Freeze(fs)])
    BY <1>3 DEF ValidateRows
  <2> QED
    BY <1>1, <2>1, GoFrozen DEF Proceed, Went
<1>4. CASE BindUpstream
  <2>1. Proceed([job EXCEPT !.pc = "close", !.snap = Snapshot])
    BY <1>4 DEF BindUpstream
  <2> QED
    BY <1>1, <2>1, GoSnap DEF Proceed, Went
<1>5. CASE FreezeClosure
  <2>1. Proceed([job EXCEPT !.pc = "sweep", !.frozen = Freeze(Closure({"rows"})), !.was = dir])
    BY <1>5 DEF FreezeClosure
  <2>2. Went("sweep", job.next, Freeze(Closure({"rows"})), job.snap, dir)
    BY <1>1, <2>1, GoClosed DEF Proceed
  <2> QED
    BY <2>2 DEF Went
<1>6. CASE Sweep
  <2>1. \/ Proceed([job EXCEPT !.next = job.next + 1])
        \/ Proceed([job EXCEPT !.next = 1, !.pc = IF job.pc = "sweep" THEN "rebind" ELSE "accept"])
    BY <1>6 DEF Sweep
  <2>2. CASE Proceed([job EXCEPT !.next = job.next + 1])
    BY <1>1, <2>2, GoNext DEF Proceed, Went
  <2>3. CASE Proceed([job EXCEPT !.next = 1,
                                 !.pc = IF job.pc = "sweep" THEN "rebind" ELSE "accept"])
    BY <1>1, <2>3, GoTurn DEF Proceed, Went
  <2> QED
    BY <2>1, <2>2, <2>3
<1>7. CASE Rebind
  <2>1. Proceed([job EXCEPT !.pc = "resweep"])
    BY <1>7 DEF Rebind
  <2> QED
    BY <1>1, <2>1, GoPc DEF Proceed, Went
<1> QED
  BY <1>2, <1>3, <1>4, <1>5, <1>6, <1>7 DEF VerifyStep

LEMMA SingleStep ==
    ShapeInv /\ VerifyInv /\ FiniteInv /\ SingleInv /\ [Next]_vars => SingleInv'
<1> SUFFICES ASSUME ShapeInv, VerifyInv, FiniteInv, SingleInv, [Next]_vars PROVE SingleInv'
  OBVIOUS
<1>1. CASE UNCHANGED <<base, db, s3, dir, job>>
  BY <1>1 DEF SingleInv, HasDir, Verifying
<1>2. ASSUME job' = Idle, Single(base'), Single(db'), s3' = s3 PROVE SingleInv'
  BY <1>2 DEF SingleInv, HasDir, Verifying, Idle
<1>3. ASSUME Refuse, db' = db, s3' = s3 PROVE SingleInv'
  <2>1. job' = Idle
    BY <1>3, RefuseIdle
  <2>2. base' = IF job.name = "publish" THEN job.prev ELSE base
    BY <1>3 DEF Refuse
  <2>3. Single(base')
    BY <2>2 DEF SingleInv, Verifying
  <2> QED
    BY <1>2, <1>3, <2>1, <2>3 DEF SingleInv
<1>4. ASSUME NEW n, NEW p, Single(p), Single(base'), Single(dir'["manifest"]),
             UNCHANGED <<db, s3>>,
             \/ job' = Fresh(n, p)
             \/ \E r : job' = [Fresh(n, p) EXCEPT !.pass = 2, !.result = r],
             n \in {"publish", "recovery", "daily"}
      PROVE  SingleInv'
  <2>1. job'.name = n /\ job'.prev = p /\ DOMAIN job'.frozen = {}
    <3>1. DOMAIN Nowhere = {}
      BY DEF Nowhere
    <3>2. CASE job' = Fresh(n, p)
      BY <3>1, <3>2 DEF Fresh
    <3>3. ASSUME NEW r, job' = [Fresh(n, p) EXCEPT !.pass = 2, !.result = r]
          PROVE  job'.name = n /\ job'.prev = p /\ DOMAIN job'.frozen = {}
      BY <3>1, <3>3 DEF Fresh
    <3> QED
      BY <1>4, <3>2, <3>3
  <2> QED
    BY <1>4, <2>1 DEF SingleInv, HasDir, Verifying
<1>5. CASE Upstream \/ UNCHANGED vars
  BY <1>1, <1>5 DEF Upstream, Change, vars
<1>6. ASSUME NEW f \in Inputs, Refetch(f) PROVE SingleInv'
  <2>1. UNCHANGED <<job, base, db, s3>> /\ dir' = [dir EXCEPT ![f] = Collected(f)]
    BY <1>6 DEF Refetch
  <2>2. HasDir => dir'["manifest"] = dir["manifest"]
    <3> SUFFICES ASSUME HasDir PROVE dir'["manifest"] = dir["manifest"]
      OBVIOUS
    <3>1. dir = [g \in Files |-> dir[g]]
      BY DEF ShapeInv, DirShape
    <3>2. f # "manifest" /\ "manifest" \in Files
      BY DEF Inputs, Files
    <3> QED
      BY <2>1, <3>1, <3>2
  <2> QED
    BY <2>1, <2>2 DEF SingleInv, HasDir, Verifying
<1>7. CASE StartBuild
  <2>1. job'.name = "build" /\ job'.prev = base /\ UNCHANGED <<base, db, s3>>
    BY <1>7 DEF StartBuild
  <2>2. dir'["manifest"] = base
    BY <1>7 DEF StartBuild, Load, Files
  <2> QED
    BY <2>1, <2>2 DEF SingleInv, HasDir, Verifying
<1>8. CASE BuildFamilies
  <2>1. job.name = "build" /\ UNCHANGED <<base, db, s3>>
    BY <1>8 DEF BuildFamilies
  <2>2. CASE /\ dir' = dir
             /\ job' = [job EXCEPT !.pc = "classify",
                          !.got = [families |-> dir["families"], price |-> dir["price"]]]
    <3>1. PICK pc, prev, got : job = [name |-> "build", pc |-> pc, prev |-> prev, got |-> got]
      BY <2>1, JobNames DEF ShapeInv, BuildShape
    <3>2. job'.name = "build" /\ job'.prev = job.prev
      BY <2>2, <3>1
    <3> QED
      BY <2>1, <2>2, <3>2 DEF SingleInv, HasDir, Verifying
  <2> QED
    BY <1>2, <1>8, <2>1, <2>2 DEF BuildFamilies, Done, SingleInv
<1>9. CASE BuildManifest
  <2>1. job.name = "build" /\ job.pc = "classify" /\ UNCHANGED <<db, s3>>
    BY <1>9 DEF BuildManifest
  <2>2. CASE /\ Classifies(Input)
             /\ dir' = [dir EXCEPT !["manifest"] = BuildOne(Input)]
             /\ base' = BuildOne(Input)
             /\ job' = Fresh("publish", job.prev)
    <3>1. Single(BuildOne(Input))
      BY <2>1, <2>2, BuiltSingle
    <3>2. dir = [g \in Files |-> dir[g]] /\ "manifest" \in Files
      BY <2>1 DEF ShapeInv, DirShape, HasDir, Files
    <3>3. dir'["manifest"] = BuildOne(Input)
      BY <2>2, <3>2
    <3>4. Single(job.prev)
      BY <2>1 DEF SingleInv
    <3> QED
      BY <1>4, <2>1, <2>2, <3>1, <3>3, <3>4
  <2>3. CASE Done /\ UNCHANGED base
    BY <1>2, <2>1, <2>3 DEF Done, SingleInv
  <2> QED
    BY <1>9, <2>2, <2>3 DEF BuildManifest
<1>10. CASE VerifyStep
  <2>1. UNCHANGED <<db, s3>>
    BY <1>10 DEF VerifyStep, FreezeManifests, ValidateRows, BindUpstream, FreezeClosure, Sweep,
                 Rebind
  <2>2. CASE Refuse
    BY <1>3, <2>1, <2>2
  <2>3. CASE ~Refuse
    <3>1. /\ Verifying /\ dir' = dir /\ base' = base
          /\ job'.name = job.name /\ job'.prev = job.prev
      BY <1>10, <2>3, VerifyGoes DEF ShapeInv, Went
    <3>2. "manifest" \in DOMAIN job'.frozen => Single(job'.frozen["manifest"])
      <4>1. CASE job'.frozen = job.frozen
        BY <3>1, <4>1 DEF SingleInv
      <4>2. ASSUME NEW fs, job'.frozen = Freeze(fs)
            PROVE  "manifest" \in DOMAIN job'.frozen => Single(job'.frozen["manifest"])
        <5>1. CASE "manifest" \in fs
          BY <3>1, <4>2, <5>1, FreezeFacts DEF SingleInv, HasDir, Verifying
        <5>2. CASE "manifest" \notin fs
          BY <3>1, <4>2, <5>2, FreezeFacts DEF SingleInv
        <5> QED
          BY <5>1, <5>2
      <4> QED
        BY <1>10, <2>3, <4>1, <4>2, FrozenGrows DEF ShapeInv
    <3> QED
      BY <2>1, <3>1, <3>2 DEF SingleInv, HasDir, Verifying
  <2> QED
    BY <2>2, <2>3
<1>11. CASE AcceptPublication
  <2>1. job.name = "publish" /\ UNCHANGED <<db, s3>>
    BY <1>11 DEF AcceptPublication
  <2>2. CASE Proceed([Fresh("publish", job.prev) EXCEPT !.pass = 2, !.result = Manifest])
    <3>1. Single(job.prev) /\ Single(base') /\ Single(dir'["manifest"])
      BY <2>1, <2>2 DEF SingleInv, Verifying, HasDir, Proceed
    <3> QED
      BY <1>4, <2>1, <2>2, <3>1 DEF Proceed
  <2>3. CASE Done /\ UNCHANGED base
    BY <1>2, <2>1, <2>3 DEF Done, SingleInv
  <2>4. CASE Refuse
    BY <1>3, <2>1, <2>4
  <2> QED
    BY <1>11, <2>2, <2>3, <2>4 DEF AcceptPublication
<1>12. CASE PersistRun
  <2>1. job' = Idle /\ base' = base /\ s3' = s3 /\ (db' = db \/ db' = Manifest)
    BY <1>12 DEF PersistRun, Done
  <2>2. Verifying /\ job.pc = "accept"
    BY <1>12 DEF PersistRun, Verifying
  <2>3. "manifest" \in DOMAIN job.frozen
    BY <2>2 DEF VerifyInv, FrozenFiles, Whole, Bodies, Heads
  <2>4. Single(Manifest)
    BY <2>2, <2>3 DEF SingleInv, Manifest
  <2> QED
    BY <1>2, <2>1, <2>4 DEF SingleInv
<1>13. CASE StartRecovery
  <2>1. job' = Fresh("recovery", Absent) /\ UNCHANGED <<base, db, s3>>
    BY <1>13 DEF StartRecovery
  <2>2. dir'["manifest"] = base
    BY <1>13 DEF StartRecovery, Load, Files
  <2>3. Single(Absent)
    BY DEF Single, IsManifest
  <2> QED
    BY <1>4, <2>1, <2>2, <2>3 DEF SingleInv
<1>14. CASE StartDaily
  <2>1. job' = Fresh("daily", Absent) /\ UNCHANGED <<base, db, s3>>
    BY <1>14 DEF StartDaily
  <2>2. dir'["manifest"] = s3.manifest
    BY <1>14 DEF StartDaily, Files
  <2>3. Single(Absent)
    BY DEF Single, IsManifest
  <2> QED
    BY <1>4, <2>1, <2>2, <2>3 DEF SingleInv
<1>15. CASE StartSeed
  <2>1. job'.name = "seed" /\ job'.manifest = db /\ UNCHANGED <<base, db, s3, dir>>
    BY <1>15 DEF StartSeed
  <2> QED
    BY <2>1 DEF SingleInv, HasDir, Verifying
<1>16. CASE PutOnce
  <2>1. job.name = "seed" /\ UNCHANGED <<dir, base, db>>
    BY <1>16 DEF PutOnce
  <2>2. CASE job' = Idle /\ UNCHANGED s3
    BY <1>2, <2>1, <2>2 DEF SingleInv
  <2>3. ASSUME NEW i \in DOMAIN SeedOrder, UNCHANGED job,
               s3' = [s3 EXCEPT ![SeedOrder[i]] = job[SeedOrder[i]]]
        PROVE  SingleInv'
    <3>1. S3Shape
      BY DEF ShapeInv
    <3>2. s3'.manifest = s3.manifest \/ s3'.manifest = job.manifest
      BY <2>3, <3>1 DEF S3Shape
    <3> QED
      BY <2>1, <2>3, <3>2 DEF SingleInv, HasDir, Verifying
  <2> QED
    BY <1>16, <2>2, <2>3 DEF PutOnce, Unseeded
<1>17. CASE Migrate
  <2>1. UNCHANGED <<base, db, dir, job>> /\ s3.manifest # Absent
    BY <1>17 DEF Migrate
  <2>2. S3Shape
    BY DEF ShapeInv
  <2>3. s3'.manifest = [s3.manifest EXCEPT !.list = bronze["cash"].list]
    BY <1>17, <2>2 DEF Migrate, S3Shape
  <2>4. /\ DOMAIN s3'.manifest = DOMAIN s3.manifest
        /\ s3'.manifest.rows = s3.manifest.rows
    BY <2>1, <2>3 DEF SingleInv, Single, IsManifest
  <2>5. Single(s3'.manifest)
    BY <2>1, <2>4 DEF SingleInv, Single, IsManifest
  <2> QED
    BY <2>1, <2>5 DEF SingleInv, HasDir, Verifying
<1>18. CASE Stop
  BY <1>2, <1>18 DEF Stop, Done, SingleInv
<1> QED
  BY <1>5, <1>6, <1>7, <1>8, <1>9, <1>10, <1>11, <1>12, <1>13, <1>14, <1>15, <1>16, <1>17,
     <1>18 DEF Next, Step, VerifyStep

LEMMA ManifestInit == Init => ShapeInv /\ VerifyInv /\ FiniteInv /\ SingleInv
<1> SUFFICES ASSUME Init PROVE ShapeInv /\ VerifyInv /\ FiniteInv /\ SingleInv
  OBVIOUS
<1>1. ShapeInv /\ VerifyInv
  BY DEF Init, ShapeInv, Shape, DirShape, S3Shape, HasDir, Idle, VerifyInv, Verifying
<1>2. FiniteInv
  BY FiniteFiles DEF Init, FiniteInv, Official, FiniteFamilies, Idle
<1>3. SingleInv
  BY DEF Init, SingleInv, Single, IsManifest, HasDir, Idle, Verifying
<1> QED
  BY <1>1, <1>2, <1>3

(* A persisted run never carries one entitlement twice: a built manifest   *)
(* does not, and verification, seed and migration keep its rows            *)
(* (_component_supports, verify_source_evidence_manifest).                 *)
THEOREM Entitled == Spec => []OneEntitlement
<1>1. Init => ShapeInv /\ VerifyInv /\ FiniteInv /\ SingleInv
  BY ManifestInit
<1>2. SingleInv => OneEntitlement
  <2> SUFFICES ASSUME SingleInv, db # Absent PROVE Cardinality(Entitlements(db.rows)) <= 1
    BY DEF OneEntitlement, Entitlements
  <2>1. \A x, y \in Entitlements(db.rows) : x = y
    BY DEF SingleInv, Single
  <2> QED
    BY <2>1, OneOrNone
<1> QED
  BY ShapeStep, VerifyInvStep, FiniteStep, SingleStep, <1>1, <1>2, PTL DEF Spec

-----------------------------------------------------------------------------
(* Type correctness, and the order in which a seed leaves its objects.     *)

Ranges ==
    /\ DOMAIN dir \in {{}, Files} /\ touched \subseteq Files
    /\ changes \in 0..MaxChange /\ refetches \in 0..MaxRefetch /\ stops \in 0..MaxStops

LEMMA RangesStep == ShapeInv /\ Ranges /\ [Next]_vars => Ranges'
<1> SUFFICES ASSUME ShapeInv, Ranges, [Next]_vars PROVE Ranges'
  OBVIOUS
<1> USE Bounds DEF Ranges
<1>1. Nowhere = [f \in {} |-> Absent]
  BY DEF Nowhere
<1>2. CASE Upstream
  BY <1>2 DEF Upstream, Change
<1>3. ASSUME NEW f \in Inputs, Refetch(f) PROVE Ranges'
  BY <1>3 DEF Refetch, Files
<1>4. CASE StartBuild \/ StartRecovery \/ StartDaily \/ StartSeed \/ Migrate
  BY <1>4 DEF StartBuild, StartRecovery, StartDaily, StartSeed, Migrate, Load
<1>5. CASE Stop
  BY <1>1, <1>5 DEF Stop, Done
<1>6. CASE BuildFamilies \/ BuildManifest \/ PersistRun
  BY <1>1, <1>6 DEF BuildFamilies, BuildManifest, PersistRun, Done
<1>7. CASE VerifyStep \/ AcceptPublication
  BY <1>1, <1>7 DEF VerifyStep, FreezeManifests, ValidateRows, BindUpstream, FreezeClosure, Sweep,
                    Rebind, AcceptPublication, Proceed, Refuse, Done
<1>8. CASE PutOnce \/ UNCHANGED vars
  BY <1>8 DEF PutOnce, vars
<1> QED
  BY <1>2, <1>3, <1>4, <1>5, <1>6, <1>7, <1>8 DEF Next, Step, VerifyStep

(* What is stored of KIND, and what a running seed puts of it.  A seed that *)
(* was not stopped leaves the KIND rows; one that finds part of them puts   *)
(* no others.                                                               *)
StoredInv ==
    /\ s3.bodies \in {Absent, Stored} /\ s3.requests \in {Absent, Stored}
    /\ s3.kind # Absent => s3.kind = [rows |-> s3.kind.rows] /\ s3.kind.rows # {}
    /\ s3.kind # Absent \/ s3.manifest # Absent => s3.bodies # Absent
    /\ s3.manifest # Absent => KindRestores
    /\ stops = 0 /\ job.name # "seed" /\ s3.bodies # Absent => StoredKind = bronze["kind"]

JobKind == IF job.kind = Absent THEN {} ELSE job.kind.rows

RunningInv ==
    job.name = "seed" =>
      /\ job.manifest # Absent /\ job.bodies = Stored
      /\ job.requests = IF job.kind = Absent THEN Absent ELSE Stored
      /\ job.kind # Absent => job.kind = [rows |-> job.kind.rows] /\ job.kind.rows # {}
      /\ s3.kind \in {Absent, job.kind}
      /\ s3.manifest # Absent => s3.kind = job.kind
      /\ stops = 0 => JobKind = bronze["kind"]

SeedInv == ReceiptBacked /\ StoredInv /\ RunningInv

LEMMA StoredThere == Stored # Absent /\ \A k : [rows |-> k] # Absent
<1>1. DOMAIN Absent = {"absent"} /\ DOMAIN Stored = {"stored"}
  BY DEF Absent, Stored
<1>2. \A k : DOMAIN [rows |-> k] = {"rows"}
  OBVIOUS
<1> QED
  BY <1>1, <1>2

LEMMA SeedStarts == ShapeInv /\ SeedInv /\ StartSeed => SeedInv'
<1> SUFFICES ASSUME ShapeInv, SeedInv, StartSeed PROVE SeedInv'
  OBVIOUS
<1>1. /\ UNCHANGED <<s3, bronze, stops>> /\ db # Absent /\ job.name # "seed"
      /\ job'.name = "seed" /\ job'.manifest = db /\ job'.bodies = Stored
      /\ job'.kind = IfKind([rows |-> SeedKind]) /\ job'.requests = IfKind(Stored)
  BY DEF StartSeed, Idle
<1>2. ReceiptBacked' /\ StoredInv'
  BY <1>1 DEF SeedInv, ReceiptBacked, StoredInv, KindRestores, StoredKind
<1>3. /\ job'.kind = IF SeedKind = {} THEN Absent ELSE [rows |-> SeedKind]
      /\ job'.requests = IF SeedKind = {} THEN Absent ELSE Stored
  BY <1>1 DEF IfKind
<1>4. job'.kind = Absent <=> SeedKind = {}
  BY <1>3, StoredThere
<1>5. JobKind' = SeedKind
  <2>1. [rows |-> SeedKind].rows = SeedKind
    OBVIOUS
  <2> QED
    BY <1>3, <1>4, <2>1 DEF JobKind
<1>6. s3.kind \in {Absent, job'.kind} /\ (s3.bodies # Absent => s3.kind = job'.kind)
  <2>1. CASE s3.bodies = Absent
    BY <2>1 DEF SeedInv, StoredInv
  <2>2. CASE s3.bodies # Absent /\ s3.kind = Absent
    BY <1>3, <2>2 DEF SeedKind, StoredKind
  <2>3. CASE s3.bodies # Absent /\ s3.kind # Absent
    BY <1>3, <2>3 DEF SeedInv, StoredInv, SeedKind, StoredKind
  <2> QED
    BY <2>1, <2>2, <2>3
<1>7. stops = 0 => SeedKind = bronze["kind"]
  BY <1>1 DEF SeedInv, StoredInv, SeedKind
<1>8. job'.kind # Absent => job'.kind = [rows |-> job'.kind.rows] /\ job'.kind.rows # {}
  BY <1>3, <1>4
<1>9. s3.manifest # Absent => s3.bodies # Absent
  BY DEF SeedInv, StoredInv
<1> QED
  BY <1>1, <1>2, <1>3, <1>4, <1>5, <1>6, <1>7, <1>8, <1>9 DEF SeedInv, RunningInv

(* An object is put when all before it are there, or the seed ends.        *)
LEMMA SeedPuts == ShapeInv /\ SeedInv /\ PutOnce => SeedInv'
<1> SUFFICES ASSUME ShapeInv, SeedInv, PutOnce PROVE SeedInv'
  OBVIOUS
<1>1. /\ job.name = "seed" /\ UNCHANGED <<bronze, stops>>
      /\ ReceiptBacked /\ StoredInv /\ RunningInv /\ S3Shape
  BY DEF PutOnce, SeedInv, ShapeInv
<1>2. /\ job.manifest # Absent /\ job.bodies = Stored
      /\ job.requests = IF job.kind = Absent THEN Absent ELSE Stored
      /\ s3.kind \in {Absent, job.kind}
  BY <1>1 DEF RunningInv
<1>3. /\ SeedOrder[1] = "bodies" /\ SeedOrder[2] = "kind" /\ SeedOrder[3] = "requests"
      /\ SeedOrder[4] = "manifest" /\ SeedOrder[5] = "prices" /\ DOMAIN SeedOrder = 1 .. 5
  BY DEF SeedOrder
<1>4. /\ 1 \notin Unseeded => s3.bodies = Stored
      /\ 2 \notin Unseeded => job.kind = s3.kind
      /\ 3 \notin Unseeded => (job.kind # Absent => s3.requests = Stored)
      /\ 4 \notin Unseeded => s3.manifest = job.manifest
  BY <1>2, <1>3, StoredThere DEF Unseeded
<1>5. ASSUME 2 \notin Unseeded, stops = 0 PROVE StoredKind = bronze["kind"]
  BY <1>1, <1>4, <1>5 DEF StoredKind, RunningInv, JobKind
<1>6. CASE job' = Idle /\ UNCHANGED s3
  <2>1. /\ \A i \in Unseeded : (\A j \in Unseeded : i <= j) => s3[SeedOrder[i]] # Absent
        /\ Unseeded \subseteq 1 .. 5
    <3>1. job' # job
      BY <1>1, <1>6 DEF Idle
    <3>2. Unseeded \subseteq 1 .. 5
      BY <1>3 DEF Unseeded
    <3> QED
      BY <3>1, <3>2 DEF PutOnce
  <2>2. 1 \notin Unseeded
    <3> SUFFICES ASSUME 1 \in Unseeded PROVE FALSE
      OBVIOUS
    <3>1. \A j \in Unseeded : 1 <= j
      BY <2>1
    <3>2. s3.bodies # Absent
      BY <1>3, <2>1, <3>1
    <3>3. s3.bodies # Stored
      BY <1>2, <1>3 DEF Unseeded
    <3> QED
      BY <1>1, <3>2, <3>3 DEF StoredInv
  <2>3. 2 \notin Unseeded
    <3> SUFFICES ASSUME 2 \in Unseeded PROVE FALSE
      OBVIOUS
    <3>1. \A j \in Unseeded : 2 <= j
      BY <2>1, <2>2
    <3>2. s3.kind # Absent
      BY <1>3, <2>1, <3>1
    <3>3. s3.kind # job.kind
      BY <1>2, <1>3 DEF Unseeded
    <3> QED
      BY <1>2, <3>2, <3>3
  <2>4. job'.name # "seed"
    BY <1>6 DEF Idle
  <2> QED
    BY <1>1, <1>5, <1>6, <2>3, <2>4
       DEF SeedInv, ReceiptBacked, StoredInv, RunningInv, KindRestores, StoredKind
<1>7. ASSUME NEW i \in Unseeded, \A j \in Unseeded : i <= j, UNCHANGED job,
             s3[SeedOrder[i]] = Absent, s3' = [s3 EXCEPT ![SeedOrder[i]] = job[SeedOrder[i]]]
      PROVE  SeedInv'
  <2>1. i \in 1 .. 5
    BY <1>3 DEF Unseeded
  <2>2. CASE i = 1
    <3>1. /\ s3'.bodies = Stored /\ s3'.kind = s3.kind /\ s3'.requests = s3.requests
          /\ s3'.manifest = s3.manifest /\ s3'.prices = s3.prices
      BY <1>1, <1>2, <1>3, <1>7, <2>2 DEF S3Shape
    <3> QED
      BY <1>1, <1>7, <3>1, StoredThere
         DEF SeedInv, ReceiptBacked, StoredInv, RunningInv, KindRestores, StoredKind, JobKind
  <2>3. CASE i = 2
    <3>1. /\ s3'.kind = job.kind /\ s3'.bodies = s3.bodies /\ s3'.requests = s3.requests
          /\ s3'.manifest = s3.manifest /\ s3'.prices = s3.prices
      BY <1>1, <1>3, <1>7, <2>3 DEF S3Shape
    <3>2. s3.kind = Absent /\ job.kind # Absent
      BY <1>3, <1>7, <2>3 DEF Unseeded
    <3>3. s3.manifest = Absent /\ s3.prices = Absent
      BY <1>1, <3>2 DEF RunningInv, ReceiptBacked
    <3>4. s3.bodies = Stored
      BY <1>4, <1>7, <2>3
    <3> QED
      BY <1>1, <1>7, <3>1, <3>2, <3>3, <3>4, StoredThere
         DEF SeedInv, ReceiptBacked, StoredInv, RunningInv, JobKind
  <2>4. CASE i = 3
    <3>1. /\ s3'.requests = job.requests /\ s3'.kind = s3.kind /\ s3'.bodies = s3.bodies
          /\ s3'.manifest = s3.manifest /\ s3'.prices = s3.prices
      BY <1>1, <1>3, <1>7, <2>4 DEF S3Shape
    <3>2. job.requests # Absent /\ job.requests = Stored
      BY <1>2, <1>3, <1>7, <2>4 DEF Unseeded
    <3> QED
      BY <1>1, <1>7, <3>1, <3>2
         DEF SeedInv, ReceiptBacked, StoredInv, RunningInv, KindRestores, StoredKind, JobKind
  <2>5. CASE i = 4
    <3>1. /\ s3'.manifest = job.manifest /\ s3'.kind = s3.kind /\ s3'.bodies = s3.bodies
          /\ s3'.requests = s3.requests /\ s3'.prices = s3.prices
      BY <1>1, <1>3, <1>7, <2>5 DEF S3Shape
    <3>2. 1 \notin Unseeded /\ 2 \notin Unseeded /\ 3 \notin Unseeded
      BY <1>7, <2>5
    <3>3. s3.bodies # Absent /\ s3.kind = job.kind /\ KindRestores
      BY <1>4, <3>2, StoredThere DEF KindRestores
    <3>4. s3.manifest = Absent /\ s3.prices = Absent
      BY <1>1, <1>3, <1>7, <2>5 DEF ReceiptBacked
    <3> QED
      BY <1>1, <1>2, <1>7, <3>1, <3>3, <3>4
         DEF SeedInv, ReceiptBacked, StoredInv, RunningInv, KindRestores, StoredKind, JobKind
  <2>6. CASE i = 5
    <3>1. /\ s3'.prices = job.prices /\ s3'.kind = s3.kind /\ s3'.bodies = s3.bodies
          /\ s3'.requests = s3.requests /\ s3'.manifest = s3.manifest
      BY <1>1, <1>3, <1>7, <2>6 DEF S3Shape
    <3>2. 2 \notin Unseeded /\ 4 \notin Unseeded
      BY <1>7, <2>6
    <3>3. s3.manifest # Absent
      BY <1>2, <1>4, <3>2
    <3>4. KindRestores
      BY <1>1, <3>3 DEF StoredInv
    <3>5. stops = 0 => StoredKind = bronze["kind"]
      BY <1>5, <3>2
    <3> QED
      BY <1>1, <1>7, <3>1, <3>3, <3>4, <3>5
         DEF SeedInv, ReceiptBacked, StoredInv, RunningInv, KindRestores, StoredKind, JobKind
  <2> QED
    BY <2>1, <2>2, <2>3, <2>4, <2>5, <2>6
<1> QED
  BY <1>6, <1>7 DEF PutOnce

LEMMA BuildNames ==
    ASSUME ShapeInv, BuildFamilies \/ BuildManifest \/ AcceptPublication
    PROVE  job.name \in {"build", "publish"} /\ job'.name \in {"idle", "build", "publish"}
<1>1. CASE BuildFamilies
  <2>1. job.name = "build"
    BY <1>1 DEF BuildFamilies
  <2>2. PICK pc, prev, got : job = [name |-> "build", pc |-> pc, prev |-> prev, got |-> got]
    BY <2>1, JobNames DEF ShapeInv, BuildShape
  <2>3. \/ job' = Idle
        \/ job' = [job EXCEPT !.pc = "classify",
                     !.got = [families |-> dir["families"], price |-> dir["price"]]]
    BY <1>1 DEF BuildFamilies, Done
  <2>4. CASE job' = [job EXCEPT !.pc = "classify",
                       !.got = [families |-> dir["families"], price |-> dir["price"]]]
    <3>1. job'.name = "build"
      BY <2>2, <2>4
    <3> QED
      BY <2>1, <3>1
  <2> QED
    BY <2>1, <2>3, <2>4 DEF Idle
<1>2. CASE BuildManifest
  <2>1. job.name = "build" /\ (job' = Idle \/ job' = Fresh("publish", job.prev))
    BY <1>2 DEF BuildManifest, Done
  <2> QED
    BY <2>1 DEF Fresh, Idle
<1>3. CASE AcceptPublication
  <2>1. /\ job.name = "publish"
        /\ \/ job' = [Fresh("publish", job.prev) EXCEPT !.pass = 2, !.result = Manifest]
           \/ job' = Idle
    BY <1>3, RefuseIdle DEF AcceptPublication, Proceed, Done
  <2>2. CASE job' = [Fresh("publish", job.prev) EXCEPT !.pass = 2, !.result = Manifest]
    BY <2>1, <2>2 DEF Fresh
  <2> QED
    BY <2>1, <2>2 DEF Idle
<1> QED
  BY <1>1, <1>2, <1>3

(* Of the steps, only starts, puts and the end of a seed touch its job.    *)
LEMMA OtherJobs ==
    ASSUME ShapeInv, [Next]_vars, ~StartSeed, ~PutOnce, ~Stop
    PROVE  job' = job \/ (job.name # "seed" /\ job'.name # "seed")
<1>1. CASE Upstream \/ (\E f \in Inputs : Refetch(f)) \/ Migrate \/ UNCHANGED vars
  BY <1>1 DEF Upstream, Change, Refetch, Migrate, vars
<1>2. CASE StartBuild \/ StartRecovery \/ StartDaily
  BY <1>2 DEF StartBuild, StartRecovery, StartDaily, Fresh, Idle
<1>3. CASE PersistRun
  BY <1>3 DEF PersistRun, Done, Idle
<1>4. CASE BuildFamilies \/ BuildManifest \/ AcceptPublication
  BY <1>4, BuildNames
<1>5. CASE VerifyStep
  BY <1>5, VerifyGoes, RefuseIdle DEF ShapeInv, Went, Verifying, Idle
<1> QED
  BY <1>1, <1>2, <1>3, <1>4, <1>5 DEF Next, Step, VerifyStep

LEMMA SeedStep == ShapeInv /\ FiniteInv /\ SingleInv /\ Ranges /\ SeedInv /\ [Next]_vars => SeedInv'
<1> SUFFICES ASSUME ShapeInv, FiniteInv, SingleInv, Ranges, SeedInv, [Next]_vars PROVE SeedInv'
  OBVIOUS
<1>1. CASE StartSeed \/ PutOnce
  BY <1>1, SeedStarts, SeedPuts
<1>2. CASE Stop
  <2>1. s3' = s3 /\ job'.name # "seed" /\ stops' # 0
    BY <1>2, Bounds DEF Stop, Done, Idle, Ranges
  <2> QED
    BY <2>1 DEF SeedInv, ReceiptBacked, StoredInv, RunningInv, KindRestores, StoredKind
<1>3. CASE Migrate
  <2>1. S3Shape
    BY DEF ShapeInv
  <2>2. /\ UNCHANGED <<job, bronze, stops>> /\ s3.manifest # Absent
        /\ s3'.bodies = s3.bodies /\ s3'.kind = s3.kind /\ s3'.requests = s3.requests
        /\ s3'.prices = s3.prices
        /\ s3'.manifest = [s3.manifest EXCEPT !.list = bronze["cash"].list]
    BY <1>3, <2>1 DEF Migrate, S3Shape
  <2>3. DOMAIN s3'.manifest = {"list", "econ", "price", "rows"}
    BY <2>2 DEF SingleInv, Single, IsManifest
  <2>4. s3'.manifest # Absent
    <3>1. DOMAIN Absent = {"absent"}
      BY DEF Absent
    <3> QED
      BY <2>3, <3>1
  <2> QED
    BY <2>2, <2>4
       DEF SeedInv, ReceiptBacked, StoredInv, RunningInv, KindRestores, StoredKind, JobKind
<1>4. CASE ~StartSeed /\ ~PutOnce /\ ~Stop /\ ~Migrate
  <2>1. UNCHANGED <<s3, stops>>
    BY <1>4 DEF Next, Step, Upstream, Change, Refetch, StartBuild, StartRecovery, StartDaily,
                BuildFamilies, BuildManifest, FreezeManifests, ValidateRows, BindUpstream,
                FreezeClosure, Sweep, Rebind, AcceptPublication, PersistRun, vars
  <2>2. bronze' = bronze \/ Upstream
    BY <1>4 DEF Next, Step, Refetch, StartBuild, StartRecovery, StartDaily,
                BuildFamilies, BuildManifest, FreezeManifests, ValidateRows, BindUpstream,
                FreezeClosure, Sweep, Rebind, AcceptPublication, PersistRun, vars
  <2>3. bronze'["kind"] = bronze["kind"]
    BY <2>2, UpstreamKeeps
  <2>4. job' = job \/ (job.name # "seed" /\ job'.name # "seed")
    BY <1>4, OtherJobs
  <2> QED
    BY <2>1, <2>3, <2>4
       DEF SeedInv, ReceiptBacked, StoredInv, RunningInv, KindRestores, StoredKind, JobKind
<1> QED
  BY <1>1, <1>2, <1>3, <1>4

(* A day works on the KIND objects that are stored while it runs.          *)
DailyInv ==
    job.name = "daily" =>
      /\ KindRestores /\ dir["kind"] = StoredKind
      /\ job.pc \in AfterClose => job.was["kind"] = StoredKind

(* The closure alone records what was on disk.                             *)
LEMMA WasDir ==
    ASSUME Shape, VerifyStep, ~Refuse, job'.pc \in AfterClose
    PROVE  job'.was = dir \/ (job.pc \in AfterClose /\ job'.was = job.was)
<1>1. Verifying /\ VerifyShape
  BY VerifyGoes
<1> USE DEF AfterClose, AfterBind, AfterRows, Pcs
<1>2. CASE FreezeManifests
  <2>1. \E fs : Proceed([job EXCEPT !.pc = "rows", !.frozen = Freeze(fs)])
    BY <1>2 DEF FreezeManifests
  <2> QED
    BY <1>1, <2>1, GoFrozen DEF Proceed, Went
<1>3. CASE ValidateRows
  <2>1. \E fs : Proceed([job EXCEPT !.pc = "bind", !.frozen = Freeze(fs)])
    BY <1>3 DEF ValidateRows
  <2> QED
    BY <1>1, <2>1, GoFrozen DEF Proceed, Went
<1>4. CASE BindUpstream
  <2>1. Proceed([job EXCEPT !.pc = "close", !.snap = Snapshot])
    BY <1>4 DEF BindUpstream
  <2> QED
    BY <1>1, <2>1, GoSnap DEF Proceed, Went
<1>5. CASE FreezeClosure
  <2>1. Proceed([job EXCEPT !.pc = "sweep", !.frozen = Freeze(Closure({"rows"})), !.was = dir])
    BY <1>5 DEF FreezeClosure
  <2>2. Went("sweep", job.next, Freeze(Closure({"rows"})), job.snap, dir)
    BY <1>1, <2>1, GoClosed DEF Proceed
  <2> QED
    BY <2>2 DEF Went
<1>6. CASE Sweep
  <2>1. \/ Proceed([job EXCEPT !.next = job.next + 1])
        \/ Proceed([job EXCEPT !.next = 1, !.pc = IF job.pc = "sweep" THEN "rebind" ELSE "accept"])
    BY <1>6 DEF Sweep
  <2>2. CASE Proceed([job EXCEPT !.next = job.next + 1])
    BY <1>1, <1>6, <2>2, GoNext DEF Sweep, Proceed, Went
  <2>3. CASE Proceed([job EXCEPT !.next = 1,
                                 !.pc = IF job.pc = "sweep" THEN "rebind" ELSE "accept"])
    BY <1>1, <1>6, <2>3, GoTurn DEF Sweep, Proceed, Went
  <2> QED
    BY <2>1, <2>2, <2>3
<1>7. CASE Rebind
  <2>1. Proceed([job EXCEPT !.pc = "resweep"])
    BY <1>7 DEF Rebind
  <2> QED
    BY <1>1, <1>7, <2>1, GoPc DEF Rebind, Proceed, Went
<1> QED
  BY <1>2, <1>3, <1>4, <1>5, <1>6, <1>7 DEF VerifyStep

LEMMA DailyStep == ShapeInv /\ DailyInv /\ [Next]_vars => DailyInv'
<1> SUFFICES ASSUME ShapeInv, DailyInv, [Next]_vars, job'.name = "daily" PROVE DailyInv'
  BY DEF DailyInv
<1>1. "kind" \in Files
  BY DEF Files, Inputs
<1>2. CASE UNCHANGED <<job, dir, s3>>
  BY <1>2 DEF DailyInv, KindRestores, StoredKind
<1>3. CASE Upstream \/ UNCHANGED vars
  BY <1>2, <1>3 DEF Upstream, Change, vars
<1>4. ASSUME NEW f \in Inputs, Refetch(f) PROVE DailyInv'
  <2>1. UNCHANGED <<job, s3>> /\ dir' = [dir EXCEPT ![f] = Collected(f)]
    BY <1>4 DEF Refetch
  <2>2. dir = [g \in Files |-> dir[g]]
    BY <2>1 DEF ShapeInv, DirShape, HasDir
  <2>3. dir'["kind"] = IF f = "kind" THEN Collected("kind") ELSE dir["kind"]
    BY <1>1, <2>1, <2>2
  <2>4. Collected("kind") = StoredKind
    BY <2>1 DEF Collected
  <2> QED
    BY <2>1, <2>3, <2>4 DEF DailyInv, KindRestores, StoredKind
<1>5. CASE StartDaily
  <2>1. KindRestores /\ s3' = s3 /\ dir'["kind"] = StoredKind /\ job'.pc = "freeze"
    BY <1>1, <1>5 DEF StartDaily, Fresh
  <2>2. "freeze" \notin AfterClose
    BY DEF AfterClose, AfterBind, AfterRows, Pcs
  <2> QED
    BY <2>1, <2>2 DEF DailyInv, KindRestores, StoredKind
<1>6. CASE VerifyStep
  <2>1. s3' = s3
    BY <1>6 DEF VerifyStep, FreezeManifests, ValidateRows, BindUpstream, FreezeClosure, Sweep,
                Rebind
  <2>2. ~Refuse
    BY RefuseIdle DEF Idle
  <2>3. dir' = dir /\ job.name = "daily"
    BY <1>6, <2>2, VerifyGoes DEF ShapeInv, Went
  <2>4. job'.pc \in AfterClose => job'.was["kind"] = StoredKind
    BY <1>6, <2>2, <2>3, WasDir DEF ShapeInv, DailyInv
  <2> QED
    BY <2>1, <2>3, <2>4 DEF DailyInv, KindRestores, StoredKind
<1>7. CASE StartBuild \/ StartRecovery \/ StartSeed \/ Stop \/ PersistRun \/ Migrate
  BY <1>7 DEF StartBuild, StartRecovery, StartSeed, Stop, PersistRun, Migrate, Done, Fresh, Idle
<1>8. CASE BuildFamilies \/ BuildManifest \/ AcceptPublication
  BY <1>8, BuildNames
<1>9. CASE PutOnce
  BY <1>9 DEF PutOnce, Idle
<1> QED
  BY <1>3, <1>4, <1>5, <1>6, <1>7, <1>8, <1>9 DEF Next, Step, VerifyStep

BuiltInv == \A m \in built : IsManifest(m)

LEMMA BuiltStep ==
    ShapeInv /\ VerifyInv /\ SingleInv /\ BuiltInv /\ [Next]_vars => BuiltInv'
<1> SUFFICES ASSUME ShapeInv, VerifyInv, SingleInv, BuiltInv, [Next]_vars PROVE BuiltInv'
  OBVIOUS
<1>1. CASE built' = built
  BY <1>1 DEF BuiltInv
<1>2. CASE AcceptPublication
  <2>1. Verifying /\ job.pc = "accept" /\ (built' = built \/ built' = built \cup {Manifest})
    BY <1>2 DEF AcceptPublication, Verifying
  <2>2. "manifest" \in DOMAIN job.frozen
    BY <2>1 DEF VerifyInv, FrozenFiles, Whole, Bodies, Heads
  <2>3. IsManifest(Manifest)
    BY <2>1, <2>2 DEF SingleInv, Single, Manifest
  <2> QED
    BY <2>1, <2>3 DEF BuiltInv
<1> QED
  BY <1>1, <1>2
     DEF Next, Step, Upstream, Change, Refetch, StartBuild, StartRecovery, StartDaily, StartSeed,
         Migrate, Stop, BuildFamilies, BuildManifest, FreezeManifests, ValidateRows, BindUpstream,
         FreezeClosure, Sweep, Rebind, PersistRun, PutOnce, vars

LEMMA AllInv ==
    Spec => [](ShapeInv /\ VerifyInv /\ FiniteInv /\ SingleInv /\ Ranges /\ SeedInv /\ BuiltInv
               /\ DailyInv)
<1>1. Init => ShapeInv /\ VerifyInv /\ FiniteInv /\ SingleInv
  BY ManifestInit
<1>2. Init => Ranges /\ BuiltInv /\ DailyInv
  BY Bounds DEF Init, Ranges, BuiltInv, DailyInv, Idle, Nowhere
<1>3. Init => SeedInv
  BY DEF Init, SeedInv, ReceiptBacked, StoredInv, RunningInv, Idle
<1> QED
  BY ShapeStep, VerifyInvStep, FiniteStep, SingleStep, RangesStep, SeedStep, BuiltStep, DailyStep,
     <1>1, <1>2, <1>3, PTL DEF Spec

(* Every variable keeps its type; a manifest, wherever it is kept, has the *)
(* fields of the builder and rows of the two roles.                        *)
THEOREM Typed == Spec => []TypeOK
<1>1. ShapeInv /\ FiniteInv /\ SingleInv /\ Ranges /\ BuiltInv => TypeOK
  BY JobNames DEF ShapeInv, FiniteInv, Official, SingleInv, Single, Ranges, BuiltInv, TypeOK
<1> QED
  BY <1>1, AllInv, PTL

(* Wherever the price receipt is seeded, the manifest is seeded too, and a *)
(* stored KIND manifest has all it names; without a stop the KIND rows are *)
(* there.  The objects of KIND are put one after the other, and a seed may *)
(* stop between any two (publish_cash_scale_seed.run).                     *)
THEOREM Receipt == Spec => []ReceiptBacked
<1>1. SeedInv => ReceiptBacked
  BY DEF SeedInv
<1> QED
  BY <1>1, AllInv, PTL

(* Evidence that rests on KIND is persisted by a day only while the whole  *)
(* of KIND is stored, even when the receipt was published without it       *)
(* (_validate_kind_support_bindings).                                      *)
THEOREM KindBound == Spec => KindStored
<1> DEFINE Kinds == \E r \in db'.rows : r.src = "KRX_KIND"
           Step1 == job.name = "daily" /\ db' # db /\ Kinds =>
                      s3.bodies # Absent /\ s3.kind # Absent /\ s3.requests # Absent
           Inv == ShapeInv /\ VerifyInv /\ SeedInv /\ DailyInv
<1>1. Inv /\ [Next]_vars => Step1
  <2> SUFFICES ASSUME Inv, [Next]_vars, job.name = "daily", db' # db, Kinds
               PROVE  s3.bodies # Absent /\ s3.kind # Absent /\ s3.requests # Absent
    OBVIOUS
  <2>1. PersistRun
    BY DEF Next, Step, Upstream, Change, Refetch, StartBuild, StartRecovery, StartDaily, StartSeed,
           Migrate, Stop, BuildFamilies, BuildManifest, FreezeManifests, ValidateRows, BindUpstream,
           FreezeClosure, Sweep, Rebind, AcceptPublication, PutOnce, vars
  <2>2. Verifying /\ job.pc = "accept" /\ db' = Manifest
    BY <2>1 DEF PersistRun, Verifying
  <2>3. KindBindings(Manifest.rows, job.was["kind"])
    BY <2>2, AcceptHolds DEF AcceptedTogether, Verifies
  <2>4. job.was["kind"] = StoredKind /\ KindRestores
    BY <2>2 DEF DailyInv, AfterClose, AfterBind, AfterRows, Pcs
  <2>5. StoredKind # {}
    BY <2>2, <2>3, <2>4 DEF KindBindings
  <2>6. s3.kind # Absent
    BY <2>5 DEF StoredKind
  <2> QED
    BY <2>4, <2>6 DEF KindRestores, SeedInv, StoredInv
<1>2. Inv /\ [Next]_vars => [Step1]_vars
  BY <1>1
<1>3. Spec => []Inv
  BY AllInv, PTL
<1> QED
  BY <1>2, <1>3, PTL DEF Spec, KindStored

=============================================================================
