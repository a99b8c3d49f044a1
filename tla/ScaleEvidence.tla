---------------------------- MODULE ScaleEvidence ----------------------------
(* The life of the cash-scale evidence manifest.  An operator builds it in a  *)
(* directory of official files, verifies it twice and persists a run bound to *)
(* it; the seed copies the newest run's manifest into S3 once; a migration    *)
(* rebinds it when a display list is replaced; the daily task verifies it in  *)
(* its own directory.  Files may be collected again while they are verified,  *)
(* so verification freezes what it reads and looks again before it accepts.   *)
EXTENDS ScaleClassification, Sequences

CONSTANTS Worlds,     \* official contents at the start
          Revisions,  \* contents a re-collected family manifest may have
          MaxChange,  \* changes of the official contents
          MaxRefetch, \* files collected again while a directory is verified
          MaxStops    \* processes stopped

VARIABLES bronze, \* [Inputs -> content]: the official files, as last collected
          changes, \* how often they changed
          base,   \* manifest in the operator's directory
          dir,    \* directory of the running job: [Files -> content]
          touched,\* files of it written since they were frozen
          refetches,
          job,    \* the running job and its local state
          s3,     \* seeded objects
          db,     \* manifest of the newest persisted evidence run
          built,  \* ghost: manifests a build published
          stops

vars == <<bronze, changes, base, dir, touched, refetches, job, s3, db, built, stops>>

Inputs == {"families", "rows", "body", "kind", "notice", "cash", "price"}
Files == Inputs \cup {"manifest"}
\* Every official file is finite, whichever revision of it is collected.
ASSUME FiniteFiles ==
    /\ \A w \in Worlds : DOMAIN w = Inputs /\ IsFiniteSet(w["families"]) /\ IsFiniteSet(w["kind"])
    /\ \A fs \in Revisions : IsFiniteSet(fs)

ASSUME Bounds == MaxChange \in Nat /\ MaxRefetch \in Nat /\ MaxStops \in Nat

FileOrder == <<"body", "cash", "families", "kind", "manifest", "notice", "price", "rows">>

Absent == [absent |-> TRUE]
Nowhere == [f \in {} |-> Absent]
Idle == [name |-> "idle"]

\* A verification at its start: nothing frozen, first of two passes.
Fresh(name, prev) ==
    [name |-> name, pc |-> "freeze", pass |-> 1, next |-> 1, frozen |-> Nowhere,
     snap |-> Absent, was |-> Nowhere, result |-> Absent, prev |-> prev]

Init ==
    /\ bronze \in Worlds
    /\ changes = 0 /\ refetches = 0 /\ stops = 0
    /\ base = Absent /\ db = Absent /\ built = {}
    /\ dir = Nowhere /\ touched = {} /\ job = Idle
    /\ s3 = [bodies |-> Absent, kind |-> Absent, requests |-> Absent,
             manifest |-> Absent, prices |-> Absent]

-----------------------------------------------------------------------------
(* The official contents change, and a directory in use is collected again.   *)

Change(new) ==
    /\ changes < MaxChange
    /\ bronze' = new /\ new # bronze
    /\ changes' = changes + 1
    /\ UNCHANGED <<base, dir, touched, refetches, job, s3, db, built, stops>>

\* What is read of the KIND objects in S3: a missing manifest says there is none.
StoredKind == IF s3.kind = Absent THEN {} ELSE s3.kind.rows

\* A KIND manifest is refused while an object it names is missing.
KindRestores == s3.kind # Absent => s3.requests # Absent

Upstream ==
    \/ \E fs \in Revisions, v \in {bronze["body"], bronze["body"] + 1} :
         Change([bronze EXCEPT !["families"] = {[f EXCEPT !.ver = v] : f \in fs}, !["body"] = v])
    \/ \E a \in {Stock, Bonus} : Change([bronze EXCEPT !["rows"] = @ \cup {a}])
    \/ \E l, e \in 0..1 : Change([bronze EXCEPT !["cash"].list = @ + l, !["cash"].econ = @ + e])

\* The daily task has its KIND objects from S3.
Collected(f) == IF f = "kind" /\ job.name = "daily" THEN StoredKind ELSE bronze[f]

Refetch(f) ==
    /\ job.name \notin {"idle", "seed"} /\ refetches < MaxRefetch
    /\ dir' = [dir EXCEPT ![f] = Collected(f)]
    /\ touched' = touched \cup {f}
    /\ refetches' = refetches + 1
    /\ UNCHANGED <<bronze, changes, base, job, s3, db, built, stops>>

-----------------------------------------------------------------------------
(* Build: families, then prepared events, viewer and KIND; then publication.  *)

Load(manifest) == dir' = [f \in Files |-> IF f = "manifest" THEN manifest ELSE bronze[f]]

StartBuild ==
    /\ job = Idle
    /\ Load(base)
    /\ job' = [name |-> "build", pc |-> "families", prev |-> base, got |-> Absent]
    /\ UNCHANGED <<bronze, changes, base, touched, refetches, s3, db, built, stops>>

Done == job' = Idle /\ dir' = Nowhere /\ touched' = {}

\* What the builder reads first: the price receipt and the verified families.
BuildFamilies ==
    /\ job.name = "build" /\ job.pc = "families"
    /\ IF FamiliesVerify(dir["families"], dir["body"], dir["rows"])
       THEN /\ job' = [job EXCEPT !.pc = "classify",
                         !.got = [families |-> dir["families"], price |-> dir["price"]]]
            /\ UNCHANGED <<dir, touched>>
       ELSE Done
    /\ UNCHANGED <<bronze, changes, base, refetches, s3, db, built, stops>>

Input == [families |-> job.got.families, price |-> job.got.price, rows |-> dir["rows"],
          kind |-> dir["kind"], notice |-> dir["notice"], cash |-> dir["cash"]]

\* Any unresolved event publishes nothing; otherwise the manifest replaces the
\* previous one atomically and is verified in place.
BuildManifest ==
    /\ job.name = "build" /\ job.pc = "classify"
    /\ IF Classifies(Input) /\ KindConsumed(Input, BuildOne(Input).rows)
       THEN /\ dir' = [dir EXCEPT !["manifest"] = BuildOne(Input)]
            /\ base' = BuildOne(Input)
            /\ job' = Fresh("publish", job.prev)
            /\ UNCHANGED touched
       ELSE Done /\ UNCHANGED base
    /\ UNCHANGED <<bronze, changes, refetches, s3, db, built, stops>>

-----------------------------------------------------------------------------
(* verify_source_evidence_manifest, in the directory of the running job.      *)

Verifying == job.name \in {"publish", "recovery", "daily"}

\* Mutant: a refused publication leaves its manifest.
RefuseInPlace == Done /\ UNCHANGED base

\* A refused publication puts the previous manifest back.
Refuse ==
    /\ Done
    /\ base' = IF job.name = "publish" THEN job.prev ELSE base

Proceed(next) == job' = next /\ UNCHANGED <<base, dir>>

Freeze(fs) == [f \in fs \cup DOMAIN job.frozen |-> IF f \in fs THEN dir[f] ELSE job.frozen[f]]

FreezeManifests ==
    /\ Verifying /\ job.pc = "freeze"
    /\ IF dir["manifest"] = Absent THEN Refuse
       ELSE LET fs == {"manifest", "families", "kind"}
            IN /\ touched' = touched \ fs
               /\ Proceed([job EXCEPT !.pc = "rows", !.frozen = Freeze(fs)])
    /\ UNCHANGED <<bronze, changes, refetches, s3, db, built, stops>>

Manifest == job.frozen["manifest"]

\* Files only a manifest with DART components depends on.
Closure(fs) == IF DartComponents(Manifest.rows) = {} THEN {} ELSE fs

\* The rows' own contract, and the bodies they name, each read once.
ValidateRows ==
    /\ Verifying /\ job.pc = "rows"
    /\ IF /\ ValidGroups(Manifest.rows)
          /\ CashBodies(Manifest, dir["cash"]) /\ PriceBodies(Manifest, dir["price"])
          /\ NoticeBodies(Manifest.rows, dir["notice"]) /\ ComponentBodies(Manifest.rows, dir["body"])
       THEN LET fs == {"cash", "price", "notice"} \cup Closure({"body"})
            IN /\ touched' = touched \ fs
               /\ Proceed([job EXCEPT !.pc = "bind", !.frozen = Freeze(fs)])
       ELSE Refuse
    /\ UNCHANGED <<bronze, changes, refetches, s3, db, built, stops>>

\* The family and KIND manifests and their closures, read from disk.
Snapshot == [families |-> dir["families"], body |-> dir["body"], rows |-> dir["rows"],
             kind |-> dir["kind"]]

BindingsHold ==
    /\ DartComponents(Manifest.rows) # {} => FamiliesVerify(dir["families"], dir["body"], dir["rows"])
    /\ FamilyBindings(Manifest.rows, dir["families"])
    /\ KindBindings(Manifest.rows, dir["kind"])

BindUpstream ==
    /\ Verifying /\ job.pc = "bind"
    /\ IF BindingsHold
       THEN Proceed([job EXCEPT !.pc = "close", !.snap = Snapshot]) /\ UNCHANGED touched
       ELSE Refuse
    /\ UNCHANGED <<bronze, changes, refetches, s3, db, built, stops>>

FreezeClosure ==
    /\ Verifying /\ job.pc = "close"
    /\ LET fs == Closure({"rows"})
       IN /\ touched' = touched \ fs
          /\ Proceed([job EXCEPT !.pc = "sweep", !.frozen = Freeze(fs),
                        !.was = dir])
    /\ UNCHANGED <<bronze, changes, refetches, s3, db, built, stops>>

\* One frozen file is read again; its bytes and its identity must be the same.
Sweep ==
    /\ Verifying /\ job.pc \in {"sweep", "resweep"}
    /\ IF FileOrder[job.next] \in touched \cap DOMAIN job.frozen THEN Refuse
       ELSE /\ UNCHANGED touched
            /\ Proceed(IF job.next < Len(FileOrder) THEN [job EXCEPT !.next = @ + 1]
                       ELSE [job EXCEPT !.next = 1,
                               !.pc = IF @ = "sweep" THEN "rebind" ELSE "accept"])
    /\ UNCHANGED <<bronze, changes, refetches, s3, db, built, stops>>

\* Mutant: the closures are not computed again.
RebindSkipped ==
    /\ Verifying /\ job.pc = "rebind"
    /\ Proceed([job EXCEPT !.pc = "resweep"])
    /\ UNCHANGED <<bronze, changes, touched, refetches, s3, db, built, stops>>

\* Both upstream closures are computed again and must be what they were.
Rebind ==
    /\ Verifying /\ job.pc = "rebind"
    /\ IF BindingsHold /\ Snapshot = job.snap
       THEN Proceed([job EXCEPT !.pc = "resweep"]) /\ UNCHANGED touched
       ELSE Refuse
    /\ UNCHANGED <<bronze, changes, refetches, s3, db, built, stops>>

-----------------------------------------------------------------------------
(* What is done with an accepted manifest.                                    *)

\* A publication verifies twice and wants the same result.
AcceptPublication ==
    /\ job.name = "publish" /\ job.pc = "accept"
    /\ \/ /\ job.pass = 1
          /\ Proceed([Fresh("publish", job.prev) EXCEPT !.pass = 2, !.result = Manifest])
          /\ UNCHANGED <<touched, built>>
       \/ /\ job.pass = 2 /\ job.result = Manifest
          /\ Done /\ built' = built \cup {Manifest} /\ UNCHANGED base
       \/ /\ job.pass = 2 /\ job.result # Manifest
          /\ Refuse /\ UNCHANGED built
    /\ UNCHANGED <<bronze, changes, refetches, s3, db, stops>>

\* Mutant: parity with the list of the run before.
SameRunAsBefore(m) == dir["cash"].sole /\ (db = Absent \/ db.list = m.list)

\* Actions of the same run, prepared from the directory: terminal receipt,
\* bodies and supports must be the ones the manifest names.
SameRun(m) ==
    /\ dir["cash"].sole /\ CashBodies(m, dir["cash"])
    /\ ComponentBodies(m.rows, dir["body"]) /\ NoticeBodies(m.rows, dir["notice"])

\* The daily task also needs the receipt of the price objects the manifest names.
PersistRun ==
    /\ job.name \in {"recovery", "daily"} /\ job.pc = "accept"
    /\ db' = IF SameRun(Manifest) /\ (job.name = "daily" => s3.prices = [price |-> Manifest.price])
             THEN Manifest ELSE db
    /\ Done
    /\ UNCHANGED <<bronze, changes, base, refetches, s3, built, stops>>

-----------------------------------------------------------------------------
(* Jobs on a published manifest.                                              *)

StartRecovery ==
    /\ job = Idle /\ base # Absent
    /\ Load(base) /\ job' = Fresh("recovery", Absent)
    /\ UNCHANGED <<bronze, changes, base, touched, refetches, s3, db, built, stops>>

\* Downloads the seeded objects and the official files into an empty directory;
\* a missing manifest stops the day before anything is written.
StartDaily ==
    /\ job = Idle /\ s3.manifest # Absent /\ KindRestores
    /\ dir' = [f \in Files |-> IF f = "manifest" THEN s3.manifest
                              ELSE IF f = "kind" THEN StoredKind ELSE bronze[f]]
    /\ job' = Fresh("daily", Absent)
    /\ UNCHANGED <<bronze, changes, base, touched, refetches, s3, db, built, stops>>

\* KIND is downloaded again only when nothing of it is stored.
SeedKind == IF s3.bodies = Absent THEN bronze["kind"] ELSE StoredKind
IfKind(object) == IF SeedKind = {} THEN Absent ELSE object
Stored == [stored |-> TRUE]

\* The newest persisted run is written out again and its price objects are looked
\* up.  Without KIND rows there is no KIND path to put but the bundled bodies.
StartSeed ==
    /\ job = Idle /\ db # Absent /\ db.price = bronze["price"] /\ KindRestores
    /\ job' = [name |-> "seed", bodies |-> Stored, kind |-> IfKind([rows |-> SeedKind]),
               requests |-> IfKind(Stored), manifest |-> db, prices |-> [price |-> db.price]]
    /\ UNCHANGED <<bronze, changes, base, dir, touched, refetches, s3, db, built, stops>>

\* Mutant: the receipt goes first.
SeedOrderReceiptFirst == <<"prices", "bodies", "kind", "requests", "manifest">>

\* The KIND paths are sorted: bodies, their manifest, what it names besides.
SeedOrder == <<"bodies", "kind", "requests", "manifest", "prices">>
Unseeded == {i \in DOMAIN SeedOrder : job[SeedOrder[i]] \notin {Absent, s3[SeedOrder[i]]}}

\* Objects are put once, in order, the price receipt last.  An object that is
\* there with other bytes ends the seed.
PutOnce ==
    /\ job.name = "seed"
    /\ \/ \E i \in Unseeded :
            /\ \A j \in Unseeded : i <= j
            /\ s3[SeedOrder[i]] = Absent
            /\ s3' = [s3 EXCEPT ![SeedOrder[i]] = job[SeedOrder[i]]]
            /\ UNCHANGED job
       \/ /\ \A i \in Unseeded : (\A j \in Unseeded : i <= j) => s3[SeedOrder[i]] # Absent
          /\ job' = Idle /\ UNCHANGED s3
    /\ UNCHANGED <<bronze, changes, base, dir, touched, refetches, db, built, stops>>

\* Compare-and-swap of the seeded manifest to the list that replaced its own.
Migrate ==
    /\ job = Idle /\ s3.manifest # Absent /\ s3.manifest.list # bronze["cash"].list
    /\ s3' = [s3 EXCEPT !.manifest.list = bronze["cash"].list]
    /\ UNCHANGED <<bronze, changes, base, dir, touched, refetches, job, db, built, stops>>

\* The process ends; what it wrote stays.
Stop ==
    /\ job # Idle /\ stops < MaxStops
    /\ Done /\ stops' = stops + 1
    /\ UNCHANGED <<bronze, changes, base, refetches, s3, db, built>>

Step == BuildFamilies \/ BuildManifest \/ FreezeManifests \/ ValidateRows \/ BindUpstream
        \/ FreezeClosure \/ Sweep \/ Rebind \/ AcceptPublication \/ PersistRun \/ PutOnce

Next == Upstream \/ (\E f \in Inputs : Refetch(f)) \/ StartBuild \/ StartRecovery
        \/ StartDaily \/ StartSeed \/ Migrate \/ Stop \/ Step

Spec == Init /\ [][Next]_vars

\* A started job runs on; the operator and the scheduler come back.
FairSpec == Spec /\ WF_vars(Step) /\ SF_vars(StartSeed) /\ SF_vars(StartDaily) /\ SF_vars(Migrate)

-----------------------------------------------------------------------------
IsManifest(m) ==
    \/ m = Absent
    \/ /\ DOMAIN m = {"list", "econ", "price", "rows"}
       /\ \A r \in m.rows : r.role \in {"ADJUSTMENT_COMPONENT", "CORROBORATION"}

TypeOK ==
    /\ DOMAIN bronze = Inputs /\ DOMAIN dir \in {{}, Files} /\ touched \subseteq Files
    /\ changes \in 0..MaxChange /\ refetches \in 0..MaxRefetch /\ stops \in 0..MaxStops
    /\ \A m \in {base, db, s3.manifest} \cup built : IsManifest(m)
    /\ job.name \in {"idle", "build", "publish", "recovery", "daily", "seed"}

\* What a verification accepts was on disk all at once: at the instant its
\* closure was frozen every file had the content it was accepted with, and
\* that directory satisfies the whole contract.  Files are collected again at
\* any point (verify_source_evidence_manifest).
AcceptedTogether ==
    Verifying /\ job.pc = "accept" =>
        /\ \A f \in DOMAIN job.frozen : job.frozen[f] = job.was[f]
        /\ Verifies(Manifest, job.was)

\* Without a stopped process, the operator's directory holds no manifest but
\* one a publication verified twice (_publish_source_manifest).
PublishedOrRestored == job = Idle /\ stops = 0 => base \in built \cup {Absent}

\* A persisted run never carries one entitlement twice: of the stock dividend
\* and the paid increase at most one, from one source (_component_supports).
OneEntitlement ==
    db # Absent => Cardinality({r \in db.rows : r.role = "ADJUSTMENT_COMPONENT"
                                              /\ r.act \in {Stock, Paid}}) <= 1

\* A price receipt says the seed is complete: wherever a seed was stopped and
\* taken up again, the manifest is there and the KIND manifest, if one is, has
\* every object it names.  Only after a stop may the KIND rows be missing
\* (publish_cash_scale_seed.run and _restore_kind_seed).
ReceiptBacked ==
    s3.prices # Absent => /\ s3.manifest # Absent /\ KindRestores
                          /\ stops = 0 => StoredKind = bronze["kind"]

\* What the seed's last line claims.  It does not hold: a seed stopped behind
\* its first KIND body is taken for a whole one by the next, which publishes
\* the receipt without KIND.
SeedComplete == s3.prices # Absent => StoredKind = bronze["kind"]

\* That never reaches the database: a daily run persists evidence that rests on
\* KIND only when the KIND manifest and all it names are stored
\* (_validate_kind_support_bindings on what the day downloaded).
KindStored ==
    [][job.name = "daily" /\ db' # db /\ (\E r \in db'.rows : r.src = "KRX_KIND") =>
         s3.bodies # Absent /\ s3.kind # Absent /\ s3.requests # Absent]_vars

Usable == /\ s3.prices # Absent /\ s3.prices.price = bronze["price"] /\ bronze["cash"].sole
          /\ Verifies([s3.manifest EXCEPT !.list = bronze["cash"].list],
                      [bronze EXCEPT !["kind"] = StoredKind])

\* Once the evidence is seeded and only display lists are replaced, a daily
\* run in the end binds the list in use.
ListRebound == <>[]Usable => <>[](db # Absent /\ db.list = bronze["cash"].list)

=============================================================================
