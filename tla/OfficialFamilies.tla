--------------------------- MODULE OfficialFamilies ---------------------------
(* The two manifests of official DART families.  A family is an original      *)
(* filing with the corrections and attachment corrections that DART's         *)
(* selector page shows beside it; the page grows whenever one is filed, also  *)
(* while a collector reads it.  bronze/dart_viewer_corrections.py binds the    *)
(* cash corrections of a coverage range to their families,                     *)
(* bronze/dart_support_action_families.py the stock-dividend and bonus         *)
(* families.  Both reuse what the previous manifest holds.                     *)
(*                                                                            *)
(* A receipt is its number in the order of filing, which is also its date and *)
(* its place in the selector (newest first), so a selector is a set.           *)
EXTENDS Naturals, Sequences, FiniteSets, SequencesExt

CONSTANTS Products,   \* collectors: "viewer", "support"
          Kinds,      \* Kinds[p]: what may be filed in the families of p
          Starts,     \* first receipts of the coverage ranges asked for
          MaxFilings, \* receipts
          MaxFamilies,\* original filings
          MaxLag,     \* filings behind the lists a range may end (gap replay)
          MaxFaults   \* stops and failed requests

VARIABLES product,  \* the collector this behaviour is about
          filed,    \* DART: filing by receipt
          listed,   \* receipts in the complete disclosure lists
          scope,    \* coverage range asked for, and the day it ends on
          manifest, \* the collector's manifest
          run,      \* the running collection
          faults

vars == <<product, filed, listed, scope, manifest, run, faults>>

Receipts == 1 .. MaxFilings
AllKinds == {"ORIGINAL", "PLAIN", "ECONOMIC", "PENDING", "WITHDRAWN", "ZERO", "ATTACHMENT"}

ASSUME FamiliesAssumption ==
    /\ Products \subseteq {"viewer", "support"}
    /\ \A p \in Products : Kinds[p] \subseteq AllKinds \ {"ORIGINAL"}
    /\ MaxFilings \in Nat \ {0} /\ MaxFamilies \in Nat /\ MaxLag \in Nat /\ MaxFaults \in Nat
    /\ Starts \subseteq Nat \ {0} /\ Starts # {}

None == [r \in {} |-> 0]
With(f, r, v) == [x \in DOMAIN f \cup {r} |-> IF x = r THEN v ELSE f[x]]

------------------------------------------------------------------------------
(* The selector pages. *)

Root(r) == filed[r].root
IsAttachment(r) == filed[r].kind = "ATTACHMENT"
Revision(r) == filed[r].kind \notin {"ORIGINAL", "PLAIN"}
Family(root) == {r \in DOMAIN filed : Root(r) = root}
Members(root) == {r \in Family(root) : ~IsAttachment(r)}

\* main.do of a receipt: the economic members and the attachments.
Page(r) == [family |-> Members(Root(r)), attachments |-> Family(Root(r)) \ Members(Root(r))]
Shown(page) == page.family \cup page.attachments

\* What the lists say about a coverage range.
InRange(s) == (s.start .. s.end) \cap 1 .. listed
Revisions(s) == {r \in InRange(s) : Revision(r)}
Seeds(s) == IF product = "viewer" THEN Revisions(s) ELSE InRange(s)
Outside(s) ==
    IF product = "viewer" THEN {r \in 1 .. listed : Revision(r)} \ InRange(s) ELSE {}

\* A provisional correction outside the range counts when its page reaches in.
Selected(page, s) == page.family \cap InRange(s) # {}

------------------------------------------------------------------------------
(* A support family: newest non-attachment filing decides. *)

Terminated == {"WITHDRAWN"}
\* Mutants: a withdrawal is passed over as an attachment is; the status is the
\* kind of the newest filing.
TerminalStanding(family) ==
    LET state == Max({r \in family : filed[r].kind \notin Terminated})
    IN [economic |-> state,
        status |-> IF filed[state].kind = "ZERO" THEN "ZERO_RATIO" ELSE "ACTIVE",
        admissible |-> filed[state].kind # "ZERO"]
TerminalKind(family) ==
    [economic |-> Max(family), status |-> filed[Max(family)].kind,
     admissible |-> filed[Max(family)].kind \notin Terminated \cup {"ZERO"}]
Terminal(family) ==
    LET state == Max(family)
        standing == {r \in family : filed[r].kind \notin Terminated}
    IN IF filed[state].kind \in Terminated
       THEN [economic |-> Max(standing), status |-> filed[state].kind, admissible |-> FALSE]
       ELSE [economic |-> state,
             status |-> IF filed[state].kind = "ZERO" THEN "ZERO_RATIO" ELSE "ACTIVE",
             admissible |-> filed[state].kind # "ZERO"]

\* The pages of all members must be at hand and show one and the same family.
Order(root, new, pages) == UNION {Shown(pages[r]) : r \in {n \in new : Root(n) = root}}
Derivable(root, new, pages) ==
    LET order == Order(root, new, pages)
    IN /\ order \subseteq DOMAIN pages
       /\ order \subseteq 1 .. listed
       /\ \A r \in order : pages[r] = pages[root] /\ Shown(pages[r]) = order

------------------------------------------------------------------------------
(* Viewer evidence: the page of a receipt and the receipt whose body carries  *)
(* its economics, for an attachment the newest member of the family.          *)

Evidence(r, page) ==
    [page |-> page, economic |-> IF IsAttachment(r) THEN Max(page.family) ELSE r]

Newest(evidence, r) == Max(evidence[r].page.family)
Pending(evidence) ==
    {Newest(evidence, r) : r \in DOMAIN evidence}
        \ {evidence[r].economic : r \in DOMAIN evidence}

TerminalsValid(evidence) ==
    \A r \in DOMAIN evidence :
        /\ Pending(evidence) = {}
        /\ filed[Newest(evidence, r)].kind # "PENDING"
        /\ \A o \in DOMAIN evidence :
               Min(evidence[o].page.family) = Min(evidence[r].page.family)
                   => evidence[o].page = evidence[r].page

------------------------------------------------------------------------------
(* The manifest, and what its verification recomputes from disk. *)

NoManifest ==
    [scope |-> [start |-> 0, end |-> 0, day |-> 0], audit |-> 0, seeds |-> {},
     probes |-> None, required |-> {}, evidence |-> None, entries |-> None]

\* Declared dependencies are the linked probes and the terminals of the rest.
ClosedDependencies(m) ==
    LET linked == {p \in DOMAIN m.probes : Selected(m.probes[p], m.scope)}
        primary == m.seeds \cup linked
        bodies == {m.evidence[r].economic : r \in primary}
        terminals == {Newest(m.evidence, r) : r \in primary}
    IN /\ primary \subseteq DOMAIN m.evidence
       /\ m.required \ m.seeds = linked \cup ((terminals \ bodies) \ m.seeds)
       /\ linked = (m.required \ m.seeds) \cap DOMAIN m.probes
       /\ \A r \in m.required \ m.seeds : Selected(m.evidence[r].page, m.scope)

\* A probe per provisional correction outside; stored evidence per required one.
ProbesVerify(m) == DOMAIN m.probes = Outside(m.scope)
EvidenceVerify(m) == DOMAIN m.evidence = m.required /\ TerminalsValid(m.evidence)

VerifiesViewer(m) == ProbesVerify(m) /\ EvidenceVerify(m) /\ ClosedDependencies(m)

VerifiesSupport(m) ==
    /\ m.audit = listed
    /\ m.seeds \subseteq UNION {Shown(m.entries[f].page) : f \in DOMAIN m.entries}

Verifies(m) ==
    /\ m.scope = scope
    /\ m.seeds = Seeds(scope)
    /\ IF product = "viewer" THEN VerifiesViewer(m) ELSE VerifiesSupport(m)

------------------------------------------------------------------------------
Idle == [pc |-> "idle"]

Init ==
    /\ product \in Products
    /\ filed = <<[root |-> 1, kind |-> "ORIGINAL"]>>
    /\ listed = 0
    /\ scope = [start |-> Min(Starts), end |-> 0, day |-> 0]
    /\ manifest = NoManifest
    /\ run = Idle
    /\ faults = 0

\* DART publishes a filing, whatever the collectors are doing.
File ==
    /\ Len(filed) < MaxFilings
    /\ LET new == Len(filed) + 1
           originals == {r \in DOMAIN filed : filed[r].kind = "ORIGINAL"}
       IN \/ /\ Cardinality(originals) < MaxFamilies
             /\ filed' = Append(filed, [root |-> new, kind |-> "ORIGINAL"])
          \/ \E root \in originals, kind \in Kinds[product] :
                 filed' = Append(filed, [root |-> root, kind |-> kind])
    /\ UNCHANGED <<product, listed, scope, manifest, run, faults>>

\* The lists are completed with what is filed, and a task asks for a range: of a
\* new day, from the configured start or a bounded one, or of the same day again.
Ask(s) ==
    /\ run.pc = "idle"
    /\ s.end \in scope.end .. Len(filed)
    /\ s.end + MaxLag >= Len(filed)
    /\ s.start <= s.end
    /\ Len(filed) > listed \/ s.end > scope.end
    /\ \/ s.day = scope.day + 1
       \/ s.day = scope.day /\ s.start = scope.start /\ s.day > 0
    /\ listed' = Len(filed)
    /\ scope' = s
    /\ UNCHANGED <<product, filed, manifest, run, faults>>

Day ==
    \E start \in Starts, end \in Receipts, day \in {scope.day, scope.day + 1} :
        Ask([start |-> start, end |-> end, day |-> day])

\* The next day's task, over everything filed by then.
Today == \E start \in Starts :
    Ask([start |-> start, end |-> Len(filed), day |-> scope.day + 1])

------------------------------------------------------------------------------
(* The support collector. *)

\* Entries of the previous manifest are kept when only the end moved, or when
\* only the provenance of the same candidates did.
KeepsEntries ==
    /\ manifest.scope.start = scope.start
    /\ \/ manifest.scope.day < scope.day
       \/ /\ manifest.scope.day = scope.day
          /\ manifest.seeds = Seeds(scope)
          /\ manifest.audit # listed

Carried == IF KeepsEntries THEN manifest.entries ELSE None
\* Mutant: a receipt of a family already held is not new.
NewCandidatesByFamily == {r \in Seeds(scope) : Root(r) \notin DOMAIN Carried}
NewCandidates ==
    Seeds(scope) \ UNION {Shown(Carried[f].page) : f \in DOMAIN Carried}

StartSupport ==
    /\ product = "support" /\ run.pc = "idle" /\ scope.day > 0 /\ ~Verifies(manifest)
    /\ run' = [pc |-> "read", new |-> NewCandidates, todo |-> {},
               queue |-> IF NewCandidates = {} THEN <<>> ELSE <<NewCandidates>>,
               pages |-> None, kept |-> Carried, seen |-> 0, prior |-> manifest]
    /\ UNCHANGED <<product, filed, listed, scope, manifest, faults>>

\* The queue: the candidates, oldest first, then the members that each page
\* named, newest first.
Turn(r) ==
    LET batch == Head(run.queue)
    IN r \in batch /\ \A q \in batch : IF batch \subseteq run.new THEN r <= q ELSE q <= r

Queued == UNION Range(run.queue)
Popped(r) == IF Head(run.queue) = {r} THEN Tail(run.queue)
             ELSE <<Head(run.queue) \ {r}>> \o Tail(run.queue)

\* Every member a page names is read in its turn; it must be in the lists.
ReadMain ==
    /\ run.pc = "read" /\ run.queue # <<>>
    /\ \E r \in Head(run.queue) :
         LET named == Page(r).family \ (DOMAIN run.pages \cup Queued)
         IN /\ Turn(r)
            /\ run' = IF r > listed THEN Idle
                      ELSE [run EXCEPT !.pages = With(@, r, Page(r)),
                                       !.queue = IF named = {} THEN Popped(r)
                                                 ELSE Append(Popped(r), named)]
    /\ UNCHANGED <<product, filed, listed, scope, manifest, faults>>

\* The families of the new candidates; with none, nothing is read again.
Derive ==
    LET roots == {Root(r) : r \in run.new}
        Entry(f) == [page |-> run.pages[f], end |-> Terminal(run.pages[f].family)]
    IN /\ run.pc = "read" /\ run.queue = <<>>
       /\ run' = IF \A f \in roots : Derivable(f, run.new, run.pages)
                 THEN [run EXCEPT !.pc = "recheck",
                                  !.kept = [f \in DOMAIN @ \cup roots |->
                                               IF f \in roots THEN Entry(f) ELSE @[f]],
                                  !.todo = UNION {Shown(run.pages[f]) : f \in roots},
                                  !.seen = Len(filed)]
                 ELSE Idle
       /\ UNCHANGED <<product, filed, listed, scope, manifest, faults>>

\* Mutant: the second reading is not compared with the first.
RecheckUncompared ==
    /\ run.pc = "recheck" /\ run.todo # {}
    /\ run' = [run EXCEPT !.todo = @ \ {Min(run.todo)}]
    /\ UNCHANGED <<product, filed, listed, scope, manifest, faults>>

\* Each selector of a family just read is read once more before publication.
Recheck ==
    LET r == Min(run.todo)
    IN /\ run.pc = "recheck" /\ run.todo # {}
       /\ run' = IF Page(r) = run.pages[r] THEN [run EXCEPT !.todo = @ \ {r}] ELSE Idle
       /\ UNCHANGED <<product, filed, listed, scope, manifest, faults>>

PublishSupport ==
    /\ run.pc = "recheck" /\ run.todo = {}
    /\ manifest' = [NoManifest EXCEPT !.scope = scope, !.audit = listed,
                                      !.seeds = Seeds(scope), !.entries = run.kept]
    /\ run' = [run EXCEPT !.pc = "verify"]
    /\ UNCHANGED <<product, filed, listed, scope, faults>>

------------------------------------------------------------------------------
(* The viewer collector. *)

KeepsEvidence ==
    /\ manifest.scope.start <= scope.start
    /\ scope.start <= manifest.scope.end
    /\ manifest.scope.day < scope.day

\* Probes still outside the range are reused with the page they hold.
\* Mutant: all probes are carried over.
KeptProbesAll == IF KeepsEvidence THEN manifest.probes ELSE None
KeptProbes ==
    IF KeepsEvidence THEN Restrict(manifest.probes, DOMAIN manifest.probes \cap Outside(scope))
    ELSE None

StartViewer ==
    /\ product = "viewer" /\ run.pc = "idle" /\ scope.day > 0 /\ ~Verifies(manifest)
    /\ run' = [pc |-> "probe", probes |-> KeptProbes,
               todo |-> Outside(scope) \ DOMAIN KeptProbes, fresh |-> None,
               evidence |-> IF KeepsEvidence THEN manifest.evidence ELSE None,
               refresh |-> IF KeepsEvidence THEN Seeds(scope) \ manifest.seeds ELSE Seeds(scope),
               required |-> {}, half |-> None, prior |-> manifest]
    /\ UNCHANGED <<product, filed, listed, scope, manifest, faults>>

Probe(r) ==
    /\ run.pc = "probe" /\ r \in run.todo
    /\ run' = [run EXCEPT !.probes = With(@, r, Page(r)), !.fresh = With(@, r, Page(r)),
                          !.todo = @ \ {r}]
    /\ UNCHANGED <<product, filed, listed, scope, manifest, faults>>

\* Required: the seeds and the linked corrections; what is new or missing is read.
Require ==
    LET required == Seeds(scope)
            \cup {p \in DOMAIN run.probes : Selected(run.probes[p], scope)}
        refresh == run.refresh \cup (required \ DOMAIN run.evidence)
    IN /\ run.pc = "probe" /\ run.todo = {}
       /\ run' = [run EXCEPT !.pc = "fetch", !.required = required, !.refresh = refresh,
                             !.todo = refresh,
                             !.evidence = Restrict(@, (DOMAIN @ \cap required) \ refresh)]
       /\ UNCHANGED <<product, filed, listed, scope, manifest, faults>>

Fetching == {"fetch", "family", "close"}

\* A page read as a probe in this run is not requested a second time.
Source(r) == IF run.pc = "fetch" /\ r \in DOMAIN run.fresh THEN run.fresh[r] ELSE Page(r)
Fetch(r) ==
    /\ run.pc \in Fetching /\ r \in run.todo \ DOMAIN run.half
    /\ run' = IF IsAttachment(r) THEN [run EXCEPT !.half = With(@, r, Source(r))]
              ELSE [run EXCEPT !.todo = @ \ {r},
                               !.evidence = With(@, r, Evidence(r, Source(r)))]
    /\ UNCHANGED <<product, filed, listed, scope, manifest, faults>>

\* The economic page of an attachment is requested after its own page.
FetchEconomic(r) ==
    LET economic == Max(run.half[r].family)
    IN /\ run.pc \in Fetching /\ r \in run.todo \cap DOMAIN run.half
       /\ run' = IF economic <= listed /\ Page(economic) = run.half[r]
                 THEN [run EXCEPT !.todo = @ \ {r}, !.half = Restrict(@, DOMAIN @ \ {r}),
                                  !.evidence = With(@, r, Evidence(r, run.half[r]))]
                 ELSE Idle
       /\ UNCHANGED <<product, filed, listed, scope, manifest, faults>>

\* Mutant: the older members keep the evidence they had.
RefreshFamiliesSkipped ==
    /\ run.pc = "fetch" /\ run.todo = {}
    /\ run' = [run EXCEPT !.pc = "family"]
    /\ UNCHANGED <<product, filed, listed, scope, manifest, faults>>

\* A family with a receipt just read has its older members read again.
RefreshFamilies ==
    LET touched == {Min(run.evidence[r].page.family) : r \in run.refresh}
        older == {r \in DOMAIN run.evidence \ run.refresh :
                      Min(run.evidence[r].page.family) \in touched}
    IN /\ run.pc = "fetch" /\ run.todo = {}
       /\ run' = [run EXCEPT !.pc = "family", !.todo = older]
       /\ UNCHANGED <<product, filed, listed, scope, manifest, faults>>

\* Newest members that no evidence covers are read until there are none.
Close ==
    /\ run.pc \in {"family", "close"} /\ run.todo = {}
    /\ \E r \in DOMAIN run.evidence : Newest(run.evidence, r) > listed
       \/ Pending(run.evidence) # {}
    /\ run' = IF \E r \in DOMAIN run.evidence : Newest(run.evidence, r) > listed THEN Idle
              ELSE [run EXCEPT !.pc = "close", !.todo = Pending(run.evidence),
                               !.required = @ \cup Pending(run.evidence)]
    /\ UNCHANGED <<product, filed, listed, scope, manifest, faults>>

PublishViewer ==
    /\ run.pc \in {"family", "close"} /\ run.todo = {}
    /\ \A r \in DOMAIN run.evidence : Newest(run.evidence, r) <= listed
    /\ Pending(run.evidence) = {}
    /\ IF TerminalsValid(run.evidence)
       THEN /\ manifest' = [NoManifest EXCEPT
                   !.scope = scope, !.audit = listed, !.seeds = Seeds(scope),
                   !.probes = run.probes, !.required = run.required,
                   !.evidence = run.evidence]
            /\ run' = [run EXCEPT !.pc = "verify"]
       ELSE run' = Idle /\ UNCHANGED manifest
    /\ UNCHANGED <<product, filed, listed, scope, faults>>

------------------------------------------------------------------------------
(* Both: the published manifest is verified from disk, or the old one returns. *)

Verify ==
    /\ run.pc = "verify"
    /\ run' = Idle
    /\ manifest' = IF Verifies(manifest) THEN manifest ELSE run.prior
    /\ UNCHANGED <<product, filed, listed, scope, faults>>

\* A request fails for good or a check cannot read a file: the run is refused.
Fail ==
    /\ run.pc # "idle" /\ faults < MaxFaults
    /\ faults' = faults + 1
    /\ run' = Idle
    /\ manifest' = IF run.pc = "verify" THEN run.prior ELSE manifest
    /\ UNCHANGED <<product, filed, listed, scope>>

\* The process is gone; a manifest it wrote stays, verified or not.
Stop ==
    /\ run.pc # "idle" /\ faults < MaxFaults
    /\ faults' = faults + 1
    /\ run' = Idle
    /\ UNCHANGED <<product, filed, listed, scope, manifest>>

Start == StartSupport \/ StartViewer
Step ==
    \/ ReadMain \/ Derive \/ Recheck \/ PublishSupport \/ Require \/ RefreshFamilies \/ Close \/ PublishViewer \/ Verify
    \/ \E r \in Receipts : Probe(r) \/ Fetch(r) \/ FetchEconomic(r)

Next == File \/ Day \/ Start \/ Step \/ Fail \/ Stop

Spec == Init /\ [][Next]_vars

\* The next day comes however often a task of today was refused; a task that
\* failed is tried again, and its requests are answered.
FairSpec == Spec /\ SF_vars(Today) /\ WF_vars(Start) /\ WF_vars(Step)

------------------------------------------------------------------------------
(* What must hold. *)

Pages == [family : SUBSET Receipts, attachments : SUBSET Receipts]
PartialOn(S, T) == UNION {[D -> T] : D \in SUBSET S}
Scopes == [start : Nat, end : 0 .. MaxFilings, day : Nat]
Evidences == [page : Pages, economic : Receipts]
Ends == [economic : Receipts, status : {"ACTIVE", "ZERO_RATIO", "WITHDRAWN"}, admissible : BOOLEAN]
IsManifest(m) ==
    /\ DOMAIN m = DOMAIN NoManifest
    /\ m.scope \in Scopes /\ m.audit \in 0 .. MaxFilings
    /\ m.seeds \subseteq Receipts /\ m.required \subseteq Receipts
    /\ DOMAIN m.probes \subseteq Receipts /\ \A r \in DOMAIN m.probes : m.probes[r] \in Pages
    /\ DOMAIN m.evidence \subseteq Receipts /\ \A r \in DOMAIN m.evidence : m.evidence[r] \in Evidences
    /\ DOMAIN m.entries \subseteq Receipts
    /\ \A f \in DOMAIN m.entries : m.entries[f].page \in Pages /\ m.entries[f].end \in Ends

\* State the collectors keep (run has the local variables of one collection).
TypeOK ==
    /\ product \in Products
    /\ filed \in Seq([root : Receipts, kind : AllKinds]) /\ Len(filed) \in Receipts
    /\ listed \in 0 .. Len(filed) /\ scope \in Scopes
    /\ IsManifest(manifest)
    /\ run.pc \in {"idle", "read", "recheck", "probe", "fetch", "family", "close", "verify"}
    /\ run.pc # "idle" => IsManifest(run.prior)
    /\ faults \in 0 .. MaxFaults

\* The receipts the manifest shows in the family of a receipt it tracks.
ShownWith(m, r) ==
    IF product = "viewer"
    THEN IF r \in DOMAIN m.evidence THEN Shown(m.evidence[r].page) ELSE {}
    ELSE IF Root(r) \in DOMAIN m.entries THEN Shown(m.entries[Root(r)].page) ELSE {}

Tracked(m) ==
    {r \in m.scope.start .. m.scope.end :
        r \in DOMAIN filed /\ (product = "support" \/ Revision(r))}

ShownUpTo(m, r, kept) ==
    /\ {f \in Family(Root(r)) : f <= m.scope.end /\ f \in kept} \subseteq ShownWith(m, r)
    /\ ShownWith(m, r) \cap Members(Root(r)) \subseteq 1 .. m.audit

\* However many pages were reused and whatever was filed meanwhile, a published
\* manifest shows with every correction (support: every filing) of its range the
\* whole family up to the end of the range, corrections only for the viewer, and
\* no member that the lists of that collection did not hold.
Covered ==
    \A r \in Tracked(manifest) :
        ShownUpTo(manifest, r, {f \in DOMAIN filed : product = "support" \/ Revision(f)})

\* README: the viewer's official selector is read again on every run.  So the
\* evidence of a correction would show every member filed up to the range's end.
SelectorsCurrent == \A r \in Tracked(manifest) : ShownUpTo(manifest, r, DOMAIN filed)

\* What a collection puts together from reused and new evidence is what the
\* verifier derives from the lists: with corrections alone, whatever their order,
\* only an unreadable file makes it refuse.
PublishedVerifies ==
    run.pc = "verify" /\ (\A r \in DOMAIN filed : filed[r].kind # "PLAIN") => Verifies(manifest)

\* A family read in this run is published with all that was filed in it before
\* the last member had been read: the second reading closes the window in which
\* a correction of a member read early would be missed.
WindowClosed ==
    run.pc = "verify" /\ product = "support" =>
        \A f \in {Root(r) : r \in run.new} :
            {r \in Family(f) : r <= run.seen} \subseteq Shown(manifest.entries[f].page)

\* An attachment filed after a withdrawal never revives the family: an admissible
\* entry rests on a filing that no other, nor a withdrawal, of the range follows.
NeverRevived ==
    \A f \in DOMAIN manifest.entries :
        manifest.entries[f].end.admissible =>
            \A w \in Members(f) :
                w <= manifest.scope.end =>
                    w <= manifest.entries[f].end.economic /\ ~IsAttachment(manifest.entries[f].end.economic)

\* Families the collectors refuse for good: an attachment a support collection
\* does not read with the rest, an undated newest decision, a plain newest filing.
Blocked ==
    \E r \in DOMAIN filed :
        IF product = "support"
        THEN IsAttachment(r) /\ (r < scope.start \/ \E f \in Family(Root(r)) : f > r)
        ELSE filed[r].kind = "PLAIN" \/ (filed[r].kind = "PENDING" /\ r = Max(Members(Root(r))))

\* Otherwise corrections that keep arriving, also in the middle of a collection,
\* only delay it: the manifest of a day that lists everything filed is published.
CaughtUp == []<>(Blocked \/ (scope.end = Len(filed) /\ Verifies(manifest)))
=============================================================================
