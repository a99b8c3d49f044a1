----------------------- MODULE OfficialFamiliesProofs -----------------------
(* Theorems about OfficialFamilies, for any number of filings, families,   *)
(* kinds, ranges, stops and failed requests.                               *)
EXTENDS OfficialFamilies, WellFoundedInduction, TLAPS

(* The selector page of the family of f when receipt n was the last filed. *)
PageAt(f, n) ==
    [family |-> {r \in Members(f) : r <= n},
     attachments |-> {r \in Family(f) \ Members(f) : r <= n}]

(* An entry derived from such a page, which holds every member up to the   *)
(* end of the range but those of R.                                        *)
EntryOK(e, f, end, audit, R) ==
    /\ f \in DOMAIN filed /\ Root(f) = f
    /\ \E n \in f .. audit :
        /\ e = [page |-> PageAt(f, n), end |-> Terminal(PageAt(f, n).family)]
        /\ \A r \in Family(f) : r <= end => r <= n \/ r \in R

(* Evidence from such a page, which holds every correction up to the end   *)
(* of the range but those of R.                                            *)
Sees(e, r, end, R) ==
    /\ r \in DOMAIN filed
    /\ \E n \in r .. Len(filed) :
        /\ e = Evidence(r, PageAt(Root(r), n))
        /\ \A g \in Family(Root(r)) : Revision(g) /\ g <= end => g <= n \/ g \in R

(* A page of r, of whatever day; one of the running collection.            *)
ProbeOK(page, r) ==
    r \in DOMAIN filed /\ \E n \in r .. Len(filed) : page = PageAt(Root(r), n)
ReadNow(page, r) ==
    r \in 1 .. listed /\ \E n \in listed .. Len(filed) : page = PageAt(Root(r), n)

FiledOK ==
    /\ filed \in Seq([root : Receipts, kind : AllKinds]) /\ Len(filed) \in Receipts
    /\ \A r \in DOMAIN filed :
        /\ Root(r) <= r /\ filed[Root(r)].kind = "ORIGINAL"
        /\ filed[r].kind = "ORIGINAL" => Root(r) = r

ListsOK ==
    /\ product \in Products
    /\ listed \in 0 .. Len(filed)
    /\ scope \in [start : Nat \ {0}, end : 0 .. listed, day : Nat]
    /\ scope.day > 0 => scope.start <= scope.end
    /\ faults \in 0 .. MaxFaults

ManifestShape(m) ==
    m = [scope |-> m.scope, audit |-> m.audit, seeds |-> m.seeds, probes |-> m.probes,
         required |-> m.required, evidence |-> m.evidence, entries |-> m.entries]

ManifestOK(m) ==
    /\ ManifestShape(m)
    /\ m.scope \in [start : Nat, end : Nat, day : Nat] /\ m.audit \in 0 .. listed
    /\ m.scope.start <= m.scope.end /\ m.scope.end <= m.audit
    /\ m.seeds \subseteq (m.scope.start .. m.scope.end) \cap 1 .. listed
    /\ m.required \subseteq 1 .. listed
    /\ \A p \in DOMAIN m.probes : ProbeOK(m.probes[p], p)
    /\ \A r \in DOMAIN m.evidence :
        Sees(m.evidence[r], r, m.scope.end, {}) /\ Newest(m.evidence, r) <= m.audit /\ r <= listed
    /\ \A f \in DOMAIN m.entries : EntryOK(m.entries[f], f, m.scope.end, m.audit, {})
    /\ \A r \in DOMAIN filed :
        r \in m.scope.start .. m.scope.end =>
            IF product = "support" THEN Root(r) \in DOMAIN m.entries
            ELSE Revision(r) => r \in DOMAIN m.evidence

------------------------------------------------------------------------------
(* A support collection.                                                   *)

SupportRun ==
    /\ product = "support" /\ scope.day > 0 /\ ManifestOK(run.prior)
    /\ run = [pc |-> run.pc, new |-> run.new, todo |-> run.todo, queue |-> run.queue,
              pages |-> run.pages, kept |-> run.kept, seen |-> run.seen, prior |-> run.prior]
    /\ run.new \subseteq Seeds(scope)
    /\ \A r \in DOMAIN run.pages : ReadNow(run.pages[r], r)

ReadOK ==
    /\ SupportRun
    /\ run.queue \in Seq(SUBSET (Nat \ {0}))
    /\ run.new \subseteq DOMAIN run.pages \cup (IF run.queue = <<>> THEN {} ELSE run.queue[1])
    /\ \A f \in DOMAIN run.kept : EntryOK(run.kept[f], f, scope.end, listed, run.new)
    /\ \A r \in Seeds(scope) : r \in run.new \/ Root(r) \in DOMAIN run.kept

(* Every member of the family just read has shown the same page, and the   *)
(* second reading of any of them shows what was filed when it began.       *)
WindowOK(f) ==
    /\ f \in DOMAIN run.kept /\ run.kept[f].page = run.pages[f] /\ Shown(run.pages[f]) # {}
    /\ \A x \in Shown(run.pages[f]) :
        /\ Root(x) = f /\ run.pages[x] = run.pages[f]
        /\ x \in run.todo \/ {r \in Family(f) : r <= run.seen} \subseteq Shown(run.pages[f])

RecheckOK ==
    /\ SupportRun
    /\ \A f \in DOMAIN run.kept : EntryOK(run.kept[f], f, scope.end, listed, {})
    /\ \A r \in Seeds(scope) : Root(r) \in DOMAIN run.kept
    /\ run.seen \in 0 .. Len(filed)
    /\ \A r \in run.new : WindowOK(Root(r))

------------------------------------------------------------------------------
(* A viewer collection.                                                    *)

ViewerRun ==
    /\ product = "viewer" /\ scope.day > 0 /\ ManifestOK(run.prior)
    /\ run = [pc |-> run.pc, probes |-> run.probes, todo |-> run.todo, fresh |-> run.fresh,
              evidence |-> run.evidence, refresh |-> run.refresh, required |-> run.required,
              half |-> run.half, prior |-> run.prior]
    /\ \A p \in DOMAIN run.probes : ProbeOK(run.probes[p], p)
    /\ \A r \in DOMAIN run.fresh : ReadNow(run.fresh[r], r)
    /\ \A r \in DOMAIN run.half : ReadNow(run.half[r], r)

ProbingOK ==
    /\ ViewerRun
    /\ DOMAIN run.probes \cup run.todo = Outside(scope)
    /\ run.refresh \subseteq Seeds(scope)
    /\ \A r \in DOMAIN run.evidence :
        r <= listed /\ Sees(run.evidence[r], r, scope.end, run.refresh)

NoPlain == \A r \in DOMAIN filed : filed[r].kind # "PLAIN"

Wanted == Seeds(scope) \cup {p \in DOMAIN run.probes : Selected(run.probes[p], scope)}

(* What is being collected, whichever round of requests it is in.          *)
CollectingOK ==
    /\ ViewerRun
    /\ DOMAIN run.probes = Outside(scope)
    /\ run.required = DOMAIN run.evidence \cup run.todo
    /\ run.required \subseteq 1 .. listed
    /\ Wanted \subseteq run.required
    /\ NoPlain => run.required = Wanted

FetchOK ==
    /\ CollectingOK
    /\ run.refresh \subseteq run.required
    /\ \A r \in DOMAIN run.evidence :
        Sees(run.evidence[r], r, scope.end, IF r \in run.refresh THEN {} ELSE run.refresh)

FamilyOK ==
    /\ CollectingOK
    /\ \A r \in DOMAIN run.evidence : r \in run.todo \/ Sees(run.evidence[r], r, scope.end, {})

------------------------------------------------------------------------------
VerifyOK ==
    /\ ManifestOK(run.prior)
    /\ product = "support" =>
        /\ run.new \subseteq 1 .. listed /\ run.seen \in 0 .. Len(filed)
        /\ \A r \in run.new :
            {x \in Family(Root(r)) : x <= run.seen} \subseteq Shown(manifest.entries[Root(r)].page)
    /\ NoPlain => Verifies(manifest)

RunOK ==
    \/ run = Idle
    \/ run.pc = "read" /\ ReadOK
    \/ run.pc = "recheck" /\ RecheckOK
    \/ run.pc = "probe" /\ ProbingOK
    \/ run.pc = "fetch" /\ FetchOK
    \/ run.pc \in {"family", "close"} /\ FamilyOK
    \/ run.pc = "verify" /\ VerifyOK

Inv == FiledOK /\ ListsOK /\ ManifestOK(manifest) /\ RunOK

------------------------------------------------------------------------------
(* Newest and oldest of a set of receipts.                                 *)

LEMMA LeastExists ==
    ASSUME NEW T, T \subseteq Nat, T # {}
    PROVE  \E n \in T : \A m \in T : n <= m
<1> DEFINE R == OpToRel(<, Nat)
<1>1. IsWellFoundedOn(R, Nat)
  BY NatLessThanWellFounded
<1> HIDE DEF R
<1>2. PICK n \in T : \A m \in T : <<m, n>> \notin R
  BY <1>1, WFMin
<1>3. \A m \in T : m \in Nat /\ n \in Nat /\ ~(m < n)
  BY <1>2 DEF R, OpToRel
<1> QED
  BY <1>2, <1>3

LEMMA MinIn ==
    ASSUME NEW T, T \subseteq Nat, T # {}
    PROVE  Min(T) \in T /\ \A m \in T : Min(T) <= m
<1>1. \E n \in T : \A m \in T : n =< m
  BY LeastExists
<1> QED
  BY <1>1 DEF Min

LEMMA MaxIn ==
    ASSUME NEW N \in Nat, NEW T, T \subseteq 0 .. N, T # {}
    PROVE  Max(T) \in T /\ \A m \in T : m <= Max(T)
<1> DEFINE B == {b \in 0 .. N : \A m \in T : m <= b}
<1>1. N \in B /\ B \subseteq Nat
  OBVIOUS
<1>2. PICK b \in B : \A c \in B : b <= c
  <2> HIDE DEF B
  <2> QED
    BY <1>1, LeastExists
<1>3. b \in T
  <2> SUFFICES ASSUME b \notin T PROVE FALSE
    OBVIOUS
  <2>1. \A m \in T : m \in Nat /\ m <= b /\ m # b
    BY <1>2
  <2>2. PICK t \in T : t \in Nat /\ t <= b /\ t # b
    BY <2>1
  <2>3. b \in 0 .. N /\ b \in Nat /\ b - 1 \in 0 .. N
    BY <2>2
  <2>4. \A m \in T : m <= b - 1
    BY <2>1, <2>3
  <2>5. b - 1 \in B /\ ~(b <= b - 1)
    BY <2>3, <2>4
  <2> QED
    BY <1>2, <2>5
<1>4. \E x \in T : \A y \in T : x >= y
  BY <1>2, <1>3
<1>5. Max(T) \in T /\ \A y \in T : Max(T) >= y
  BY <1>4 DEF Max
<1> QED
  BY <1>5

(* What a page says: the root is its oldest member, the newest is one.     *)
LEMMA Filings ==
    ASSUME FiledOK
    PROVE  /\ Len(filed) \in Nat /\ DOMAIN filed = 1 .. Len(filed)
           /\ MaxFilings \in Nat /\ Len(filed) <= MaxFilings /\ Len(filed) >= 1
           /\ \A r \in DOMAIN filed :
                /\ r \in Nat /\ Root(r) \in DOMAIN filed /\ Root(r) <= r
                /\ Root(Root(r)) = Root(r) /\ ~IsAttachment(Root(r))
                /\ filed[r].kind \in AllKinds
                /\ filed[r].kind = "ORIGINAL" => Root(r) = r
                /\ Root(r) = r => filed[r].kind = "ORIGINAL"
<1>1. Len(filed) \in Nat /\ DOMAIN filed = 1 .. Len(filed) /\ MaxFilings \in Nat
      /\ Len(filed) <= MaxFilings /\ Len(filed) >= 1
  BY FamiliesAssumption DEF FiledOK, Receipts
<1>2. \A r \in DOMAIN filed : filed[r] \in [root : Receipts, kind : AllKinds]
  <2> DEFINE S == [root : Receipts, kind : AllKinds]
  <2>1. filed \in Seq(S)
    BY DEF FiledOK
  <2> HIDE DEF S
  <2>2. \A r \in DOMAIN filed : filed[r] \in S
    BY <2>1
  <2> QED
    BY <2>2 DEF S
<1>3. \A r \in DOMAIN filed : r \in Nat /\ Root(r) \in DOMAIN filed /\ Root(r) <= r
  <2> TAKE r \in DOMAIN filed
  <2>1. Root(r) \in Receipts /\ Root(r) <= r
    BY <1>2 DEF Root, FiledOK
  <2> QED
    BY <1>1, <2>1 DEF Receipts
<1>4. \A r \in DOMAIN filed : filed[Root(r)].kind = "ORIGINAL" /\ (filed[r].kind = "ORIGINAL" => Root(r) = r)
  BY DEF FiledOK
<1>5. \A r \in DOMAIN filed : Root(Root(r)) = Root(r)
  BY <1>3, <1>4
<1> QED
  BY <1>1, <1>2, <1>3, <1>4, <1>5 DEF IsAttachment

LEMMA PageShown ==
    ASSUME NEW f, NEW n
    PROVE  Shown(PageAt(f, n)) = {r \in Family(f) : r <= n}
  BY DEF Shown, PageAt, Members

LEMMA PageNow ==
    ASSUME FiledOK, NEW r \in DOMAIN filed
    PROVE  Page(r) = PageAt(Root(r), Len(filed))
<1>1. \A x \in Family(Root(r)) : x <= Len(filed)
  BY Filings DEF Family
<1>2. Members(Root(r)) = {x \in Members(Root(r)) : x <= Len(filed)}
  BY <1>1 DEF Members
<1>3. Family(Root(r)) \ Members(Root(r)) = {x \in Family(Root(r)) \ Members(Root(r)) : x <= Len(filed)}
  BY <1>1
<1> QED
  BY <1>2, <1>3 DEF Page, PageAt

LEMMA PageEnds ==
    ASSUME FiledOK, NEW f \in DOMAIN filed, Root(f) = f, NEW n \in Nat, f <= n
    PROVE  /\ PageAt(f, n).family = {r \in Members(f) : r <= n}
           /\ PageAt(f, n).family \subseteq 1 .. Len(filed)
           /\ f \in PageAt(f, n).family
           /\ Max(PageAt(f, n).family) \in PageAt(f, n).family
           /\ \A r \in PageAt(f, n).family : r <= Max(PageAt(f, n).family)
           /\ Min(PageAt(f, n).family) = f
<1> DEFINE S == PageAt(f, n).family
<1>1. S = {r \in Members(f) : r <= n}
  BY DEF PageAt
<1>2. S \subseteq DOMAIN filed /\ S \subseteq 1 .. Len(filed) /\ S \subseteq 0 .. Len(filed) /\ S \subseteq Nat
  BY <1>1, Filings DEF Members, Family
<1>3. f \in S
  BY <1>1, Filings DEF Members, Family
<1>4. \A r \in S : f <= r
  BY <1>1, Filings DEF Members, Family
<1> HIDE DEF S
<1>5. Max(S) \in S /\ \A r \in S : r <= Max(S)
  BY <1>2, <1>3, MaxIn, Filings
<1>6. Min(S) \in S /\ Min(S) <= f
  BY <1>2, <1>3, MinIn
<1>7. Min(S) = f
  BY <1>2, <1>4, <1>6, <1>3
<1> QED
  BY <1>1, <1>2, <1>3, <1>5, <1>7 DEF S

------------------------------------------------------------------------------
(* DART only adds filings: pages already read keep what they say.          *)

Grows ==
    /\ Len(filed)' \in Nat /\ Len(filed) <= Len(filed)' /\ DOMAIN filed' = 1 .. Len(filed)'
    /\ \A r \in DOMAIN filed : filed'[r] = filed[r]
    /\ product' = product

LEMMA SameFiling ==
    ASSUME FiledOK, Grows
    PROVE  /\ DOMAIN filed \subseteq DOMAIN filed'
           /\ \A r \in DOMAIN filed :
                /\ Root(r)' = Root(r) /\ (IsAttachment(r)' <=> IsAttachment(r))
                /\ (Revision(r)' <=> Revision(r))
           /\ \A f : {r \in Family(f)' : r <= Len(filed)} = Family(f)
<1>1. DOMAIN filed \subseteq DOMAIN filed'
  BY Filings DEF Grows
<1>2. \A r \in DOMAIN filed : Root(r)' = Root(r)
  BY DEF Root, Grows
<1>3. \A f : {r \in Family(f)' : r <= Len(filed)} = Family(f)
  <2> TAKE f
  <2>1. \A r \in DOMAIN filed' : r <= Len(filed) <=> r \in DOMAIN filed
    BY Filings DEF Grows
  <2>2. Family(f)' = {r \in DOMAIN filed' : Root(r)' = f}
    BY DEF Family, Root
  <2> QED
    BY <1>1, <1>2, <2>1, <2>2 DEF Family
<1> QED
  BY <1>1, <1>2, <1>3 DEF IsAttachment, Revision, Grows

LEMMA SamePage ==
    ASSUME FiledOK, Grows, NEW f, NEW n \in 0 .. Len(filed)
    PROVE  PageAt(f, n)' = PageAt(f, n)
<1>1. \A r \in Family(f)' : r <= n => r \in Family(f)
  BY SameFiling, Filings DEF Family, Grows
<1>2. \A r \in Family(f) : r \in Family(f)'
  BY SameFiling
<1>3. \A r \in Family(f) : IsAttachment(r)' <=> IsAttachment(r)
  BY SameFiling DEF Family
<1>4. Members(f)' = {r \in Family(f)' : ~IsAttachment(r)'}
  BY DEF Members, IsAttachment
<1>5. {r \in Members(f)' : r <= n} = {r \in Members(f) : r <= n}
  BY <1>1, <1>2, <1>3, <1>4 DEF Members
<1>6. {r \in Family(f)' \ Members(f)' : r <= n} = {r \in Family(f) \ Members(f) : r <= n}
  BY <1>1, <1>2, <1>3, <1>4 DEF Members
<1>7. PageAt(f, n)' = [family |-> {r \in Members(f)' : r <= n},
                       attachments |-> {r \in Family(f)' \ Members(f)' : r <= n}]
  BY DEF PageAt
<1> QED
  BY <1>5, <1>6, <1>7 DEF PageAt

LEMMA SameEnd ==
    ASSUME FiledOK, Grows, NEW S, S \subseteq DOMAIN filed, Max(S) \in S
    PROVE  Terminal(S)' = Terminal(S)
<1>1. \A r \in S : filed'[r] = filed[r]
  BY DEF Grows
<1>2. {r \in S : filed'[r].kind \notin Terminated} = {r \in S : filed[r].kind \notin Terminated}
  BY <1>1
<1>3. filed'[Max(S)] = filed[Max(S)]
  BY <1>1
<1> QED
  BY <1>2, <1>3 DEF Terminal

LEMMA EntryKept ==
    ASSUME FiledOK, Grows, NEW e, NEW f, NEW end \in 0 .. Len(filed),
           NEW audit \in 0 .. Len(filed), NEW top \in Nat, audit <= top,
           NEW R, EntryOK(e, f, end, audit, R)
    PROVE  EntryOK(e, f, end, top, R)'
<1>1. PICK n \in f .. audit :
        /\ e = [page |-> PageAt(f, n), end |-> Terminal(PageAt(f, n).family)]
        /\ \A r \in Family(f) : r <= end => r <= n \/ r \in R
  BY DEF EntryOK
<1>2. f \in DOMAIN filed /\ Root(f) = f
  BY DEF EntryOK
<1>3. f \in Nat /\ n \in 0 .. Len(filed) /\ n \in Nat /\ f <= n /\ n \in f .. top
  BY <1>2, Filings
<1>4. PageAt(f, n)' = PageAt(f, n)
  BY <1>3, SamePage
<1>5. Terminal(PageAt(f, n).family)' = Terminal(PageAt(f, n).family)
  <2> DEFINE S == PageAt(f, n).family
  <2>1. S \subseteq DOMAIN filed /\ Max(S) \in S
    BY <1>2, <1>3, PageEnds, Filings
  <2>2. S' = S
    BY <1>4
  <2> HIDE DEF S
  <2>3. \A T : T \subseteq DOMAIN filed /\ Max(T) \in T => Terminal(T)' = Terminal(T)
    BY SameEnd
  <2>4. Terminal(S)' = Terminal(S)
    BY <2>1, <2>2, <2>3
  <2> QED
    BY <2>4 DEF S
<1>6. \A r \in Family(f)' : r <= end => r <= n \/ r \in R
  BY <1>1, SameFiling, Filings DEF Grows, Family
<1>7. f \in DOMAIN filed' /\ Root(f)' = f
  BY <1>2, SameFiling
<1>8. e = [page |-> PageAt(f, n)', end |-> Terminal(PageAt(f, n).family)']
  BY <1>1, <1>4, <1>5
<1> QED
  BY <1>3, <1>6, <1>7, <1>8 DEF EntryOK

LEMMA SeesKept ==
    ASSUME FiledOK, Grows, NEW e, NEW r, NEW end \in 0 .. Len(filed), NEW R, Sees(e, r, end, R)
    PROVE  Sees(e, r, end, R)'
<1>1. PICK n \in r .. Len(filed) :
        /\ e = Evidence(r, PageAt(Root(r), n))
        /\ \A g \in Family(Root(r)) : Revision(g) /\ g <= end => g <= n \/ g \in R
  BY DEF Sees
<1>2. r \in DOMAIN filed /\ r \in Nat
  BY Filings DEF Sees
<1>3. n \in 0 .. Len(filed) /\ n \in r .. Len(filed)'
  BY <1>2, Filings DEF Grows
<1>4. Root(r)' = Root(r) /\ (IsAttachment(r)' <=> IsAttachment(r)) /\ r \in DOMAIN filed'
  BY <1>2, SameFiling
<1>5. PageAt(Root(r), n)' = PageAt(Root(r), n)
  <2>1. \A f : PageAt(f, n)' = PageAt(f, n)
    BY <1>3, SamePage
  <2> QED
    BY <1>4, <2>1
<1>6. Evidence(r, PageAt(Root(r), n))' = Evidence(r, PageAt(Root(r), n))
  BY <1>4, <1>5 DEF Evidence
<1>7. \A g \in Family(Root(r))' : Revision(g)' /\ g <= end => g <= n \/ g \in R
  <2> SUFFICES ASSUME NEW g \in Family(Root(r))', Revision(g)', g <= end PROVE g <= n \/ g \in R
    OBVIOUS
  <2>1. g \in DOMAIN filed'
    BY DEF Family
  <2>2. g <= Len(filed)
    BY <2>1, Filings DEF Grows
  <2>3. \A f : {x \in Family(f)' : x <= Len(filed)} = Family(f)
    BY SameFiling
  <2>4. Family(Root(r))' = {x \in DOMAIN filed' : Root(x)' = Root(r)'}
    BY DEF Family, Root
  <2>5. g \in Family(Root(r))
    BY <1>4, <2>1, <2>2, <2>4, SameFiling, Filings DEF Family, Grows
  <2>6. Revision(g)
    BY <2>5, SameFiling DEF Family
  <2> QED
    BY <1>1, <2>5, <2>6
<1> QED
  BY <1>1, <1>3, <1>4, <1>6, <1>7 DEF Sees

LEMMA ProbeKept ==
    ASSUME FiledOK, Grows, NEW page, NEW r, ProbeOK(page, r)
    PROVE  ProbeOK(page, r)'
<1>1. PICK n \in r .. Len(filed) : page = PageAt(Root(r), n)
  BY DEF ProbeOK
<1>2. r \in DOMAIN filed /\ r \in Nat /\ n \in 0 .. Len(filed) /\ n \in r .. Len(filed)'
  BY <1>1, Filings DEF ProbeOK, Grows
<1>3. Root(r)' = Root(r) /\ r \in DOMAIN filed'
  BY <1>2, SameFiling
<1>4. PageAt(Root(r), n)' = PageAt(Root(r), n)
  <2>1. \A f : PageAt(f, n)' = PageAt(f, n)
    BY <1>2, SamePage
  <2> QED
    BY <1>3, <2>1
<1> QED
  BY <1>1, <1>2, <1>3, <1>4 DEF ProbeOK

LEMMA ReadKept ==
    ASSUME FiledOK, ListsOK, Grows, listed' = listed, NEW page, NEW r, ReadNow(page, r)
    PROVE  ReadNow(page, r)'
<1>1. PICK n \in listed .. Len(filed) : page = PageAt(Root(r), n)
  BY DEF ReadNow
<1>2. r \in DOMAIN filed /\ listed \in Nat /\ n \in 0 .. Len(filed) /\ n \in listed .. Len(filed)'
  BY <1>1, Filings DEF ReadNow, Grows, ListsOK
<1>3. Root(r)' = Root(r)
  BY <1>2, SameFiling
<1>4. PageAt(Root(r), n)' = PageAt(Root(r), n)
  <2>1. \A f : PageAt(f, n)' = PageAt(f, n)
    BY <1>2, SamePage
  <2> QED
    BY <1>3, <2>1
<1> QED
  BY <1>1, <1>2, <1>4 DEF ReadNow

LEMMA ManifestKept ==
    ASSUME FiledOK, ListsOK, Grows, listed' \in Nat, listed <= listed', NEW m, ManifestOK(m)
    PROVE  ManifestOK(m)'
<1>1. /\ m.audit \in Nat /\ m.audit <= listed /\ listed \in Nat /\ listed <= Len(filed)
      /\ m.scope.end \in Nat /\ m.scope.start \in Nat /\ m.scope.end <= m.audit
  BY Filings DEF ManifestOK, ListsOK
<1>2. m.scope.end \in 0 .. Len(filed) /\ m.audit \in 0 .. Len(filed) /\ Len(filed) \in Nat
  BY <1>1, Filings
<1>3. m.audit \in 0 .. listed'
  BY <1>1
<1>4. m.seeds \subseteq (m.scope.start .. m.scope.end) \cap 1 .. listed' /\ m.required \subseteq 1 .. listed'
  BY <1>1 DEF ManifestOK
<1>5. \A p \in DOMAIN m.probes : ProbeOK(m.probes[p], p)'
  BY ProbeKept DEF ManifestOK
<1>6. ASSUME NEW r \in DOMAIN m.evidence
      PROVE  Sees(m.evidence[r], r, m.scope.end, {})' /\ Newest(m.evidence, r) <= m.audit /\ r <= listed'
  <2>1. Sees(m.evidence[r], r, m.scope.end, {}) /\ Newest(m.evidence, r) <= m.audit /\ r <= listed
    BY <1>6 DEF ManifestOK
  <2>2. r \in Nat
    BY <2>1, Filings DEF Sees
  <2> QED
    BY <1>1, <1>2, <2>1, <2>2, SeesKept
<1>7. ASSUME NEW f \in DOMAIN m.entries
      PROVE  EntryOK(m.entries[f], f, m.scope.end, m.audit, {})'
  <2>1. EntryOK(m.entries[f], f, m.scope.end, m.audit, {})
    BY <1>7 DEF ManifestOK
  <2> QED
    BY <1>1, <1>2, <2>1, EntryKept
<1>8. ASSUME NEW r \in DOMAIN filed', r \in m.scope.start .. m.scope.end
      PROVE  IF product' = "support" THEN Root(r)' \in DOMAIN m.entries
             ELSE Revision(r)' => r \in DOMAIN m.evidence
  <2>1. r \in DOMAIN filed
    BY <1>1, <1>2, <1>8, Filings DEF Grows
  <2>2. IF product = "support" THEN Root(r) \in DOMAIN m.entries
        ELSE Revision(r) => r \in DOMAIN m.evidence
    BY <1>8, <2>1 DEF ManifestOK
  <2> QED
    BY <2>1, <2>2, SameFiling DEF Grows
<1>9. ManifestShape(m) /\ m.scope \in [start : Nat, end : Nat, day : Nat] /\ m.scope.start <= m.scope.end
  BY DEF ManifestOK
<1> QED
  BY <1>1, <1>3, <1>4, <1>5, <1>6, <1>7, <1>8, <1>9 DEF ManifestOK, ManifestShape

(* The empty manifest before the first collection.                         *)
LEMMA NoneOK ==
    ASSUME FiledOK, ListsOK
    PROVE  ManifestOK(NoManifest)
<1>1. DOMAIN None = {}
  BY DEF None
<1>2. listed \in Nat
  BY Filings DEF ListsOK
<1>3. \A r \in DOMAIN filed : r \notin 0 .. 0
  BY Filings
<1>4. /\ NoManifest.scope = [start |-> 0, end |-> 0, day |-> 0] /\ NoManifest.audit = 0
      /\ NoManifest.seeds = {} /\ NoManifest.probes = None /\ NoManifest.required = {}
      /\ NoManifest.evidence = None /\ NoManifest.entries = None
      /\ ManifestShape(NoManifest)
  BY DEF NoManifest, ManifestShape
<1> HIDE DEF NoManifest, None
<1> QED
  BY <1>1, <1>2, <1>3, <1>4 DEF ManifestOK

(* What the lists say of a range does not change with later filings.       *)
LEMMA SameLists ==
    ASSUME FiledOK, ListsOK, Grows, listed' = listed, scope' = scope
    PROVE  /\ Seeds(scope)' = Seeds(scope) /\ Outside(scope)' = Outside(scope)
           /\ InRange(scope)' = InRange(scope)
           /\ InRange(scope) \subseteq DOMAIN filed /\ Seeds(scope) \subseteq InRange(scope)
           /\ InRange(scope) = {r \in 1 .. listed : scope.start <= r /\ r <= scope.end}
           /\ Outside(scope) \subseteq 1 .. listed
<1>1. listed \in Nat /\ listed <= Len(filed) /\ scope.start \in Nat /\ scope.end \in Nat
  BY Filings DEF ListsOK
<1>2. InRange(scope) = {r \in 1 .. listed : scope.start <= r /\ r <= scope.end}
  BY <1>1 DEF InRange
<1>3. InRange(scope)' = InRange(scope)
  BY DEF InRange
<1>4. 1 .. listed \subseteq DOMAIN filed
  BY <1>1, Filings
<1>5. \A r \in 1 .. listed : Revision(r)' <=> Revision(r)
  BY <1>4, SameFiling
<1>6. Revisions(scope)' = {r \in InRange(scope)' : Revision(r)'}
  BY DEF Revisions, Revision
<1>7. Revisions(scope)' = Revisions(scope)
  BY <1>2, <1>3, <1>5, <1>6 DEF Revisions
<1>8. {r \in 1 .. listed' : Revision(r)'} = {r \in 1 .. listed : Revision(r)}
  BY <1>5
<1>9. Outside(scope)' = IF product' = "viewer" THEN {r \in 1 .. listed' : Revision(r)'} \ InRange(scope)' ELSE {}
  BY DEF Outside, Revision
<1>10. product' = product
  BY DEF Grows
<1>11. Outside(scope)' = Outside(scope)
  BY <1>3, <1>8, <1>9, <1>10 DEF Outside
<1>12. Seeds(scope)' = IF product' = "viewer" THEN Revisions(scope)' ELSE InRange(scope)'
  BY DEF Seeds
<1>13. Seeds(scope)' = Seeds(scope)
  BY <1>3, <1>7, <1>10, <1>12 DEF Seeds
<1> QED
  BY <1>2, <1>3, <1>4, <1>11, <1>13 DEF Seeds, Revisions, Outside

LEMMA FileGrows ==
    ASSUME FiledOK, ListsOK, File
    PROVE  FiledOK' /\ Grows /\ UNCHANGED <<product, listed, scope, manifest, run, faults>>
<1> DEFINE S == [root : Receipts, kind : AllKinds]
<1>0. PICK L \in Nat : L = Len(filed)
  BY Filings
<1>1. L \in Nat /\ DOMAIN filed = 1 .. L /\ MaxFilings \in Nat /\ L >= 1 /\ L < MaxFilings
  BY <1>0, Filings DEF File
<1>2. filed \in Seq(S)
  BY DEF FiledOK
<1>3. PICK x \in S : /\ filed' = Append(filed, x)
                     /\ \/ x.kind = "ORIGINAL" /\ x.root = L + 1
                        \/ x.root \in DOMAIN filed /\ filed[x.root].kind = "ORIGINAL" /\ x.kind # "ORIGINAL"
  <2>1. CASE filed' = Append(filed, [root |-> L + 1, kind |-> "ORIGINAL"])
    <3>1. [root |-> L + 1, kind |-> "ORIGINAL"] \in S
      BY <1>1 DEF Receipts, AllKinds
    <3> QED
      BY <2>1, <3>1
  <2>2. CASE \E root \in {r \in DOMAIN filed : filed[r].kind = "ORIGINAL"}, kind \in Kinds[product] :
                filed' = Append(filed, [root |-> root, kind |-> kind])
    <3>1. PICK root \in DOMAIN filed, kind \in Kinds[product] :
            filed[root].kind = "ORIGINAL" /\ filed' = Append(filed, [root |-> root, kind |-> kind])
      BY <2>2
    <3>2. root \in Receipts /\ kind \in AllKinds /\ kind # "ORIGINAL"
      BY <1>1, <3>1, FamiliesAssumption DEF Receipts, ListsOK
    <3>3. [root |-> root, kind |-> kind] \in S
      BY <3>2
    <3> QED
      BY <3>1, <3>2, <3>3
  <2> QED
    BY <1>0, <2>1, <2>2 DEF File
<1> HIDE DEF S
<1>4. /\ filed' \in Seq(S) /\ Len(filed') = L + 1 /\ DOMAIN filed' = 1 .. L + 1
      /\ filed'[L + 1] = x /\ \A r \in 1 .. L : filed'[r] = filed[r]
  BY <1>0, <1>1, <1>2, <1>3
<1>5. Grows
  BY <1>0, <1>1, <1>4 DEF Grows, File
<1>6. \A r \in 1 .. L : /\ Root(r)' <= r /\ filed'[Root(r)'].kind = "ORIGINAL"
                        /\ filed'[r].kind = "ORIGINAL" => Root(r)' = r
  <2>1. \A r \in 1 .. L : Root(r)' = Root(r) /\ Root(r) \in 1 .. L
    BY <1>1, <1>5, SameFiling, Filings
  <2> QED
    BY <1>1, <1>4, <2>1 DEF FiledOK
<1>7. /\ Root(L + 1)' <= L + 1 /\ filed'[Root(L + 1)'].kind = "ORIGINAL"
      /\ filed'[L + 1].kind = "ORIGINAL" => Root(L + 1)' = L + 1
  <2>1. Root(L + 1)' = filed'[L + 1].root
    BY <1>5 DEF Root
  <2> QED
    BY <1>1, <1>3, <1>4, <2>1
<1>8. Len(filed') \in Receipts
  BY <1>1, <1>4 DEF Receipts
<1>9. \A r \in DOMAIN filed' : r \in 1 .. L \/ r = L + 1
  BY <1>1, <1>4
<1>10. \A r \in DOMAIN filed' : /\ Root(r)' <= r /\ filed'[Root(r)'].kind = "ORIGINAL"
                                /\ filed'[r].kind = "ORIGINAL" => Root(r)' = r
  BY <1>6, <1>7, <1>9
<1>11. filed' \in Seq([root : Receipts, kind : AllKinds])
  BY <1>4 DEF S
<1> QED
  BY <1>5, <1>8, <1>10, <1>11 DEF FiledOK, File, Receipts, AllKinds

LEMMA SameGrows ==
    ASSUME FiledOK, filed' = filed, product' = product
    PROVE  FiledOK' /\ Grows
<1>1. FiledOK'
  BY DEF FiledOK, Root, Receipts, AllKinds
<1> QED
  BY <1>1, Filings DEF Grows

(* What the evidence of a receipt says of its family.                      *)
LEMMA SeenFamily ==
    ASSUME FiledOK, NEW e, NEW r, NEW end, NEW R, Sees(e[r], r, end, R)
    PROVE  \E n \in r .. Len(filed) :
            /\ r \in DOMAIN filed /\ r \in Nat /\ n \in Nat /\ r <= n /\ n <= Len(filed)
            /\ e[r].page = PageAt(Root(r), n)
            /\ e[r].page.family = {x \in Members(Root(r)) : x <= n}
            /\ e[r].economic = IF IsAttachment(r) THEN Newest(e, r) ELSE r
            /\ Newest(e, r) \in Members(Root(r)) /\ Newest(e, r) <= n
            /\ Newest(e, r) \in DOMAIN filed
            /\ \A x \in Members(Root(r)) : x <= n => x <= Newest(e, r)
            /\ Min(e[r].page.family) = Root(r)
            /\ \A g \in Family(Root(r)) : Revision(g) /\ g <= end => g <= n \/ g \in R
<1>1. PICK n \in r .. Len(filed) :
        /\ e[r] = Evidence(r, PageAt(Root(r), n))
        /\ \A g \in Family(Root(r)) : Revision(g) /\ g <= end => g <= n \/ g \in R
  BY DEF Sees
<1>2. r \in DOMAIN filed /\ r \in Nat /\ n \in Nat /\ r <= n /\ n <= Len(filed)
  BY Filings DEF Sees
<1>3. Root(r) \in DOMAIN filed /\ Root(Root(r)) = Root(r) /\ Root(r) \in Nat /\ Root(r) <= n
  BY <1>2, Filings
<1>4. e[r].page = PageAt(Root(r), n)
      /\ e[r].economic = IF IsAttachment(r) THEN Max(PageAt(Root(r), n).family) ELSE r
  BY <1>1 DEF Evidence
<1>5. /\ PageAt(Root(r), n).family = {x \in Members(Root(r)) : x <= n}
      /\ Max(PageAt(Root(r), n).family) \in PageAt(Root(r), n).family
      /\ \A x \in PageAt(Root(r), n).family : x <= Max(PageAt(Root(r), n).family)
      /\ Min(PageAt(Root(r), n).family) = Root(r)
  BY <1>2, <1>3, PageEnds
<1>6. Newest(e, r) = Max(PageAt(Root(r), n).family)
  BY <1>4 DEF Newest
<1>7. Newest(e, r) \in Members(Root(r)) /\ Newest(e, r) <= n
      /\ \A x \in Members(Root(r)) : x <= n => x <= Newest(e, r)
  BY <1>5, <1>6
<1>8. Newest(e, r) \in DOMAIN filed
  BY <1>7 DEF Members, Family
<1> QED
  BY <1>1, <1>2, <1>4, <1>5, <1>6, <1>7, <1>8

LEMMA VerifiesKept ==
    ASSUME FiledOK, ListsOK, Grows, listed' = listed, scope' = scope,
           NEW m, ManifestOK(m), Verifies(m)
    PROVE  Verifies(m)'
<1>1. /\ Seeds(scope)' = Seeds(scope) /\ Outside(scope)' = Outside(scope)
      /\ InRange(scope)' = InRange(scope) /\ product' = product
  BY SameLists DEF Grows
<1>2. m.scope = scope /\ m.seeds = Seeds(scope)
  BY DEF Verifies
<1>3. CASE product = "viewer"
  <2>1. ProbesVerify(m) /\ EvidenceVerify(m) /\ ClosedDependencies(m)
    BY <1>3 DEF Verifies, VerifiesViewer
  <2>2. ProbesVerify(m)'
    <3>1. ProbesVerify(m)' <=> DOMAIN m.probes = Outside(m.scope)'
      BY DEF ProbesVerify, Outside, InRange, Revision
    <3>2. Outside(m.scope)' = Outside(scope)'
      BY <1>2 DEF Outside, InRange, Revision
    <3> QED
      BY <1>1, <1>2, <2>1, <3>1, <3>2 DEF ProbesVerify
  <2>3. TerminalsValid(m.evidence)'
    <3>1. \A r \in DOMAIN m.evidence : Newest(m.evidence, r) \in DOMAIN filed
      <4> TAKE r \in DOMAIN m.evidence
      <4>1. Sees(m.evidence[r], r, m.scope.end, {})
        BY DEF ManifestOK
      <4> QED
        BY <4>1, SeenFamily
    <3>2. \A r \in DOMAIN m.evidence : filed'[Newest(m.evidence, r)] = filed[Newest(m.evidence, r)]
      BY <3>1 DEF Grows
    <3> QED
      BY <2>1, <3>2 DEF EvidenceVerify, TerminalsValid
  <2>4. ClosedDependencies(m)'
    <3>1. \A p : Selected(p, m.scope)' <=> Selected(p, m.scope)
      <4>1. InRange(m.scope)' = InRange(scope)'
        BY <1>2 DEF InRange
      <4> QED
        BY <1>1, <1>2, <4>1 DEF Selected
    <3> QED
      BY <2>1, <3>1 DEF ClosedDependencies
  <2> QED
    BY <1>1, <1>2, <1>3, <2>1, <2>2, <2>3, <2>4 DEF Verifies, VerifiesViewer, EvidenceVerify
<1>4. CASE product # "viewer"
  <2>1. VerifiesSupport(m)
    BY <1>4 DEF Verifies
  <2>2. VerifiesSupport(m)'
    BY <2>1 DEF VerifiesSupport
  <2> QED
    BY <1>1, <1>2, <1>4, <2>2 DEF Verifies
<1> QED
  BY <1>3, <1>4

------------------------------------------------------------------------------
(* While a collection runs the lists and the range do not change: whatever *)
(* is filed, what it has read keeps its sense.                             *)

Running == Grows /\ listed' = listed /\ scope' = scope

LEMMA Persist ==
    ASSUME FiledOK, ListsOK, Running
    PROVE  /\ \A m : ManifestOK(m) => ManifestOK(m)'
           /\ \A page, r : ReadNow(page, r) => ReadNow(page, r)'
           /\ \A page, r : ProbeOK(page, r) => ProbeOK(page, r)'
           /\ \A e, f, R : EntryOK(e, f, scope.end, listed, R) => EntryOK(e, f, scope.end, listed, R)'
           /\ \A e, r, R : Sees(e, r, scope.end, R) => Sees(e, r, scope.end, R)'
<1>1. /\ listed \in Nat /\ listed \in 0 .. Len(filed) /\ scope.end \in 0 .. Len(filed)
      /\ listed' \in Nat /\ listed <= listed' /\ Grows /\ listed <= listed
  BY Filings DEF ListsOK, Running
<1>2. \A m : ManifestOK(m) => ManifestOK(m)'
  BY <1>1, ManifestKept
<1>3. \A page, r : ReadNow(page, r) => ReadNow(page, r)'
  BY ReadKept DEF Running
<1>4. \A page, r : ProbeOK(page, r) => ProbeOK(page, r)'
  BY <1>1, ProbeKept
<1>5. \A e, f, R : EntryOK(e, f, scope.end, listed, R) => EntryOK(e, f, scope.end, listed, R)'
  <2>1. \A e, f, R : \A end, top \in 0 .. Len(filed) :
            EntryOK(e, f, end, top, R) => EntryOK(e, f, end, top, R)'
    <3> TAKE e, f, R
    <3> TAKE end, top \in 0 .. Len(filed)
    <3>1. top \in Nat /\ top <= top
      BY Filings
    <3> QED
      BY <1>1, <3>1, EntryKept
  <2>2. PICK end \in 0 .. Len(filed), top \in 0 .. Len(filed) : end = scope.end /\ top = listed
    BY <1>1
  <2>3. (end = scope.end /\ top = listed)'
    BY <2>2 DEF Running
  <2>4. \A e, f, R : EntryOK(e, f, end, top, R) => EntryOK(e, f, end, top, R)'
    BY <2>1
  <2> QED
    BY <2>2, <2>3, <2>4
<1>6. \A e, r, R : Sees(e, r, scope.end, R) => Sees(e, r, scope.end, R)'
  <2>1. \A e, r, R : \A end \in 0 .. Len(filed) : Sees(e, r, end, R) => Sees(e, r, end, R)'
    BY <1>1, SeesKept
  <2>2. PICK end \in 0 .. Len(filed) : end = scope.end
    BY <1>1
  <2>3. (end = scope.end)'
    BY <2>2 DEF Running
  <2>4. \A e, r, R : Sees(e, r, end, R) => Sees(e, r, end, R)'
    BY <2>1
  <2> QED
    BY <2>2, <2>3, <2>4
<1> QED
  BY <1>2, <1>3, <1>4, <1>5, <1>6

LEMMA SupportKept ==
    ASSUME FiledOK, ListsOK, Running, SupportRun, run' = run
    PROVE  SupportRun'
<1>1. Seeds(scope)' = Seeds(scope) /\ product' = product
  BY SameLists DEF Running, Grows
<1>2. ManifestOK(run.prior)'
  BY Persist DEF SupportRun
<1>3. \A r \in DOMAIN run.pages : ReadNow(run.pages[r], r)'
  BY Persist DEF SupportRun
<1> QED
  BY <1>1, <1>2, <1>3 DEF SupportRun, Running

LEMMA ReadStays ==
    ASSUME FiledOK, ListsOK, Running, ReadOK, run' = run
    PROVE  ReadOK'
<1>1. SupportRun' /\ Seeds(scope)' = Seeds(scope) /\ listed' = listed /\ scope' = scope
  BY SupportKept, SameLists DEF ReadOK, Running
<1>2. \A f \in DOMAIN run.kept : EntryOK(run.kept[f], f, scope.end, listed, run.new)'
  BY Persist DEF ReadOK
<1>3. \A r \in Seeds(scope) : Root(r)' = Root(r)
  BY SameLists, SameFiling DEF Running
<1> QED
  BY <1>1, <1>2, <1>3 DEF ReadOK

LEMMA WindowStays ==
    ASSUME FiledOK, ListsOK, Running, RecheckOK, run' = run, NEW f, WindowOK(f)
    PROVE  WindowOK(f)'
<1>1. f \in DOMAIN run.kept /\ run.kept[f].page = run.pages[f] /\ Shown(run.pages[f]) # {}
  BY DEF WindowOK
<1>2. Shown(run.pages[f]) \subseteq DOMAIN filed
  <2>1. EntryOK(run.kept[f], f, scope.end, listed, {})
    BY <1>1 DEF RecheckOK
  <2>2. PICK n \in f .. listed : run.kept[f].page = PageAt(f, n)
    BY <2>1 DEF EntryOK
  <2> QED
    BY <1>1, <2>2, PageShown DEF Family
<1>3. \A x \in Shown(run.pages[f]) : Root(x)' = Root(x)
  BY <1>2, SameFiling DEF Running
<1>4. {r \in Family(f)' : r <= run.seen} \subseteq {r \in Family(f) : r <= run.seen}
  <2>1. run.seen \in Nat /\ run.seen <= Len(filed) /\ Len(filed) \in Nat
    BY Filings DEF RecheckOK
  <2>2. \A r \in Family(f)' : r \in Nat
    BY DEF Family, Running, Grows
  <2>3. \A r \in Family(f)' : r <= run.seen => r <= Len(filed)
    BY <2>1, <2>2
  <2> QED
    BY <2>3, SameFiling DEF Running
<1>5. run.seen' = run.seen
  OBVIOUS
<1> QED
  BY <1>1, <1>3, <1>4 DEF WindowOK, Shown

LEMMA RecheckStays ==
    ASSUME FiledOK, ListsOK, Running, RecheckOK, run' = run
    PROVE  RecheckOK'
<1>1. SupportRun' /\ Seeds(scope)' = Seeds(scope) /\ listed' = listed /\ scope' = scope
  BY SupportKept, SameLists DEF RecheckOK, Running
<1>2. \A f \in DOMAIN run.kept : EntryOK(run.kept[f], f, scope.end, listed, {})'
  BY Persist DEF RecheckOK
<1>3. \A r \in Seeds(scope) : Root(r)' = Root(r)
  BY SameLists, SameFiling DEF Running
<1>4. \A r \in run.new : WindowOK(Root(r))'
  <2>1. \A r \in run.new : r \in Seeds(scope) /\ WindowOK(Root(r))
    BY DEF RecheckOK, SupportRun
  <2>2. \A f : WindowOK(f) => WindowOK(f)'
    BY WindowStays
  <2>3. \A r \in run.new : Root(r)' = Root(r)
    BY <1>3, <2>1
  <2> QED
    BY <2>1, <2>2, <2>3
<1>5. run.seen \in 0 .. Len(filed)'
  BY Filings DEF RecheckOK, Running, Grows
<1> QED
  BY <1>1, <1>2, <1>3, <1>4, <1>5 DEF RecheckOK

LEMMA ViewerKept ==
    ASSUME FiledOK, ListsOK, Running, ViewerRun, run' = run
    PROVE  ViewerRun'
<1>1. product' = product /\ scope' = scope
  BY DEF Running, Grows
<1>2. ManifestOK(run.prior)'
  BY Persist DEF ViewerRun
<1>3. /\ \A p \in DOMAIN run.probes : ProbeOK(run.probes[p], p)'
      /\ \A r \in DOMAIN run.fresh : ReadNow(run.fresh[r], r)'
      /\ \A r \in DOMAIN run.half : ReadNow(run.half[r], r)'
  BY Persist DEF ViewerRun
<1> QED
  BY <1>1, <1>2, <1>3 DEF ViewerRun

LEMMA ProbingStays ==
    ASSUME FiledOK, ListsOK, Running, ProbingOK, run' = run
    PROVE  ProbingOK'
<1>1. ViewerRun' /\ Seeds(scope)' = Seeds(scope) /\ Outside(scope)' = Outside(scope)
      /\ listed' = listed /\ scope' = scope
  BY ViewerKept, SameLists DEF ProbingOK, Running
<1>2. \A r \in DOMAIN run.evidence : Sees(run.evidence[r], r, scope.end, run.refresh)'
  BY Persist DEF ProbingOK
<1> QED
  BY <1>1, <1>2 DEF ProbingOK

LEMMA CollectingStays ==
    ASSUME FiledOK, ListsOK, Running, CollectingOK, run' = run
    PROVE  CollectingOK'
<1>1. ViewerRun' /\ Seeds(scope)' = Seeds(scope) /\ Outside(scope)' = Outside(scope)
      /\ InRange(scope)' = InRange(scope) /\ listed' = listed /\ scope' = scope
  BY ViewerKept, SameLists DEF CollectingOK, Running
<1>2. \A p : Selected(p, scope)' <=> Selected(p, scope)
  BY <1>1 DEF Selected
<1>3. Wanted' = Wanted
  BY <1>1, <1>2 DEF Wanted
<1>4. NoPlain' => NoPlain
  BY SameFiling DEF NoPlain, Running, Grows
<1> QED
  BY <1>1, <1>3, <1>4 DEF CollectingOK

LEMMA FetchStays ==
    ASSUME FiledOK, ListsOK, Running, FetchOK, run' = run
    PROVE  FetchOK'
<1>1. CollectingOK'
  BY CollectingStays DEF FetchOK
<1>2. \A r \in DOMAIN run.evidence :
        Sees(run.evidence[r], r, scope.end, IF r \in run.refresh THEN {} ELSE run.refresh)'
  BY Persist DEF FetchOK
<1> QED
  BY <1>1, <1>2 DEF FetchOK

LEMMA FamilyStays ==
    ASSUME FiledOK, ListsOK, Running, FamilyOK, run' = run
    PROVE  FamilyOK'
<1>1. CollectingOK'
  BY CollectingStays DEF FamilyOK
<1>2. \A r \in DOMAIN run.evidence : r \in run.todo \/ Sees(run.evidence[r], r, scope.end, {})'
  BY Persist DEF FamilyOK
<1> QED
  BY <1>1, <1>2 DEF FamilyOK

LEMMA VerifyStays ==
    ASSUME FiledOK, ListsOK, Running, ManifestOK(manifest), VerifyOK, UNCHANGED <<run, manifest>>
    PROVE  VerifyOK'
<1>1. ManifestOK(run.prior)' /\ product' = product /\ listed' = listed
  BY Persist DEF VerifyOK, Running, Grows
<1>2. NoPlain' => NoPlain
  BY SameFiling DEF NoPlain, Running, Grows
<1>3. NoPlain => Verifies(manifest)'
  <2>1. \A m : ManifestOK(m) /\ Verifies(m) => Verifies(m)'
    BY VerifiesKept DEF Running
  <2> QED
    BY <2>1 DEF VerifyOK
<1>4. ASSUME product = "support"
      PROVE  /\ run.new \subseteq 1 .. listed /\ run.seen \in 0 .. Len(filed)'
             /\ \A r \in run.new :
                    {x \in Family(Root(r))' : x <= run.seen} \subseteq Shown(manifest.entries[Root(r)'].page)
  <2>1. /\ run.new \subseteq 1 .. listed /\ run.seen \in Nat /\ run.seen <= Len(filed)
        /\ Len(filed) \in Nat /\ listed \in Nat /\ listed <= Len(filed)
    BY <1>4, Filings DEF VerifyOK, ListsOK
  <2>2. ASSUME NEW r \in run.new
        PROVE  {x \in Family(Root(r))' : x <= run.seen} \subseteq Shown(manifest.entries[Root(r)'].page)
    <3>1. r \in DOMAIN filed
      BY <2>1, <2>2, Filings
    <3>2. Root(r)' = Root(r)
      BY <3>1, SameFiling DEF Running
    <3>3. \A f : \A x \in Family(f)' : x <= run.seen => x \in Family(f)
      <4>1. \A f : \A x \in Family(f)' : x \in Nat
        BY DEF Family, Running, Grows
      <4> QED
        BY <2>1, <4>1, SameFiling DEF Running
    <3>4. {x \in Family(Root(r)) : x <= run.seen} \subseteq Shown(manifest.entries[Root(r)].page)
      BY <1>4, <2>2 DEF VerifyOK
    <3>5. Family(Root(r))' = {x \in DOMAIN filed' : Root(x)' = Root(r)'}
      BY DEF Family, Root
    <3>6. \A x \in Family(Root(r))' : x <= run.seen => x \in Family(Root(r))
      BY <3>2, <3>3, <3>5 DEF Family, Root
    <3> QED
      BY <3>2, <3>4, <3>6
  <2>3. run.seen \in 0 .. Len(filed)'
    BY <2>1 DEF Running, Grows
  <2> QED
    BY <2>1, <2>2, <2>3
<1> QED
  BY <1>1, <1>2, <1>3, <1>4 DEF VerifyOK, Shown

LEMMA RunStays ==
    ASSUME Inv, Running, UNCHANGED <<run, manifest>>
    PROVE  RunOK' /\ ManifestOK(manifest)'
<1>1. ManifestOK(manifest)'
  BY Persist DEF Inv
<1>2. RunOK'
  BY ReadStays, RecheckStays, ProbingStays, FetchStays, FamilyStays, VerifyStays
     DEF Inv, RunOK, Idle
<1> QED
  BY <1>1, <1>2

------------------------------------------------------------------------------
(* A step of a collection leaves DART, the lists and the range alone.      *)

LEMMA StepRuns ==
    ASSUME Inv, UNCHANGED <<product, filed, listed, scope>>
    PROVE  /\ Running /\ FiledOK'
           /\ faults' \in 0 .. MaxFaults => ListsOK'
           /\ \A m : ManifestOK(m) => ManifestOK(m)'
<1>1. FiledOK' /\ Grows
  BY SameGrows DEF Inv
<1>2. Running
  BY <1>1 DEF Running
<1>3. faults' \in 0 .. MaxFaults => ListsOK'
  BY DEF Inv, ListsOK
<1> QED
  BY <1>1, <1>2, <1>3, Persist DEF Inv

(* A refused run leaves the manifest, or the one before it, behind.        *)
LEMMA RefuseInv ==
    ASSUME Inv, UNCHANGED <<product, filed, listed, scope>>, run' = Idle,
           faults' \in 0 .. MaxFaults,
           \/ manifest' = manifest
           \/ manifest' = run.prior /\ run.pc = "verify"
    PROVE  Inv'
<1>1. FiledOK' /\ ListsOK' /\ \A m : ManifestOK(m) => ManifestOK(m)'
  BY StepRuns
<1>2. run.pc = "verify" => ManifestOK(run.prior)
  BY DEF Inv, RunOK, Idle, VerifyOK
<1>3. ManifestOK(manifest)
  BY DEF Inv
<1>4. ManifestOK(manifest)'
  BY <1>1, <1>2, <1>3
<1>5. RunOK'
  BY DEF RunOK, Idle
<1> QED
  BY <1>1, <1>4, <1>5 DEF Inv

LEMMA FaultsStay == Inv => faults \in 0 .. MaxFaults /\ faults \in Nat
  BY FamiliesAssumption DEF Inv, ListsOK

LEMMA FileInv == Inv /\ File => Inv'
<1> SUFFICES ASSUME Inv, File PROVE Inv'
  OBVIOUS
<1>1. FiledOK' /\ Grows /\ UNCHANGED <<product, listed, scope, manifest, run, faults>>
  BY FileGrows DEF Inv
<1>2. Running
  BY <1>1 DEF Running
<1>3. ListsOK'
  BY <1>1, Filings DEF Inv, ListsOK, Grows
<1> QED
  BY <1>1, <1>2, <1>3, RunStays DEF Inv

LEMMA DayInv == Inv /\ Day => Inv'
<1> SUFFICES ASSUME Inv, Day PROVE Inv'
  OBVIOUS
<1>1. PICK start \in Starts, end \in Receipts, day \in {scope.day, scope.day + 1} :
        Ask([start |-> start, end |-> end, day |-> day])
  BY DEF Day
<1>2. /\ run.pc = "idle" /\ listed' = Len(filed) /\ scope' = [start |-> start, end |-> end, day |-> day]
      /\ end \in scope.end .. Len(filed) /\ start <= end
      /\ UNCHANGED <<product, filed, manifest, run, faults>>
  BY <1>1 DEF Ask
<1>3. FiledOK' /\ Grows
  BY <1>2, SameGrows DEF Inv
<1>4. /\ Len(filed) \in Nat /\ listed \in Nat /\ listed <= Len(filed)
      /\ scope.end \in Nat /\ scope.day \in Nat
  BY Filings DEF Inv, ListsOK
<1>5. end \in 0 .. Len(filed) /\ start \in Nat \ {0} /\ day \in Nat
  BY <1>2, <1>4, FamiliesAssumption
<1>6. ListsOK'
  BY <1>2, <1>4, <1>5 DEF Inv, ListsOK
<1>7. ManifestOK(manifest)'
  <2>1. \A m : ManifestOK(m) => ManifestOK(m)'
    BY <1>2, <1>3, <1>4, ManifestKept DEF Inv
  <2> QED
    BY <1>2, <2>1 DEF Inv
<1>8. RunOK'
  BY <1>2 DEF Inv, RunOK, Idle
<1> QED
  BY <1>3, <1>6, <1>7, <1>8 DEF Inv

LEMMA FailInv == Inv /\ Fail => Inv'
<1> SUFFICES ASSUME Inv, Fail PROVE Inv'
  OBVIOUS
<1>1. faults' \in 0 .. MaxFaults
  BY FaultsStay, FamiliesAssumption DEF Fail
<1> QED
  BY <1>1, RefuseInv DEF Fail

LEMMA StopInv == Inv /\ Stop => Inv'
<1> SUFFICES ASSUME Inv, Stop PROVE Inv'
  OBVIOUS
<1>1. faults' \in 0 .. MaxFaults
  BY FaultsStay, FamiliesAssumption DEF Stop
<1> QED
  BY <1>1, RefuseInv DEF Stop

LEMMA VerifyInv == Inv /\ Verify => Inv'
<1> SUFFICES ASSUME Inv, Verify PROVE Inv'
  OBVIOUS
<1>1. faults' \in 0 .. MaxFaults
  BY FaultsStay DEF Verify
<1>2. manifest' = manifest \/ manifest' = run.prior
  BY DEF Verify
<1> QED
  BY <1>1, <1>2, RefuseInv DEF Verify

(* A step that goes on: what is left to show is its next stage.            *)
LEMMA GoesOn ==
    ASSUME Inv, UNCHANGED <<product, filed, listed, scope, manifest, faults>>, RunOK'
    PROVE  Inv'
<1>1. faults' \in 0 .. MaxFaults
  BY FaultsStay
<1>2. FiledOK' /\ ListsOK' /\ \A m : ManifestOK(m) => ManifestOK(m)'
  BY <1>1, StepRuns
<1>3. ManifestOK(manifest)'
  BY <1>2 DEF Inv
<1> QED
  BY <1>2, <1>3 DEF Inv

------------------------------------------------------------------------------
(* The support collection, step by step.                                   *)

LEMMA SupportSeeds ==
    ASSUME Inv, product = "support"
    PROVE  /\ Seeds(scope) = {r \in 1 .. listed : scope.start <= r /\ r <= scope.end}
           /\ Seeds(scope) \subseteq DOMAIN filed
           /\ listed \in Nat /\ listed <= Len(filed) /\ Len(filed) \in Nat
           /\ scope.end \in Nat /\ scope.end <= listed /\ scope.start \in Nat
<1>1. InRange(scope) = {r \in 1 .. listed : scope.start <= r /\ r <= scope.end}
      /\ InRange(scope) \subseteq DOMAIN filed
  <2>1. listed \in Nat /\ scope.start \in Nat /\ scope.end \in Nat /\ listed <= Len(filed)
    BY Filings DEF Inv, ListsOK
  <2> QED
    BY <2>1, Filings DEF InRange, Inv
<1> QED
  BY <1>1, Filings DEF Seeds, Inv, ListsOK

LEMMA CarriedOK ==
    ASSUME Inv, product = "support"
    PROVE  /\ \A f \in DOMAIN Carried : EntryOK(Carried[f], f, scope.end, listed, NewCandidates)
           /\ \A r \in Seeds(scope) : r \in NewCandidates \/ Root(r) \in DOMAIN Carried
<1>1. CASE ~KeepsEntries
  BY <1>1 DEF Carried, None, NewCandidates
<1>2. CASE KeepsEntries
  <2>1. Carried = manifest.entries /\ manifest.scope.start = scope.start
    BY <1>2 DEF Carried, KeepsEntries
  <2>2. /\ manifest.scope.start \in Nat /\ manifest.scope.end \in Nat
        /\ manifest.scope.start <= manifest.scope.end /\ manifest.audit \in 0 .. listed
    BY DEF Inv, ManifestOK
  <2>3. ASSUME NEW f \in DOMAIN Carried
        PROVE  \E n \in f .. manifest.audit :
                /\ f \in DOMAIN filed /\ Root(f) = f
                /\ Carried[f] = [page |-> PageAt(f, n), end |-> Terminal(PageAt(f, n).family)]
                /\ Shown(Carried[f].page) = {r \in Family(f) : r <= n}
                /\ \A r \in Family(f) : r <= manifest.scope.end => r <= n
    <3>1. EntryOK(Carried[f], f, manifest.scope.end, manifest.audit, {})
      BY <2>1, <2>3 DEF Inv, ManifestOK
    <3> QED
      BY <3>1, PageShown DEF EntryOK
  <2>4. ASSUME NEW r \in Seeds(scope), r \notin NewCandidates
        PROVE  Root(r) \in DOMAIN Carried /\ r \in Shown(Carried[Root(r)].page)
    <3>1. PICK f \in DOMAIN Carried : r \in Shown(Carried[f].page)
      BY <2>4 DEF NewCandidates
    <3>2. r \in Family(f)
      BY <2>3, <3>1
    <3> QED
      BY <3>1, <3>2 DEF Family
  <2>5. ASSUME NEW f \in DOMAIN Carried
        PROVE  EntryOK(Carried[f], f, scope.end, listed, NewCandidates)
    <3>1. PICK n \in f .. manifest.audit :
            /\ f \in DOMAIN filed /\ Root(f) = f
            /\ Carried[f] = [page |-> PageAt(f, n), end |-> Terminal(PageAt(f, n).family)]
            /\ Shown(Carried[f].page) = {r \in Family(f) : r <= n}
            /\ \A r \in Family(f) : r <= manifest.scope.end => r <= n
      BY <2>3, <2>5
    <3>2. f \in Nat /\ n \in f .. listed
      BY <2>2, <3>1, SupportSeeds, Filings DEF Inv
    <3>3. ASSUME NEW r \in Family(f), r <= scope.end, ~(r <= n)
          PROVE  r \in NewCandidates
      <4>1. r \in Nat /\ r >= 1 /\ Root(r) = f
        BY <3>3, Filings DEF Family, Inv
      <4>2. ~(r <= manifest.scope.end)
        BY <3>1, <3>3
      <4>3. r \in Seeds(scope)
        BY <2>1, <2>2, <3>3, <4>1, <4>2, SupportSeeds
      <4>4. r \notin Shown(Carried[Root(r)].page)
        BY <3>1, <3>3, <4>1
      <4> QED
        BY <2>4, <4>3, <4>4
    <3> QED
      BY <3>1, <3>2, <3>3 DEF EntryOK
  <2> QED
    BY <2>4, <2>5
<1> QED
  BY <1>1, <1>2

LEMMA StartSupportInv == Inv /\ StartSupport => Inv'
<1> SUFFICES ASSUME Inv, StartSupport PROVE Inv'
  OBVIOUS
<1>1. UNCHANGED <<product, filed, listed, scope, manifest, faults>> /\ product = "support" /\ scope.day > 0
  BY DEF StartSupport
<1>2. Running /\ FiledOK' /\ \A m : ManifestOK(m) => ManifestOK(m)'
  BY <1>1, StepRuns
<1>3. PICK new, kept : new = NewCandidates /\ kept = Carried
  OBVIOUS
<1>4. run' = [pc |-> "read", new |-> new, todo |-> {},
              queue |-> IF new = {} THEN <<>> ELSE <<new>>,
              pages |-> None, kept |-> kept, seen |-> 0, prior |-> manifest]
  BY <1>3 DEF StartSupport
<1>5. Seeds(scope)' = Seeds(scope)
  BY <1>2, SameLists DEF Inv, Running
<1>6. new \subseteq Seeds(scope) /\ new \subseteq Nat \ {0}
  BY <1>1, <1>3, SupportSeeds DEF NewCandidates
<1>7. \A f \in DOMAIN kept : EntryOK(kept[f], f, scope.end, listed, new)'
  BY <1>1, <1>2, <1>3, CarriedOK, Persist DEF Inv
<1>8. \A r \in Seeds(scope) : r \in new \/ Root(r)' \in DOMAIN kept
  <2>1. \A r \in Seeds(scope) : Root(r)' = Root(r)
    BY <1>1, <1>2, SupportSeeds, SameFiling DEF Running, Inv
  <2> QED
    BY <1>1, <1>3, <2>1, CarriedOK
<1>9. SupportRun'
  <2>1. ManifestOK(manifest)'
    BY <1>1, <1>2 DEF Inv
  <2>2. ManifestOK(run.prior)'
    BY <1>1, <1>4, <2>1
  <2>3. DOMAIN run'.pages = {}
    BY <1>4 DEF None
  <2>4. run'.new = new
    BY <1>4
  <2>5. run' = [pc |-> run'.pc, new |-> run'.new, todo |-> run'.todo, queue |-> run'.queue,
                pages |-> run'.pages, kept |-> run'.kept, seen |-> run'.seen, prior |-> run'.prior]
    BY <1>4
  <2> QED
    BY <1>1, <1>5, <1>6, <2>2, <2>3, <2>4, <2>5 DEF SupportRun
<1>10. run'.queue \in Seq(SUBSET (Nat \ {0}))
       /\ run'.new \subseteq DOMAIN run'.pages \cup (IF run'.queue = <<>> THEN {} ELSE run'.queue[1])
  <2> DEFINE T == SUBSET (Nat \ {0})
  <2>1. run'.new = new /\ run'.queue = (IF new = {} THEN <<>> ELSE <<new>>)
    BY <1>4
  <2>2. new \in T
    BY <1>6
  <2> HIDE DEF T
  <2>3. <<new>> \in Seq(T) /\ <<new>> # <<>> /\ <<new>>[1] = new /\ <<>> \in Seq(T)
    BY <2>2
  <2>4. run'.queue \in Seq(T) /\ run'.new \subseteq (IF run'.queue = <<>> THEN {} ELSE run'.queue[1])
    BY <2>1, <2>3
  <2> QED
    BY <2>4 DEF T
<1>11. run'.kept = kept /\ run'.new = new /\ run'.pc = "read"
  BY <1>4
<1>12. ReadOK'
  BY <1>1, <1>5, <1>7, <1>8, <1>9, <1>10, <1>11 DEF ReadOK
<1> QED
  BY <1>1, <1>11, <1>12, GoesOn DEF RunOK

(* What a step of the support collection must not touch.                   *)
LEMMA SupportGoes ==
    ASSUME Inv, UNCHANGED <<product, filed, listed, scope>>, SupportRun,
           NEW pc, NEW todo, NEW queue, NEW pages, NEW kept, NEW seen,
           run' = [pc |-> pc, new |-> run.new, todo |-> todo, queue |-> queue,
                   pages |-> pages, kept |-> kept, seen |-> seen, prior |-> run.prior],
           \A r \in DOMAIN pages : ReadNow(pages[r], r)
    PROVE  SupportRun' /\ run'.new = run.new /\ run'.prior = run.prior
<1>1. Running
  BY StepRuns
<1>2. Seeds(scope)' = Seeds(scope)
  BY <1>1, SameLists DEF Running, Inv
<1>3. ManifestOK(run.prior)'
  <2>1. \A m : ManifestOK(m) => ManifestOK(m)'
    BY StepRuns
  <2>2. run'.prior = run.prior
    OBVIOUS
  <2> QED
    BY <2>1, <2>2 DEF SupportRun
<1>4. \A r \in DOMAIN pages : ReadNow(pages[r], r)'
  BY <1>1, Persist DEF Inv
<1>5. run'.pages = pages /\ run'.new = run.new /\ run'.prior = run.prior
  OBVIOUS
<1>6. run' = [pc |-> run'.pc, new |-> run'.new, todo |-> run'.todo, queue |-> run'.queue,
              pages |-> run'.pages, kept |-> run'.kept, seen |-> run'.seen, prior |-> run'.prior]
  OBVIOUS
<1> QED
  BY <1>2, <1>3, <1>4, <1>5, <1>6 DEF SupportRun

LEMMA Prefixed ==
    ASSUME NEW S, NEW h \in S, NEW t \in Seq(S)
    PROVE  <<h>> \o t \in Seq(S) /\ Len(<<h>> \o t) >= 1 /\ (<<h>> \o t)[1] = h
<1>1. <<h>> \in Seq(S) /\ Len(<<h>>) = 1 /\ <<h>>[1] = h /\ Len(t) \in Nat
  OBVIOUS
<1>2. <<h>> \o t \in Seq(S)
  BY <1>1
<1>3. Len(<<h>> \o t) = Len(t) + 1
  BY <1>1
<1>4. (<<h>> \o t)[1] = h
  BY <1>1
<1> QED
  BY <1>1, <1>2, <1>3, <1>4

LEMMA QueueStep ==
    ASSUME NEW q \in Seq(SUBSET (Nat \ {0})), q # <<>>, NEW r \in Head(q),
           NEW N, N \subseteq Nat \ {0},
           NEW p, p = IF Head(q) = {r} THEN Tail(q) ELSE <<Head(q) \ {r}>> \o Tail(q),
           NEW z, z = IF N = {} THEN p ELSE Append(p, N)
    PROVE  /\ z \in Seq(SUBSET (Nat \ {0}))
           /\ Head(q) \subseteq {r} \cup (IF z = <<>> THEN {} ELSE z[1])
<1> DEFINE S == SUBSET (Nat \ {0})
<1>1. Head(q) \in S /\ N \in S /\ Head(q) \ {r} \in S
  <2>1. q \in Seq(S) /\ q # <<>>
    OBVIOUS
  <2> HIDE DEF S
  <2>2. Head(q) \in S
    BY <2>1
  <2> QED
    BY <2>2 DEF S
<1>2. q \in Seq(S) /\ Tail(q) \in Seq(S)
  <2>1. q \in Seq(S) /\ q # <<>>
    OBVIOUS
  <2> HIDE DEF S
  <2> QED
    BY <2>1
<1>3. PICK h : h = Head(q) \ {r}
  OBVIOUS
<1>4. h \in S
  BY <1>1, <1>3
<1> HIDE DEF S
<1>5. CASE Head(q) = {r}
  <2>1. p \in Seq(S)
    BY <1>2, <1>5
  <2>2. z \in Seq(S)
    BY <1>1, <2>1
  <2> QED
    BY <1>5, <2>2 DEF S
<1>6. CASE Head(q) # {r}
  <2>1. p = <<h>> \o Tail(q)
    BY <1>3, <1>6
  <2>2. p \in Seq(S) /\ Len(p) >= 1 /\ p[1] = h
    BY <1>2, <1>4, <2>1, Prefixed
  <2>3. z \in Seq(S) /\ Len(z) >= 1 /\ z[1] = h
    BY <1>1, <2>2
  <2>4. z # <<>>
    BY <2>3
  <2> QED
    BY <1>3, <2>3, <2>4 DEF S
<1> QED
  BY <1>5, <1>6

LEMMA ReadMainInv == Inv /\ ReadMain => Inv'
<1> SUFFICES ASSUME Inv, ReadMain PROVE Inv'
  OBVIOUS
<1>1. UNCHANGED <<product, filed, listed, scope, manifest, faults>> /\ run.pc = "read" /\ run.queue # <<>>
  BY DEF ReadMain
<1>2. ReadOK /\ SupportRun
  BY <1>1 DEF Inv, RunOK, Idle, ReadOK
<1>2a. PICK r \in Head(run.queue) :
        LET named == Page(r).family \ (DOMAIN run.pages \cup Queued)
        IN run' = IF r > listed THEN Idle
                  ELSE [run EXCEPT !.pages = With(@, r, Page(r)),
                                   !.queue = IF named = {} THEN Popped(r)
                                             ELSE Append(Popped(r), named)]
  BY DEF ReadMain
<1>3. PICK named :
        /\ named = Page(r).family \ (DOMAIN run.pages \cup Queued)
        /\ run' = IF r > listed THEN Idle
                  ELSE [run EXCEPT !.pages = With(@, r, Page(r)),
                                   !.queue = IF named = {} THEN Popped(r)
                                             ELSE Append(Popped(r), named)]
  BY <1>2a
<1>4. CASE r > listed
  BY <1>1, <1>3, <1>4, FaultsStay, RefuseInv
<1>5. CASE ~(r > listed)
  <2>1. run.queue \in Seq(SUBSET (Nat \ {0})) /\ product = "support"
    BY <1>2 DEF ReadOK, SupportRun
  <2>2. r \in Nat \ {0}
    <3> DEFINE T == SUBSET (Nat \ {0})
    <3>1. run.queue \in Seq(T)
      BY <2>1
    <3> HIDE DEF T
    <3>2. Head(run.queue) \in T
      BY <1>1, <3>1
    <3> QED
      BY <3>2 DEF T
  <2>3. r \in 1 .. listed /\ r \in DOMAIN filed
    BY <1>5, <2>1, <2>2, SupportSeeds, Filings DEF Inv
  <2>4. PICK pages, queue :
          /\ pages = With(run.pages, r, Page(r))
          /\ queue = IF named = {} THEN Popped(r) ELSE Append(Popped(r), named)
    OBVIOUS
  <2>5. run' = [pc |-> "read", new |-> run.new, todo |-> run.todo, queue |-> queue,
                pages |-> pages, kept |-> run.kept, seen |-> run.seen, prior |-> run.prior]
    BY <1>1, <1>2, <1>3, <1>5, <2>4 DEF SupportRun
  <2>6. DOMAIN pages = DOMAIN run.pages \cup {r} /\ pages[r] = Page(r)
        /\ \A x \in DOMAIN run.pages : x # r => pages[x] = run.pages[x]
    BY <2>4 DEF With
  <2>7. ReadNow(Page(r), r)
    <3>1. Len(filed) \in listed .. Len(filed) /\ Page(r) = PageAt(Root(r), Len(filed))
      BY <2>1, <2>3, SupportSeeds, PageNow DEF Inv
    <3> QED
      BY <2>3, <3>1 DEF ReadNow
  <2>8. \A x \in DOMAIN pages : ReadNow(pages[x], x)
    BY <1>2, <2>6, <2>7 DEF SupportRun
  <2>9. SupportRun' /\ run'.new = run.new
    BY <1>1, <1>2, <2>5, <2>8, SupportGoes
  <2>10. named \subseteq Nat \ {0}
    <3>1. Page(r).family \subseteq DOMAIN filed
      BY DEF Page, Members, Family
    <3> QED
      BY <1>3, <3>1, Filings DEF Inv
  <2>11. queue \in Seq(SUBSET (Nat \ {0}))
         /\ Head(run.queue) \subseteq {r} \cup (IF queue = <<>> THEN {} ELSE queue[1])
    <3>1. PICK p : p = Popped(r)
      OBVIOUS
    <3>2. p = IF Head(run.queue) = {r} THEN Tail(run.queue) ELSE <<Head(run.queue) \ {r}>> \o Tail(run.queue)
      BY <3>1 DEF Popped
    <3>3. queue = IF named = {} THEN p ELSE Append(p, named)
      BY <2>4, <3>1
    <3>4. \A q \in Seq(SUBSET (Nat \ {0})) : \A x \in Head(q) :
            q # <<>> /\ p = (IF Head(q) = {x} THEN Tail(q) ELSE <<Head(q) \ {x}>> \o Tail(q)) =>
                /\ queue \in Seq(SUBSET (Nat \ {0}))
                /\ Head(q) \subseteq {x} \cup (IF queue = <<>> THEN {} ELSE queue[1])
      BY <2>10, <3>3, QueueStep
    <3> QED
      BY ONLY <1>1, <1>3, <2>1, <3>2, <3>4
  <2>12. run.new \subseteq DOMAIN pages \cup (IF queue = <<>> THEN {} ELSE queue[1])
    <3>1. run.new \subseteq DOMAIN run.pages \cup run.queue[1]
      BY <1>1, <1>2 DEF ReadOK
    <3>2. run.queue[1] = Head(run.queue)
      BY <2>1
    <3> QED
      BY <2>6, <2>11, <3>1, <3>2
  <2>13. Running /\ Seeds(scope)' = Seeds(scope)
    BY <1>1, StepRuns, SameLists DEF Running, Inv
  <2>14. \A f \in DOMAIN run.kept : EntryOK(run.kept[f], f, scope.end, listed, run.new)'
    <3>1. PICK new : new = run.new
      OBVIOUS
    <3>2. run'.new = new
      BY <2>5, <3>1
    <3>3. \A f \in DOMAIN run.kept : EntryOK(run.kept[f], f, scope.end, listed, new)
      BY <1>2, <3>1 DEF ReadOK
    <3>4. PICK kept : kept = run.kept
      OBVIOUS
    <3>5. \A f \in DOMAIN kept : EntryOK(kept[f], f, scope.end, listed, new)'
      BY <2>13, <3>3, <3>4, Persist DEF Inv
    <3>6. run'.kept = kept
      BY <2>5, <3>4
    <3> QED
      BY <3>2, <3>4, <3>5, <3>6
  <2>15. \A x \in Seeds(scope) : x \in run.new \/ Root(x)' \in DOMAIN run.kept
    BY <1>2, <2>1, <2>13, SupportSeeds, SameFiling DEF ReadOK, Running, Inv
  <2>16. run'.queue = queue /\ run'.pages = pages /\ run'.kept = run.kept /\ run'.pc = "read"
    BY <2>5
  <2>17. ReadOK'
    BY <2>9, <2>11, <2>12, <2>13, <2>14, <2>15, <2>16 DEF ReadOK
  <2> QED
    BY <1>1, <2>16, <2>17, GoesOn DEF RunOK
<1> QED
  BY <1>4, <1>5

(* What the agreement of the pages of a family shows: they are the page of *)
(* the day of the lists.                                                   *)
LEMMA DerivedFamily ==
    ASSUME Inv, ReadOK, NEW r \in run.new, r \in DOMAIN run.pages,
           Derivable(Root(r), run.new, run.pages)
    PROVE  /\ Root(r) \in DOMAIN filed /\ Root(Root(r)) = Root(r) /\ Root(r) <= listed
           /\ run.pages[Root(r)] = PageAt(Root(r), listed)
           /\ r \in Shown(run.pages[Root(r)])
           /\ \A x \in Shown(run.pages[Root(r)]) :
                Root(x) = Root(r) /\ run.pages[x] = run.pages[Root(r)]
<1> DEFINE f == Root(r)
           order == Order(f, run.new, run.pages)
<1>1. product = "support" /\ r \in Seeds(scope) /\ ReadNow(run.pages[r], r)
  BY DEF ReadOK, SupportRun
<1>2. /\ r \in 1 .. listed /\ r \in DOMAIN filed /\ r \in Nat
      /\ listed \in Nat /\ listed <= Len(filed) /\ Len(filed) \in Nat
  BY <1>1, SupportSeeds
<1>3. PICK k \in listed .. Len(filed) : run.pages[r] = PageAt(f, k)
  BY <1>1 DEF ReadNow
<1>4. k \in Nat /\ r <= k /\ listed <= k
  BY <1>2, <1>3
<1>5. f \in DOMAIN filed /\ Root(f) = f /\ f <= r /\ f \in Nat /\ f <= listed
  <2>1. f \in DOMAIN filed /\ Root(f) = f /\ f <= r /\ f \in Nat
    BY <1>2, Filings DEF Inv
  <2> QED
    BY <1>2, <2>1
<1>6. Shown(run.pages[r]) = {x \in Family(f) : x <= k}
  BY <1>3, PageShown
<1>7. r \in Shown(run.pages[r])
  BY <1>2, <1>4, <1>6 DEF Family
<1>8. Shown(run.pages[r]) \subseteq order
  BY DEF Order
<1>9. /\ order \subseteq 1 .. listed
      /\ \A x \in order : run.pages[x] = run.pages[f] /\ Shown(run.pages[x]) = order
  BY DEF Derivable
<1> HIDE DEF order
<1>10. run.pages[r] = run.pages[f] /\ Shown(run.pages[f]) = order
  BY <1>7, <1>8, <1>9
<1>11. \A x \in Family(f) : x <= k <=> x <= listed
  <2>1. \A x \in Family(f) : x <= k => x \in 1 .. listed
    BY <1>6, <1>9, <1>10
  <2>2. \A x \in Family(f) : x \in Nat
    BY <1>2, Filings DEF Family, Inv
  <2> QED
    BY <1>2, <1>4, <2>1, <2>2
<1>12. PageAt(f, k) = PageAt(f, listed)
  <2>1. {x \in Members(f) : x <= k} = {x \in Members(f) : x <= listed}
    BY <1>11 DEF Members
  <2>2. {x \in Family(f) \ Members(f) : x <= k} = {x \in Family(f) \ Members(f) : x <= listed}
    BY <1>11
  <2> QED
    BY <2>1, <2>2 DEF PageAt
<1>13. \A x \in order : Root(x) = f
  BY <1>6, <1>10 DEF Family
<1> QED
  BY <1>3, <1>5, <1>7, <1>9, <1>10, <1>12, <1>13

LEMMA DeriveInv == Inv /\ Derive => Inv'
<1> SUFFICES ASSUME Inv, Derive PROVE Inv'
  OBVIOUS
<1> DEFINE roots == {Root(r) : r \in run.new}
           Entry(f) == [page |-> run.pages[f], end |-> Terminal(run.pages[f].family)]
<1>1. UNCHANGED <<product, filed, listed, scope, manifest, faults>> /\ run.pc = "read" /\ run.queue = <<>>
  BY DEF Derive
<1>2. ReadOK /\ SupportRun /\ product = "support"
  BY <1>1 DEF Inv, RunOK, Idle, ReadOK, SupportRun
<1>3. CASE ~(\A f \in roots : Derivable(f, run.new, run.pages))
  <2>1. run' = Idle
    BY <1>3 DEF Derive
  <2> QED
    BY <1>1, <2>1, FaultsStay, RefuseInv
<1>4. CASE \A f \in roots : Derivable(f, run.new, run.pages)
  <2>1. PICK kept, todo :
          /\ kept = [f \in DOMAIN run.kept \cup roots |-> IF f \in roots THEN Entry(f) ELSE run.kept[f]]
          /\ todo = UNION {Shown(run.pages[f]) : f \in roots}
    OBVIOUS
  <2>2. run' = [run EXCEPT !.pc = "recheck", !.kept = kept, !.todo = todo, !.seen = Len(filed)]
    BY <1>4, <2>1 DEF Derive
  <2>3. run' = [pc |-> "recheck", new |-> run.new, todo |-> todo, queue |-> run.queue,
                pages |-> run.pages, kept |-> kept, seen |-> Len(filed), prior |-> run.prior]
    BY <1>2, <2>2 DEF SupportRun
  <2>4. SupportRun' /\ run'.new = run.new
    BY <1>1, <1>2, <2>3, SupportGoes DEF SupportRun
  <2>5. run.new \subseteq DOMAIN run.pages /\ run.new \subseteq Seeds(scope)
    BY <1>1, <1>2 DEF ReadOK, SupportRun
  <2>6. ASSUME NEW r \in run.new
        PROVE  /\ Root(r) \in DOMAIN filed /\ Root(Root(r)) = Root(r) /\ Root(r) <= listed
               /\ run.pages[Root(r)] = PageAt(Root(r), listed)
               /\ r \in Shown(run.pages[Root(r)])
               /\ \A x \in Shown(run.pages[Root(r)]) :
                    Root(x) = Root(r) /\ run.pages[x] = run.pages[Root(r)]
    <3>1. Derivable(Root(r), run.new, run.pages)
      BY <1>4, <2>6
    <3> QED
      BY <1>2, <2>5, <2>6, <3>1, DerivedFamily
  <2>7. DOMAIN kept = DOMAIN run.kept \cup roots
        /\ (\A f \in roots : kept[f] = Entry(f))
        /\ (\A f \in DOMAIN run.kept : f \notin roots => kept[f] = run.kept[f])
    BY <2>1
  <2> HIDE DEF Entry
  <2>8. ASSUME NEW f \in DOMAIN kept
        PROVE  EntryOK(kept[f], f, scope.end, listed, {})
    <3>1. CASE f \in roots
      <4>1. PICK r \in run.new : f = Root(r)
        BY <3>1
      <4>2. f \in DOMAIN filed /\ Root(f) = f /\ f <= listed /\ run.pages[f] = PageAt(f, listed)
        BY <2>6, <4>1
      <4>3. kept[f] = [page |-> PageAt(f, listed), end |-> Terminal(PageAt(f, listed).family)]
        BY <2>7, <3>1, <4>2 DEF Entry
      <4>4. f \in Nat /\ listed \in f .. listed
        BY <1>2, <4>2, SupportSeeds, Filings DEF Inv
      <4>5. \A x \in Family(f) : x <= scope.end => x <= listed
        BY <1>2, SupportSeeds, Filings DEF Inv, Family
      <4> QED
        BY <4>2, <4>3, <4>4, <4>5 DEF EntryOK
    <3>2. CASE f \notin roots
      <4>1. EntryOK(run.kept[f], f, scope.end, listed, run.new) /\ kept[f] = run.kept[f]
        BY <1>2, <2>7, <2>8, <3>2 DEF ReadOK
      <4>2. \A x \in Family(f) : x \notin run.new
        BY <3>2 DEF Family
      <4> QED
        BY <4>1, <4>2 DEF EntryOK
    <3> QED
      BY <3>1, <3>2
  <2>9. Running /\ Seeds(scope)' = Seeds(scope)
    BY <1>1, StepRuns, SameLists DEF Running, Inv
  <2>10. \A f \in DOMAIN kept : EntryOK(kept[f], f, scope.end, listed, {})'
    BY <2>8, <2>9, Persist DEF Inv
  <2>11. \A r \in Seeds(scope) : Root(r)' = Root(r) /\ Root(r) \in DOMAIN kept
    <3>1. \A r \in Seeds(scope) : Root(r)' = Root(r)
      BY <1>2, <2>9, SupportSeeds, SameFiling DEF Running, Inv
    <3>2. \A r \in Seeds(scope) : r \in run.new \/ Root(r) \in DOMAIN run.kept
      BY <1>2 DEF ReadOK
    <3> QED
      BY <2>7, <3>1, <3>2
  <2>12. ASSUME NEW r \in run.new
         PROVE  WindowOK(Root(r))'
    <3>1. PICK f : f = Root(r)
      OBVIOUS
    <3>2. f \in roots /\ kept[f].page = run.pages[f]
      <4>1. f \in roots
        BY <2>12, <3>1
      <4>2. kept[f] = [page |-> run.pages[f], end |-> Terminal(run.pages[f].family)]
        BY <2>7, <4>1 DEF Entry
      <4> QED
        BY <4>1, <4>2
    <3>3. Shown(run.pages[f]) # {} /\ \A x \in Shown(run.pages[f]) :
            Root(x) = f /\ run.pages[x] = run.pages[f] /\ x \in todo
      BY <2>1, <2>6, <2>12, <3>1, <3>2
    <3>4. (f = Root(r))'
      BY <2>5, <2>11, <3>1, <2>12
    <3>5. \A x \in Shown(run.pages[f]) : Root(x)' = f
      BY <1>1, <3>3 DEF Root
    <3>6. run'.kept = kept /\ run'.pages = run.pages /\ run'.todo = todo
      BY <2>3
    <3>7. WindowOK(f)'
      BY <2>7, <3>2, <3>3, <3>5, <3>6 DEF WindowOK, Shown
    <3> QED
      BY <3>4, <3>7
  <2>13. run'.kept = kept /\ run'.seen = Len(filed) /\ run'.pc = "recheck"
    BY <2>3
  <2>14. run'.seen \in 0 .. Len(filed)'
    BY <1>1, <2>13, Filings DEF Inv
  <2>15. RecheckOK'
    BY <2>4, <2>9, <2>10, <2>11, <2>12, <2>13, <2>14 DEF RecheckOK
  <2> QED
    BY <1>1, <2>13, <2>15, GoesOn DEF RunOK
<1> QED
  BY <1>3, <1>4

LEMMA RecheckInv == Inv /\ Recheck => Inv'
<1> SUFFICES ASSUME Inv, Recheck PROVE Inv'
  OBVIOUS
<1>1. UNCHANGED <<product, filed, listed, scope, manifest, faults>> /\ run.pc = "recheck" /\ run.todo # {}
  BY DEF Recheck
<1>2. RecheckOK /\ SupportRun /\ product = "support"
  BY <1>1 DEF Inv, RunOK, Idle, RecheckOK, SupportRun
<1>3. PICK r : r = Min(run.todo)
  OBVIOUS
<1>4. CASE Page(r) # run.pages[r]
  <2>1. run' = Idle
    BY <1>3, <1>4 DEF Recheck
  <2> QED
    BY <1>1, <2>1, FaultsStay, RefuseInv
<1>5. CASE Page(r) = run.pages[r]
  <2>1. run' = [run EXCEPT !.todo = @ \ {r}]
    BY <1>3, <1>5 DEF Recheck
  <2>2. run' = [pc |-> "recheck", new |-> run.new, todo |-> run.todo \ {r}, queue |-> run.queue,
                pages |-> run.pages, kept |-> run.kept, seen |-> run.seen, prior |-> run.prior]
    BY <1>1, <1>2, <2>1 DEF SupportRun
  <2>3. SupportRun' /\ run'.new = run.new
    BY <1>1, <1>2, <2>2, SupportGoes DEF SupportRun
  <2>4. Running /\ Seeds(scope)' = Seeds(scope)
    BY <1>1, StepRuns, SameLists DEF Running, Inv
  <2>5. PICK kept, pages : kept = run.kept /\ pages = run.pages
    OBVIOUS
  <2>6. /\ run'.kept = kept /\ run'.pages = pages /\ run'.seen = run.seen /\ run'.pc = "recheck"
        /\ run'.todo = run.todo \ {r}
    BY <2>2, <2>5
  <2>7. \A f \in DOMAIN kept : EntryOK(kept[f], f, scope.end, listed, {})'
    BY <1>2, <2>4, <2>5, Persist DEF Inv, RecheckOK
  <2>8. \A x \in Seeds(scope) : Root(x)' = Root(x) /\ Root(x) \in DOMAIN kept
    BY <1>2, <2>4, <2>5, SupportSeeds, SameFiling DEF Running, Inv, RecheckOK
  <2>9. ASSUME NEW f, WindowOK(f)
        PROVE  WindowOK(f)'
    <3>1. /\ f \in DOMAIN kept /\ kept[f].page = pages[f] /\ Shown(pages[f]) # {}
          /\ \A x \in Shown(pages[f]) :
                /\ Root(x) = f /\ pages[x] = pages[f]
                /\ x \in run.todo \/ {y \in Family(f) : y <= run.seen} \subseteq Shown(pages[f])
      BY <2>5, <2>9 DEF WindowOK
    <3>2. Shown(pages[f]) \subseteq DOMAIN filed
      <4>1. EntryOK(kept[f], f, scope.end, listed, {})
        BY <1>2, <2>5, <3>1 DEF RecheckOK
      <4>2. PICK n \in f .. listed : kept[f].page = PageAt(f, n)
        BY <4>1 DEF EntryOK
      <4> QED
        BY <3>1, <4>2, PageShown DEF Family
    <3>3. r \in Shown(pages[f]) => {y \in Family(f) : y <= run.seen} \subseteq Shown(pages[f])
      <4> SUFFICES ASSUME r \in Shown(pages[f])
                   PROVE  {y \in Family(f) : y <= run.seen} \subseteq Shown(pages[f])
        OBVIOUS
      <4>1. Root(r) = f /\ r \in DOMAIN filed /\ pages[r] = pages[f]
        BY <3>1, <3>2
      <4>2. pages[f] = PageAt(f, Len(filed))
        BY <1>5, <2>5, <4>1, PageNow DEF Inv
      <4>3. \A y \in Family(f) : y <= Len(filed)
        BY Filings DEF Inv, Family
      <4> QED
        BY <4>2, <4>3, PageShown
    <3>4. \A x \in Shown(pages[f]) :
            x \in run.todo \ {r} \/ {y \in Family(f) : y <= run.seen} \subseteq Shown(pages[f])
      BY <3>1, <3>3
    <3>5. \A x \in Shown(pages[f]) : Root(x)' = f
      BY <1>1, <3>1 DEF Root
    <3>6. Family(f)' = Family(f)
      BY <1>1 DEF Family, Root
    <3> QED
      BY <2>6, <3>1, <3>4, <3>5, <3>6 DEF WindowOK, Shown
  <2>10. \A x \in run.new : WindowOK(Root(x))'
    <3>1. \A x \in run.new : x \in Seeds(scope) /\ WindowOK(Root(x))
      BY <1>2 DEF RecheckOK, SupportRun
    <3>2. \A f : WindowOK(f) => WindowOK(f)'
      BY <2>9
    <3> QED
      BY <2>8, <3>1, <3>2
  <2>11. run'.seen \in 0 .. Len(filed)'
    BY <1>1, <1>2, <2>6 DEF RecheckOK
  <2>12. RecheckOK'
    BY <2>3, <2>4, <2>6, <2>7, <2>8, <2>10, <2>11 DEF RecheckOK
  <2> QED
    BY <1>1, <2>6, <2>12, GoesOn DEF RunOK
<1> QED
  BY <1>4, <1>5

LEMMA PublishSupportInv == Inv /\ PublishSupport => Inv'
<1> SUFFICES ASSUME Inv, PublishSupport PROVE Inv'
  OBVIOUS
<1>1. UNCHANGED <<product, filed, listed, scope, faults>> /\ run.pc = "recheck" /\ run.todo = {}
  BY DEF PublishSupport
<1>2. RecheckOK /\ SupportRun /\ product = "support" /\ scope.day > 0
  BY <1>1 DEF Inv, RunOK, Idle, RecheckOK, SupportRun
<1>3. Running /\ FiledOK' /\ ListsOK' /\ \A m : ManifestOK(m) => ManifestOK(m)'
  BY <1>1, FaultsStay, StepRuns
<1>4. PICK seeds, kept, m :
        /\ seeds = Seeds(scope) /\ kept = run.kept
        /\ m = [scope |-> scope, audit |-> listed, seeds |-> seeds, probes |-> None,
                required |-> {}, evidence |-> None, entries |-> kept]
  OBVIOUS
<1>5. manifest' = m /\ run' = [run EXCEPT !.pc = "verify"]
  <2>1. manifest' = [NoManifest EXCEPT !.scope = scope, !.audit = listed, !.seeds = seeds, !.entries = kept]
    BY <1>4 DEF PublishSupport
  <2>2. manifest' = [scope |-> scope, audit |-> listed, seeds |-> seeds, probes |-> None,
                     required |-> {}, evidence |-> None, entries |-> kept]
    BY <2>1 DEF NoManifest
  <2> QED
    BY <1>4, <2>2 DEF PublishSupport
<1>6. m.scope = scope /\ m.audit = listed /\ m.seeds = seeds /\ m.probes = None /\ m.required = {}
      /\ m.evidence = None /\ m.entries = kept /\ ManifestShape(m)
  BY <1>4 DEF ManifestShape
<1>7. DOMAIN None = {}
  BY DEF None
<1>8. /\ seeds = {r \in 1 .. listed : scope.start <= r /\ r <= scope.end}
      /\ seeds \subseteq DOMAIN filed /\ listed \in Nat /\ listed <= Len(filed)
      /\ scope.end \in Nat /\ scope.end <= listed /\ scope.start \in Nat
  BY <1>2, <1>4, SupportSeeds
<1>9. \A f \in DOMAIN kept : EntryOK(kept[f], f, scope.end, listed, {})
  BY <1>2, <1>4 DEF RecheckOK
<1>10. \A r \in seeds : Root(r) \in DOMAIN kept
  BY <1>2, <1>4 DEF RecheckOK
<1>11. ManifestOK(m)
  <2>1. /\ m.scope \in [start : Nat, end : Nat, day : Nat] /\ m.audit \in 0 .. listed
        /\ m.scope.start <= m.scope.end /\ m.scope.end <= m.audit
    BY <1>2, <1>6, <1>8 DEF Inv, ListsOK
  <2>2. m.seeds \subseteq (m.scope.start .. m.scope.end) \cap 1 .. listed /\ m.required \subseteq 1 .. listed
    BY <1>6, <1>8
  <2>3. \A f \in DOMAIN m.entries : EntryOK(m.entries[f], f, m.scope.end, m.audit, {})
    BY <1>6, <1>9
  <2>4. \A r \in DOMAIN filed : r \in m.scope.start .. m.scope.end => Root(r) \in DOMAIN m.entries
    <3>1. \A r \in DOMAIN filed : r \in m.scope.start .. m.scope.end => r \in seeds
      BY <1>6, <1>8, Filings DEF Inv
    <3> QED
      BY <1>6, <1>10, <3>1
  <2> QED
    BY <1>2, <1>6, <1>7, <2>1, <2>2, <2>3, <2>4 DEF ManifestOK
<1>12. Verifies(m)
  <2>1. ASSUME NEW r \in seeds
        PROVE  r \in UNION {Shown(kept[f].page) : f \in DOMAIN kept}
    <3>1. Root(r) \in DOMAIN kept /\ EntryOK(kept[Root(r)], Root(r), scope.end, listed, {})
      BY <1>9, <1>10, <2>1
    <3>2. PICK n \in Root(r) .. listed :
            kept[Root(r)].page = PageAt(Root(r), n) /\ \A x \in Family(Root(r)) : x <= scope.end => x <= n
      BY <3>1 DEF EntryOK
    <3>3. r \in Shown(kept[Root(r)].page)
      BY <1>8, <2>1, <3>2, PageShown DEF Family
    <3> QED
      BY <3>1, <3>3
  <2> QED
    BY <1>2, <1>4, <1>6, <2>1 DEF Verifies, VerifiesSupport
<1>13. ManifestOK(m)' /\ Verifies(m)'
  BY <1>3, <1>11, <1>12, VerifiesKept DEF Inv, Running
<1>14. run'.new = run.new /\ run'.seen = run.seen /\ run'.prior = run.prior /\ run'.pc = "verify"
  BY <1>2, <1>5 DEF SupportRun
<1>15. ManifestOK(run.prior)'
  BY <1>2, <1>3, <1>14 DEF SupportRun
<1>16. run'.new \subseteq 1 .. listed /\ run'.seen \in 0 .. Len(filed)
  BY <1>2, <1>4, <1>8, <1>14 DEF SupportRun, RecheckOK
<1>17. ASSUME NEW r \in run.new
       PROVE  {x \in Family(Root(r)) : x <= run.seen} \subseteq Shown(kept[Root(r)].page)
  <2>1. WindowOK(Root(r))
    BY <1>2, <1>17 DEF RecheckOK
  <2> QED
    BY <1>1, <1>4, <2>1 DEF WindowOK
<1>18. \A r \in run'.new :
         {x \in Family(Root(r))' : x <= run'.seen} \subseteq Shown(manifest'.entries[Root(r)'].page)
  BY <1>1, <1>5, <1>6, <1>14, <1>17 DEF Family, Root
<1>19. VerifyOK'
  BY <1>1, <1>5, <1>13, <1>15, <1>16, <1>18 DEF VerifyOK, Shown, Family, Root
<1>20. RunOK'
  BY <1>14, <1>19 DEF RunOK
<1> QED
  BY <1>3, <1>5, <1>13, <1>20 DEF Inv

------------------------------------------------------------------------------
(* The viewer collection, step by step.                                    *)

LEMMA ViewerLists ==
    ASSUME Inv, product = "viewer"
    PROVE  /\ Seeds(scope) = {r \in 1 .. listed : Revision(r) /\ scope.start <= r /\ r <= scope.end}
           /\ InRange(scope) = {r \in 1 .. listed : scope.start <= r /\ r <= scope.end}
           /\ Outside(scope) = {r \in 1 .. listed : Revision(r) /\ ~(scope.start <= r /\ r <= scope.end)}
           /\ listed \in Nat /\ listed <= Len(filed) /\ Len(filed) \in Nat
           /\ 1 .. listed \subseteq DOMAIN filed
           /\ scope.end \in Nat /\ scope.end <= listed /\ scope.start \in Nat
<1>1. /\ listed \in Nat /\ listed <= Len(filed) /\ Len(filed) \in Nat
      /\ scope.end \in Nat /\ scope.end <= listed /\ scope.start \in Nat
      /\ 1 .. listed \subseteq DOMAIN filed
  BY Filings DEF Inv, ListsOK
<1>2. InRange(scope) = {r \in 1 .. listed : scope.start <= r /\ r <= scope.end}
  BY <1>1 DEF InRange
<1>3. Seeds(scope) = {r \in 1 .. listed : Revision(r) /\ scope.start <= r /\ r <= scope.end}
  BY <1>2 DEF Seeds, Revisions
<1>4. Outside(scope) = {r \in 1 .. listed : Revision(r) /\ ~(scope.start <= r /\ r <= scope.end)}
  BY <1>2 DEF Outside
<1> QED
  BY <1>1, <1>2, <1>3, <1>4

(* A page read in this collection shows the family up to the lists.        *)
LEMMA JustRead ==
    ASSUME Inv, product = "viewer", NEW r, NEW page, ReadNow(page, r), NEW R
    PROVE  Sees(Evidence(r, page), r, scope.end, R) /\ ProbeOK(page, r)
<1>1. PICK n \in listed .. Len(filed) : page = PageAt(Root(r), n)
  BY DEF ReadNow
<1>2. r \in 1 .. listed /\ r \in DOMAIN filed /\ n \in r .. Len(filed) /\ scope.end <= n
      /\ scope.end \in Nat /\ n \in Nat
  BY <1>1, ViewerLists DEF ReadNow
<1>3. \A g \in Family(Root(r)) : Revision(g) /\ g <= scope.end => g <= n
  BY <1>2, Filings DEF Inv, Family
<1> QED
  BY <1>1, <1>2, <1>3 DEF Sees, ProbeOK

LEMMA PageReadNow ==
    ASSUME Inv, product = "viewer", NEW r \in 1 .. listed
    PROVE  ReadNow(Page(r), r)
<1>1. r \in DOMAIN filed /\ Len(filed) \in listed .. Len(filed)
  BY ViewerLists
<1> QED
  BY <1>1, PageNow DEF ReadNow, Inv

(* Evidence carried over lacks at most corrections that are read again.    *)
LEMMA KeptEvidence ==
    ASSUME Inv, product = "viewer", KeepsEvidence, NEW r \in DOMAIN manifest.evidence
    PROVE  r <= listed /\ Sees(manifest.evidence[r], r, scope.end, Seeds(scope) \ manifest.seeds)
<1>1. /\ r <= listed /\ Sees(manifest.evidence[r], r, manifest.scope.end, {})
      /\ manifest.scope.end \in Nat /\ manifest.scope.start \in Nat
      /\ manifest.seeds \subseteq manifest.scope.start .. manifest.scope.end
  BY DEF Inv, ManifestOK
<1>2. PICK n \in r .. Len(filed) :
        /\ r \in DOMAIN filed
        /\ manifest.evidence[r] = Evidence(r, PageAt(Root(r), n))
        /\ \A g \in Family(Root(r)) : Revision(g) /\ g <= manifest.scope.end => g <= n
  BY <1>1 DEF Sees
<1>3. ASSUME NEW g \in Family(Root(r)), Revision(g), g <= scope.end, ~(g <= n)
      PROVE  g \in Seeds(scope) \ manifest.seeds
  <2>1. g \in Nat /\ g >= 1
    BY <1>3, Filings DEF Inv, Family
  <2>2. ~(g <= manifest.scope.end)
    BY <1>2, <1>3
  <2>3. g >= scope.start /\ g \in 1 .. listed
    BY <1>1, <1>3, <2>1, <2>2, ViewerLists DEF KeepsEvidence
  <2>4. g \in Seeds(scope)
    BY <1>3, <2>3, ViewerLists
  <2> QED
    BY <1>1, <2>1, <2>2, <2>4
<1> QED
  BY <1>1, <1>2, <1>3 DEF Sees

LEMMA StartViewerInv == Inv /\ StartViewer => Inv'
<1> SUFFICES ASSUME Inv, StartViewer PROVE Inv'
  OBVIOUS
<1>1. UNCHANGED <<product, filed, listed, scope, manifest, faults>> /\ product = "viewer" /\ scope.day > 0
  BY DEF StartViewer
<1>2. Running /\ FiledOK' /\ \A m : ManifestOK(m) => ManifestOK(m)'
  BY <1>1, StepRuns
<1>3. PICK probes, todo, evidence, refresh :
        /\ probes = KeptProbes /\ todo = Outside(scope) \ DOMAIN KeptProbes
        /\ evidence = IF KeepsEvidence THEN manifest.evidence ELSE None
        /\ refresh = IF KeepsEvidence THEN Seeds(scope) \ manifest.seeds ELSE Seeds(scope)
  OBVIOUS
<1>4. run' = [pc |-> "probe", probes |-> probes, todo |-> todo, fresh |-> None,
              evidence |-> evidence, refresh |-> refresh, required |-> {}, half |-> None,
              prior |-> manifest]
  BY <1>3 DEF StartViewer
<1>5. /\ Seeds(scope)' = Seeds(scope) /\ Outside(scope)' = Outside(scope)
  BY <1>2, SameLists DEF Inv, Running
<1>6. DOMAIN None = {}
  BY DEF None
<1>7. DOMAIN probes \subseteq Outside(scope) /\ \A p \in DOMAIN probes : ProbeOK(probes[p], p)
  <2>1. CASE KeepsEvidence
    <3>1. probes = [p \in DOMAIN manifest.probes \cap Outside(scope) |-> manifest.probes[p]]
      BY <1>3, <2>1 DEF KeptProbes, Restrict
    <3>2. \A p \in DOMAIN manifest.probes : ProbeOK(manifest.probes[p], p)
      BY DEF Inv, ManifestOK
    <3> QED
      BY <3>1, <3>2
  <2>2. CASE ~KeepsEvidence
    BY <1>3, <1>6, <2>2 DEF KeptProbes
  <2> QED
    BY <2>1, <2>2
<1>8. DOMAIN probes \cup todo = Outside(scope)
  BY <1>3, <1>7
<1>9. refresh \subseteq Seeds(scope)
  BY <1>3
<1>10. \A r \in DOMAIN evidence : r <= listed /\ Sees(evidence[r], r, scope.end, refresh)
  <2>1. CASE KeepsEvidence
    BY <1>1, <1>3, <2>1, KeptEvidence
  <2>2. CASE ~KeepsEvidence
    BY <1>3, <1>6, <2>2
  <2> QED
    BY <2>1, <2>2
<1>11. /\ \A p \in DOMAIN probes : ProbeOK(probes[p], p)'
       /\ \A r \in DOMAIN evidence : Sees(evidence[r], r, scope.end, refresh)'
  BY <1>2, <1>7, <1>10, Persist DEF Inv
<1>12. ManifestOK(manifest)'
  BY <1>1, <1>2 DEF Inv
<1>13. /\ run'.prior = manifest /\ run'.probes = probes /\ run'.fresh = None /\ run'.half = None
       /\ run'.todo = todo /\ run'.evidence = evidence /\ run'.refresh = refresh /\ run'.pc = "probe"
       /\ run' = [pc |-> run'.pc, probes |-> run'.probes, todo |-> run'.todo, fresh |-> run'.fresh,
                  evidence |-> run'.evidence, refresh |-> run'.refresh, required |-> run'.required,
                  half |-> run'.half, prior |-> run'.prior]
  BY <1>4
<1>14. ViewerRun'
  <2>1. ManifestOK(run.prior)'
    BY <1>1, <1>12, <1>13
  <2> QED
    BY <1>1, <1>6, <1>11, <1>13, <2>1 DEF ViewerRun
<1>15. ProbingOK'
  BY <1>1, <1>5, <1>8, <1>9, <1>10, <1>11, <1>13, <1>14 DEF ProbingOK
<1> QED
  BY <1>1, <1>13, <1>15, GoesOn DEF RunOK

(* What a step of the viewer collection must not touch.                    *)
LEMMA ViewerGoes ==
    ASSUME Inv, UNCHANGED <<product, filed, listed, scope>>, ViewerRun,
           NEW pc, NEW probes, NEW todo, NEW fresh, NEW evidence, NEW refresh, NEW required, NEW half,
           run' = [pc |-> pc, probes |-> probes, todo |-> todo, fresh |-> fresh,
                   evidence |-> evidence, refresh |-> refresh, required |-> required,
                   half |-> half, prior |-> run.prior],
           \A p \in DOMAIN probes : ProbeOK(probes[p], p),
           \A r \in DOMAIN fresh : ReadNow(fresh[r], r),
           \A r \in DOMAIN half : ReadNow(half[r], r)
    PROVE  ViewerRun'
<1>1. Running
  BY StepRuns
<1>2. ManifestOK(run.prior)'
  <2>1. \A m : ManifestOK(m) => ManifestOK(m)'
    BY StepRuns
  <2>2. run'.prior = run.prior
    OBVIOUS
  <2> QED
    BY <2>1, <2>2 DEF ViewerRun
<1>3. /\ \A p \in DOMAIN probes : ProbeOK(probes[p], p)'
      /\ \A r \in DOMAIN fresh : ReadNow(fresh[r], r)'
      /\ \A r \in DOMAIN half : ReadNow(half[r], r)'
  BY <1>1, Persist DEF Inv
<1>4. /\ run'.probes = probes /\ run'.fresh = fresh /\ run'.half = half
      /\ run' = [pc |-> run'.pc, probes |-> run'.probes, todo |-> run'.todo, fresh |-> run'.fresh,
                 evidence |-> run'.evidence, refresh |-> run'.refresh, required |-> run'.required,
                 half |-> run'.half, prior |-> run'.prior]
  OBVIOUS
<1> QED
  BY <1>2, <1>3, <1>4 DEF ViewerRun

LEMMA ProbeInv == ASSUME Inv, NEW r, Probe(r) PROVE Inv'
<1>1. UNCHANGED <<product, filed, listed, scope, manifest, faults>> /\ run.pc = "probe" /\ r \in run.todo
  BY DEF Probe
<1>2. ProbingOK /\ ViewerRun /\ product = "viewer"
  BY <1>1 DEF Inv, RunOK, Idle, ProbingOK, ViewerRun
<1>3. r \in Outside(scope) /\ r \in 1 .. listed
  BY <1>1, <1>2, ViewerLists DEF ProbingOK
<1>4. ReadNow(Page(r), r) /\ ProbeOK(Page(r), r)
  BY <1>2, <1>3, PageReadNow, JustRead
<1>5. PICK probes, fresh, evidence, refresh :
        /\ probes = With(run.probes, r, Page(r)) /\ fresh = With(run.fresh, r, Page(r))
        /\ evidence = run.evidence /\ refresh = run.refresh
  OBVIOUS
<1>6. run' = [run EXCEPT !.probes = probes, !.fresh = fresh, !.todo = run.todo \ {r}]
  BY <1>5 DEF Probe
<1>7. run' = [pc |-> "probe", probes |-> probes, todo |-> run.todo \ {r}, fresh |-> fresh,
              evidence |-> evidence, refresh |-> refresh, required |-> run.required,
              half |-> run.half, prior |-> run.prior]
  BY <1>1, <1>2, <1>5, <1>6 DEF ViewerRun
<1>8. DOMAIN probes = DOMAIN run.probes \cup {r} /\ \A p \in DOMAIN probes : ProbeOK(probes[p], p)
  BY <1>2, <1>4, <1>5 DEF With, ViewerRun
<1>9. \A p \in DOMAIN fresh : ReadNow(fresh[p], p)
  BY <1>2, <1>4, <1>5 DEF With, ViewerRun
<1>10. ViewerRun'
  BY <1>1, <1>2, <1>7, <1>8, <1>9, ViewerGoes DEF ViewerRun
<1>11. Running /\ Seeds(scope)' = Seeds(scope) /\ Outside(scope)' = Outside(scope)
  BY <1>1, StepRuns, SameLists DEF Running, Inv
<1>12. \A x \in DOMAIN evidence : x <= listed /\ Sees(evidence[x], x, scope.end, refresh)'
  BY <1>2, <1>5, <1>11, Persist DEF Inv, ProbingOK
<1>13. DOMAIN probes \cup (run.todo \ {r}) = Outside(scope) /\ refresh \subseteq Seeds(scope)
  BY <1>2, <1>3, <1>5, <1>8 DEF ProbingOK
<1>14. run'.probes = probes /\ run'.todo = run.todo \ {r} /\ run'.evidence = evidence
       /\ run'.refresh = refresh /\ run'.pc = "probe"
  BY <1>7
<1>15. ProbingOK'
  BY <1>1, <1>10, <1>11, <1>12, <1>13, <1>14 DEF ProbingOK
<1> QED
  BY <1>1, <1>14, <1>15, GoesOn DEF RunOK

LEMMA CollectingGoes ==
    ASSUME Inv, UNCHANGED <<product, filed, listed, scope>>, ViewerRun,
           DOMAIN run.probes = Outside(scope),
           NEW pc, NEW todo, NEW evidence, NEW refresh, NEW required, NEW half,
           run' = [pc |-> pc, probes |-> run.probes, todo |-> todo, fresh |-> run.fresh,
                   evidence |-> evidence, refresh |-> refresh, required |-> required,
                   half |-> half, prior |-> run.prior],
           \A r \in DOMAIN half : ReadNow(half[r], r),
           required = DOMAIN evidence \cup todo, required \subseteq 1 .. listed,
           Wanted \subseteq required, NoPlain => required = Wanted
    PROVE  CollectingOK'
<1>1. ViewerRun'
  <2>1. PICK probes, fresh : probes = run.probes /\ fresh = run.fresh
    OBVIOUS
  <2>2. run' = [pc |-> pc, probes |-> probes, todo |-> todo, fresh |-> fresh,
                evidence |-> evidence, refresh |-> refresh, required |-> required,
                half |-> half, prior |-> run.prior]
    BY <2>1
  <2>3. /\ \A p \in DOMAIN probes : ProbeOK(probes[p], p)
        /\ \A r \in DOMAIN fresh : ReadNow(fresh[r], r)
    BY <2>1 DEF ViewerRun
  <2> QED
    BY <2>2, <2>3, ViewerGoes
<1>2. Running
  BY StepRuns
<1>3. Seeds(scope)' = Seeds(scope) /\ Outside(scope)' = Outside(scope) /\ InRange(scope)' = InRange(scope)
  BY <1>2, SameLists DEF Running, Inv
<1>4. run'.probes = run.probes /\ run'.required = required /\ run'.evidence = evidence /\ run'.todo = todo
  OBVIOUS
<1>5. Wanted' = Wanted
  <2>1. \A p : Selected(p, scope)' <=> Selected(p, scope)
    BY <1>3 DEF Selected
  <2> QED
    BY <1>3, <1>4, <2>1 DEF Wanted
<1>6. NoPlain' <=> NoPlain
  BY DEF NoPlain
<1> QED
  BY <1>1, <1>3, <1>4, <1>5, <1>6 DEF CollectingOK

LEMMA RequireInv == Inv /\ Require => Inv'
<1> SUFFICES ASSUME Inv, Require PROVE Inv'
  OBVIOUS
<1>1. UNCHANGED <<product, filed, listed, scope, manifest, faults>> /\ run.pc = "probe" /\ run.todo = {}
  BY DEF Require
<1>2. ProbingOK /\ ViewerRun /\ product = "viewer"
  BY <1>1 DEF Inv, RunOK, Idle, ProbingOK, ViewerRun
<1>3. PICK required, refresh, evidence :
        /\ required = Seeds(scope) \cup {p \in DOMAIN run.probes : Selected(run.probes[p], scope)}
        /\ refresh = run.refresh \cup (required \ DOMAIN run.evidence)
        /\ evidence = Restrict(run.evidence, (DOMAIN run.evidence \cap required) \ refresh)
  OBVIOUS
<1>4. run' = [run EXCEPT !.pc = "fetch", !.required = required, !.refresh = refresh,
                         !.todo = refresh, !.evidence = evidence]
  BY <1>3 DEF Require
<1>5. run' = [pc |-> "fetch", probes |-> run.probes, todo |-> refresh, fresh |-> run.fresh,
              evidence |-> evidence, refresh |-> refresh, required |-> required,
              half |-> run.half, prior |-> run.prior]
  BY <1>2, <1>4 DEF ViewerRun
<1>6. DOMAIN run.probes = Outside(scope) /\ run.refresh \subseteq Seeds(scope)
      /\ \A r \in DOMAIN run.evidence : Sees(run.evidence[r], r, scope.end, run.refresh)
  BY <1>1, <1>2 DEF ProbingOK
<1>7. required = Wanted /\ required \subseteq 1 .. listed
  BY <1>2, <1>3, <1>6, ViewerLists DEF Wanted
<1>8. refresh \subseteq required
  BY <1>3, <1>6
<1>9. DOMAIN evidence = (DOMAIN run.evidence \cap required) \ refresh
      /\ \A r \in DOMAIN evidence : evidence[r] = run.evidence[r]
  BY <1>3 DEF Restrict
<1>10. required = DOMAIN evidence \cup refresh
  BY <1>3, <1>8, <1>9
<1>11. CollectingOK'
  BY <1>1, <1>2, <1>5, <1>6, <1>7, <1>10, CollectingGoes DEF ViewerRun
<1>12. ASSUME NEW r \in DOMAIN evidence
       PROVE  Sees(evidence[r], r, scope.end, refresh) /\ r \notin refresh
  <2>1. Sees(evidence[r], r, scope.end, run.refresh) /\ run.refresh \subseteq refresh
    BY <1>3, <1>6, <1>9, <1>12
  <2> QED
    BY <1>9, <1>12, <2>1 DEF Sees
<1>13. Running
  BY <1>1, StepRuns
<1>14. \A r \in DOMAIN evidence : Sees(evidence[r], r, scope.end, IF r \in refresh THEN {} ELSE refresh)'
  <2>1. \A r \in DOMAIN evidence : Sees(evidence[r], r, scope.end, refresh)'
    BY <1>12, <1>13, Persist DEF Inv
  <2> QED
    BY <1>12, <2>1
<1>15. run'.refresh = refresh /\ run'.required = required /\ run'.evidence = evidence /\ run'.pc = "fetch"
  BY <1>5
<1>16. FetchOK'
  BY <1>8, <1>11, <1>14, <1>15 DEF FetchOK
<1> QED
  BY <1>1, <1>15, <1>16, GoesOn DEF RunOK

LEMMA InFetching ==
    ASSUME Inv, run.pc \in Fetching
    PROVE  /\ CollectingOK /\ ViewerRun /\ product = "viewer"
           /\ run.todo \subseteq 1 .. listed
           /\ run.pc = "fetch" => FetchOK
           /\ run.pc # "fetch" => FamilyOK
<1>1. (run.pc = "fetch" => FetchOK) /\ (run.pc # "fetch" => FamilyOK)
  BY DEF Inv, RunOK, Idle, Fetching
<1>2. CollectingOK
  BY <1>1 DEF FetchOK, FamilyOK
<1> QED
  BY <1>1, <1>2 DEF CollectingOK, ViewerRun

(* Evidence of a page read in this collection is put in.                   *)
LEMMA EvidenceRead ==
    ASSUME Inv, run.pc \in Fetching, UNCHANGED <<product, filed, listed, scope, manifest, faults>>,
           NEW r \in run.todo, NEW page, ReadNow(page, r), NEW half,
           \A x \in DOMAIN half : ReadNow(half[x], x),
           run' = [run EXCEPT !.todo = @ \ {r}, !.half = half,
                              !.evidence = With(@, r, Evidence(r, page))]
    PROVE  Inv'
<1>1. /\ CollectingOK /\ ViewerRun /\ product = "viewer" /\ run.todo \subseteq 1 .. listed
      /\ (run.pc = "fetch" => FetchOK) /\ (run.pc # "fetch" => FamilyOK)
  BY InFetching
<1>2. PICK evidence, refresh, pc, todo :
        /\ evidence = With(run.evidence, r, Evidence(r, page))
        /\ refresh = run.refresh /\ pc = run.pc /\ todo = run.todo
  OBVIOUS
<1>3. run' = [pc |-> pc, probes |-> run.probes, todo |-> todo \ {r}, fresh |-> run.fresh,
              evidence |-> evidence, refresh |-> refresh, required |-> run.required,
              half |-> half, prior |-> run.prior]
  BY <1>1, <1>2 DEF ViewerRun
<1>4. DOMAIN evidence = DOMAIN run.evidence \cup {r} /\ evidence[r] = Evidence(r, page)
      /\ \A x \in DOMAIN evidence : x # r => x \in DOMAIN run.evidence /\ evidence[x] = run.evidence[x]
  BY <1>2 DEF With
<1>5. CollectingOK'
  <2>1. PICK required : required = run.required
    OBVIOUS
  <2>2. /\ DOMAIN run.probes = Outside(scope) /\ required = DOMAIN run.evidence \cup run.todo
        /\ required \subseteq 1 .. listed /\ Wanted \subseteq required /\ (NoPlain => required = Wanted)
    BY <1>1, <2>1 DEF CollectingOK
  <2>3. required = DOMAIN evidence \cup (todo \ {r})
    BY <1>2, <1>4, <2>2
  <2>4. run' = [pc |-> pc, probes |-> run.probes, todo |-> todo \ {r}, fresh |-> run.fresh,
                evidence |-> evidence, refresh |-> refresh, required |-> required,
                half |-> half, prior |-> run.prior]
    BY <1>3, <2>1
  <2> QED
    BY <1>1, <2>2, <2>3, <2>4, CollectingGoes
<1>6. \A R : Sees(Evidence(r, page), r, scope.end, R)
  BY <1>1, JustRead
<1>7. Running
  BY StepRuns
<1>8. /\ run'.pc = pc /\ run'.evidence = evidence /\ run'.refresh = refresh /\ run'.todo = todo \ {r}
      /\ run'.required = run.required
  BY ONLY <1>3
<1>9. CASE run.pc = "fetch"
  <2>1. \A x \in DOMAIN evidence :
            Sees(evidence[x], x, scope.end, IF x \in refresh THEN {} ELSE refresh)
    <3>1. \A x \in DOMAIN run.evidence :
            Sees(run.evidence[x], x, scope.end, IF x \in refresh THEN {} ELSE refresh)
      BY <1>1, <1>2, <1>9 DEF FetchOK
    <3> QED
      BY <1>4, <1>6, <3>1
  <2>2. \A x \in DOMAIN evidence :
            Sees(evidence[x], x, scope.end, IF x \in refresh THEN {} ELSE refresh)'
    BY <1>7, <2>1, Persist DEF Inv
  <2>3. FetchOK'
    BY <1>1, <1>2, <1>5, <1>8, <1>9, <2>2 DEF FetchOK
  <2> QED
    BY <1>2, <1>8, <1>9, <2>3, GoesOn DEF RunOK
<1>10. CASE run.pc # "fetch"
  <2>1. \A x \in DOMAIN evidence : x \in todo \ {r} \/ Sees(evidence[x], x, scope.end, {})
    <3>1. \A x \in DOMAIN run.evidence : x \in todo \/ Sees(run.evidence[x], x, scope.end, {})
      BY <1>1, <1>2, <1>10 DEF FamilyOK
    <3> QED
      BY <1>4, <1>6, <3>1
  <2>2. \A x \in DOMAIN evidence : x \in todo \ {r} \/ Sees(evidence[x], x, scope.end, {})'
    BY <1>7, <2>1, Persist DEF Inv
  <2>3. FamilyOK'
    BY <1>5, <1>8, <2>2 DEF FamilyOK
  <2> QED
    BY <1>2, <1>8, <1>10, <2>3, GoesOn DEF RunOK, Fetching
<1> QED
  BY <1>9, <1>10

LEMMA FetchInv == ASSUME Inv, NEW r, Fetch(r) PROVE Inv'
<1>1. UNCHANGED <<product, filed, listed, scope, manifest, faults>> /\ run.pc \in Fetching /\ r \in run.todo
  BY DEF Fetch
<1>2. /\ CollectingOK /\ ViewerRun /\ product = "viewer" /\ run.todo \subseteq 1 .. listed
      /\ (run.pc = "fetch" => FetchOK) /\ (run.pc # "fetch" => FamilyOK)
  BY <1>1, InFetching
<1>3. PICK page : page = Source(r)
  OBVIOUS
<1>4. ReadNow(page, r)
  <2>1. ReadNow(Page(r), r)
    BY <1>1, <1>2, PageReadNow
  <2>2. \A x \in DOMAIN run.fresh : ReadNow(run.fresh[x], x)
    BY <1>2 DEF ViewerRun
  <2> QED
    BY <1>3, <2>1, <2>2 DEF Source
<1>5. CASE IsAttachment(r)
  <2>1. PICK half : half = With(run.half, r, page)
    OBVIOUS
  <2>2. \A x \in DOMAIN half : ReadNow(half[x], x)
    BY <1>2, <1>4, <2>1 DEF With, ViewerRun
  <2>3. run' = [run EXCEPT !.half = half]
    BY <1>3, <1>5, <2>1 DEF Fetch
  <2>4. PICK evidence, refresh, required, todo, pc :
          /\ evidence = run.evidence /\ refresh = run.refresh /\ required = run.required
          /\ todo = run.todo /\ pc = run.pc
    OBVIOUS
  <2>5. run' = [pc |-> pc, probes |-> run.probes, todo |-> todo, fresh |-> run.fresh,
                evidence |-> evidence, refresh |-> refresh, required |-> required,
                half |-> half, prior |-> run.prior]
    BY <1>2, <2>3, <2>4 DEF ViewerRun
  <2>6. /\ DOMAIN run.probes = Outside(scope) /\ required = DOMAIN evidence \cup todo
        /\ required \subseteq 1 .. listed /\ Wanted \subseteq required /\ (NoPlain => required = Wanted)
    BY <1>2, <2>4 DEF CollectingOK
  <2>7. CollectingOK'
    BY <1>1, <1>2, <2>2, <2>5, <2>6, CollectingGoes
  <2>8. /\ run'.pc = pc /\ run'.evidence = evidence /\ run'.refresh = refresh /\ run'.todo = todo
        /\ run'.required = required
    BY <2>5
  <2>9. Running
    BY <1>1, StepRuns
  <2>10. CASE run.pc = "fetch"
    <3>1. \A x \in DOMAIN evidence :
            Sees(evidence[x], x, scope.end, IF x \in refresh THEN {} ELSE refresh)'
      BY <1>2, <2>4, <2>9, <2>10, Persist DEF Inv, FetchOK
    <3>2. FetchOK'
      BY <1>2, <2>4, <2>7, <2>8, <2>10, <3>1 DEF FetchOK
    <3> QED
      BY <1>1, <2>4, <2>8, <2>10, <3>2, GoesOn DEF RunOK
  <2>11. CASE run.pc # "fetch"
    <3>1. \A x \in DOMAIN evidence : x \in todo \/ Sees(evidence[x], x, scope.end, {})'
      BY <1>2, <2>4, <2>9, <2>11, Persist DEF Inv, FamilyOK
    <3>2. FamilyOK'
      BY <2>7, <2>8, <3>1 DEF FamilyOK
    <3> QED
      BY <1>1, <2>4, <2>8, <2>11, <3>2, GoesOn DEF RunOK, Fetching
  <2> QED
    BY <2>10, <2>11
<1>6. CASE ~IsAttachment(r)
  <2>1. run' = [run EXCEPT !.todo = @ \ {r}, !.evidence = With(@, r, Evidence(r, page))]
    BY <1>3, <1>6 DEF Fetch
  <2>2. PICK half : half = run.half
    OBVIOUS
  <2>3. run' = [run EXCEPT !.todo = @ \ {r}, !.half = half, !.evidence = With(@, r, Evidence(r, page))]
    BY <1>2, <2>1, <2>2 DEF ViewerRun
  <2>4. \A x \in DOMAIN half : ReadNow(half[x], x)
    BY <1>2, <2>2 DEF ViewerRun
  <2> QED
    BY <1>1, <1>4, <2>3, <2>4, EvidenceRead
<1> QED
  BY <1>5, <1>6

LEMMA FetchEconomicInv == ASSUME Inv, NEW r, FetchEconomic(r) PROVE Inv'
<1>1. UNCHANGED <<product, filed, listed, scope, manifest, faults>> /\ run.pc \in Fetching
      /\ r \in run.todo /\ r \in DOMAIN run.half
  BY DEF FetchEconomic
<1>2. ViewerRun
  BY <1>1, InFetching
<1>3. CASE run' = Idle
  BY <1>1, <1>3, FaultsStay, RefuseInv
<1>4. CASE run' # Idle
  <2>1. PICK page, half : page = run.half[r] /\ half = Restrict(run.half, DOMAIN run.half \ {r})
    OBVIOUS
  <2>2. run' = [run EXCEPT !.todo = @ \ {r}, !.half = half, !.evidence = With(@, r, Evidence(r, page))]
    BY <1>4, <2>1 DEF FetchEconomic
  <2>3. ReadNow(page, r) /\ \A x \in DOMAIN half : ReadNow(half[x], x)
    BY <1>1, <1>2, <2>1 DEF ViewerRun, Restrict
  <2> QED
    BY <1>1, <2>2, <2>3, EvidenceRead
<1> QED
  BY <1>3, <1>4

LEMMA RefreshFamiliesInv == Inv /\ RefreshFamilies => Inv'
<1> SUFFICES ASSUME Inv, RefreshFamilies PROVE Inv'
  OBVIOUS
<1>1. UNCHANGED <<product, filed, listed, scope, manifest, faults>> /\ run.pc = "fetch" /\ run.todo = {}
  BY DEF RefreshFamilies
<1>2. FetchOK /\ CollectingOK /\ ViewerRun /\ product = "viewer"
  BY <1>1, InFetching DEF Fetching
<1>3. PICK touched, older, evidence, refresh, required :
        /\ touched = {Min(run.evidence[r].page.family) : r \in run.refresh}
        /\ older = {r \in DOMAIN run.evidence \ run.refresh : Min(run.evidence[r].page.family) \in touched}
        /\ evidence = run.evidence /\ refresh = run.refresh /\ required = run.required
  OBVIOUS
<1>4. run' = [run EXCEPT !.pc = "family", !.todo = older]
  BY <1>3 DEF RefreshFamilies
<1>5. run' = [pc |-> "family", probes |-> run.probes, todo |-> older, fresh |-> run.fresh,
              evidence |-> evidence, refresh |-> refresh, required |-> required,
              half |-> run.half, prior |-> run.prior]
  BY <1>2, <1>3, <1>4 DEF ViewerRun
<1>6. /\ DOMAIN run.probes = Outside(scope) /\ required = DOMAIN evidence
      /\ required \subseteq 1 .. listed /\ Wanted \subseteq required /\ (NoPlain => required = Wanted)
      /\ refresh \subseteq DOMAIN evidence
  BY <1>1, <1>2, <1>3 DEF CollectingOK, FetchOK
<1>7. required = DOMAIN evidence \cup older
  BY <1>3, <1>6
<1>8. CollectingOK'
  BY <1>1, <1>2, <1>5, <1>6, <1>7, CollectingGoes DEF ViewerRun
<1>9. \A r \in DOMAIN evidence : Sees(evidence[r], r, scope.end, IF r \in refresh THEN {} ELSE refresh)
  BY <1>2, <1>3 DEF FetchOK
<1>10. \A r \in DOMAIN evidence : Min(evidence[r].page.family) = Root(r)
  BY <1>9, SeenFamily DEF Inv
<1>11. ASSUME NEW r \in DOMAIN evidence, r \notin older
       PROVE  Sees(evidence[r], r, scope.end, {})
  <2>1. CASE r \in refresh
    BY <1>9, <1>11, <2>1
  <2>2. CASE r \notin refresh
    <3>1. Sees(evidence[r], r, scope.end, refresh)
      BY <1>9, <1>11, <2>2
    <3>2. \A g \in refresh : Root(g) # Root(r)
      BY <1>3, <1>6, <1>10, <1>11, <2>2
    <3>3. \A g \in Family(Root(r)) : g \notin refresh
      BY <3>2 DEF Family
    <3> QED
      BY <3>1, <3>3 DEF Sees
  <2> QED
    BY <2>1, <2>2
<1>12. Running
  BY <1>1, StepRuns
<1>13. \A r \in DOMAIN evidence : r \in older \/ Sees(evidence[r], r, scope.end, {})'
  BY <1>11, <1>12, Persist DEF Inv
<1>14. run'.pc = "family" /\ run'.evidence = evidence /\ run'.todo = older
  BY <1>5
<1>15. FamilyOK'
  BY <1>8, <1>13, <1>14 DEF FamilyOK
<1> QED
  BY <1>1, <1>14, <1>15, GoesOn DEF RunOK

LEMMA AllRead ==
    ASSUME Inv, run.pc \in {"family", "close"}, run.todo = {}
    PROVE  /\ CollectingOK /\ ViewerRun /\ product = "viewer"
           /\ \A r \in DOMAIN run.evidence : Sees(run.evidence[r], r, scope.end, {}) /\ r \in 1 .. listed
           /\ run.required = DOMAIN run.evidence /\ run.required \subseteq 1 .. listed
           /\ DOMAIN run.probes = Outside(scope) /\ Wanted \subseteq run.required
           /\ NoPlain => run.required = Wanted
<1>1. CollectingOK /\ ViewerRun /\ product = "viewer" /\ FamilyOK
  BY InFetching DEF Fetching
<1> QED
  BY <1>1 DEF CollectingOK, FamilyOK

(* Without plain filings a member in the range reaches the evidence of     *)
(* every correction that is wanted.                                        *)
LEMMA Reached ==
    ASSUME Inv, run.pc \in {"family", "close"}, run.todo = {}, NoPlain,
           NEW r \in Wanted, IsAttachment(r) => r \in DOMAIN run.probes
    PROVE  \E g \in InRange(scope) :
            /\ g \in Members(Root(r)) /\ g \in run.evidence[r].page.family
            /\ g <= Newest(run.evidence, r)
<1>1. /\ product = "viewer" /\ r \in DOMAIN run.evidence /\ r \in 1 .. listed
      /\ Sees(run.evidence[r], r, scope.end, {}) /\ DOMAIN run.probes = Outside(scope) /\ ViewerRun
  BY AllRead
<1>2. PICK n \in r .. Len(filed) :
        /\ r \in DOMAIN filed /\ r \in Nat /\ n \in Nat /\ r <= n /\ n <= Len(filed)
        /\ run.evidence[r].page = PageAt(Root(r), n)
        /\ run.evidence[r].page.family = {x \in Members(Root(r)) : x <= n}
        /\ run.evidence[r].economic = IF IsAttachment(r) THEN Newest(run.evidence, r) ELSE r
        /\ Newest(run.evidence, r) \in Members(Root(r)) /\ Newest(run.evidence, r) <= n
        /\ Newest(run.evidence, r) \in DOMAIN filed
        /\ \A x \in Members(Root(r)) : x <= n => x <= Newest(run.evidence, r)
        /\ Min(run.evidence[r].page.family) = Root(r)
        /\ \A g \in Family(Root(r)) : Revision(g) /\ g <= scope.end => g <= n \/ g \in {}
  BY <1>1, SeenFamily DEF Inv
<1>3. CASE r \in Seeds(scope)
  <2>1. ~IsAttachment(r)
    BY <1>1, <1>3, ViewerLists
  <2>2. r \in InRange(scope)
    BY <1>1, <1>3, ViewerLists
  <2>3. r \in Members(Root(r))
    BY <1>2, <2>1 DEF Members, Family
  <2> QED
    BY <1>2, <2>2, <2>3
<1>4. CASE r \notin Seeds(scope)
  <2>1. r \in DOMAIN run.probes /\ Selected(run.probes[r], scope)
    BY <1>4 DEF Wanted
  <2>2. PICK k \in r .. Len(filed) : run.probes[r] = PageAt(Root(r), k)
    BY <1>1, <2>1 DEF ViewerRun, ProbeOK
  <2>3. PICK g \in InRange(scope) : g \in run.probes[r].family
    BY <2>1 DEF Selected
  <2>4. g \in Members(Root(r)) /\ g \in DOMAIN filed /\ Root(g) = Root(r) /\ ~IsAttachment(g)
    BY <2>2, <2>3 DEF PageAt, Members, Family
  <2>5. g <= n
    <3>1. CASE filed[g].kind = "ORIGINAL"
      <4>1. g = Root(r) /\ Root(r) <= r /\ Root(r) \in Nat
        BY <1>2, <2>4, <3>1, Filings DEF Inv
      <4> QED
        BY <1>2, <4>1
    <3>2. CASE filed[g].kind # "ORIGINAL"
      <4>1. Revision(g) /\ g <= scope.end
        BY <1>1, <2>3, <2>4, <3>2, ViewerLists DEF Revision, NoPlain
      <4> QED
        BY <1>2, <2>4, <4>1 DEF Members
    <3> QED
      BY <3>1, <3>2
  <2> QED
    BY <1>2, <2>3, <2>4, <2>5
<1> QED
  BY <1>3, <1>4

(* So no newest member is without evidence.                                *)
LEMMA NothingPending ==
    ASSUME Inv, run.pc \in {"family", "close"}, run.todo = {}, NoPlain,
           \A r \in DOMAIN run.evidence : Newest(run.evidence, r) <= listed
    PROVE  Pending(run.evidence) = {}
<1>1. /\ product = "viewer" /\ DOMAIN run.evidence = Wanted /\ DOMAIN run.probes = Outside(scope) /\ ViewerRun
      /\ \A r \in DOMAIN run.evidence : Sees(run.evidence[r], r, scope.end, {}) /\ r \in 1 .. listed
  BY AllRead
<1>2. ASSUME NEW r \in DOMAIN run.evidence
      PROVE  \E o \in DOMAIN run.evidence : run.evidence[o].economic = Newest(run.evidence, r)
  <2>1. PICK n \in r .. Len(filed) :
          /\ r \in DOMAIN filed /\ r \in Nat /\ n \in Nat /\ r <= n /\ n <= Len(filed)
          /\ run.evidence[r].page = PageAt(Root(r), n)
          /\ run.evidence[r].page.family = {x \in Members(Root(r)) : x <= n}
          /\ run.evidence[r].economic = IF IsAttachment(r) THEN Newest(run.evidence, r) ELSE r
          /\ Newest(run.evidence, r) \in Members(Root(r)) /\ Newest(run.evidence, r) <= n
          /\ Newest(run.evidence, r) \in DOMAIN filed
          /\ \A x \in Members(Root(r)) : x <= n => x <= Newest(run.evidence, r)
          /\ Min(run.evidence[r].page.family) = Root(r)
          /\ \A g \in Family(Root(r)) : Revision(g) /\ g <= scope.end => g <= n \/ g \in {}
    BY <1>1, <1>2, SeenFamily DEF Inv
  <2> DEFINE x == Newest(run.evidence, r)
  <2>2. /\ x <= listed /\ x \in Members(Root(r)) /\ x \in DOMAIN filed
        /\ run.evidence[r].economic = IF IsAttachment(r) THEN x ELSE r
        /\ \A y \in Members(Root(r)) : y <= n => y <= x
    BY <1>2, <2>1
  <2> HIDE DEF x
  <2>3. CASE IsAttachment(r) \/ x = r
    BY <1>2, <2>2, <2>3 DEF x
  <2>4. CASE ~IsAttachment(r) /\ x # r
    <3>1. r \in Members(Root(r)) /\ r < x /\ x \in Nat /\ x \in 1 .. listed
      <4>1. r \in Members(Root(r)) /\ r <= x
        BY <2>1, <2>2, <2>4 DEF Members, Family
      <4>2. x \in Nat /\ x >= 1 /\ listed \in Nat
        BY <1>1, <2>2, Filings, ViewerLists DEF Inv
      <4> QED
        BY <2>1, <2>2, <2>4, <4>1, <4>2
    <3>2. Root(x) = Root(r) /\ ~IsAttachment(x)
      BY <2>2 DEF Members, Family
    <3>3. filed[x].kind # "ORIGINAL"
      <4>1. Root(r) <= r /\ Root(r) \in Nat
        BY <2>1, Filings DEF Inv
      <4>2. filed[x].kind = "ORIGINAL" => Root(x) = x
        BY <2>2, Filings DEF Inv
      <4> QED
        BY <2>1, <3>1, <3>2, <4>1, <4>2
    <3>4. Revision(x)
      BY <2>2, <3>2, <3>3 DEF Revision, NoPlain
    <3>5. x \in Wanted
      <4>1. CASE x \in Outside(scope)
        <5>1. PICK g \in InRange(scope) : g \in Members(Root(r)) /\ g <= x
          BY <1>1, <1>2, <2>4, Reached DEF x
        <5>2. PICK k \in x .. Len(filed) : run.probes[x] = PageAt(Root(x), k)
          BY <1>1, <4>1 DEF ViewerRun, ProbeOK
        <5>3. g \in Nat /\ k \in Nat /\ g <= k
          BY <1>1, <3>1, <5>1, <5>2, ViewerLists
        <5>4. g \in run.probes[x].family
          BY <3>2, <5>1, <5>2, <5>3 DEF PageAt
        <5> QED
          BY <1>1, <4>1, <5>1, <5>4 DEF Wanted, Selected
      <4>2. CASE x \notin Outside(scope)
        BY <1>1, <3>1, <3>4, <4>2, ViewerLists DEF Wanted
      <4> QED
        BY <4>1, <4>2
    <3>6. x \in DOMAIN run.evidence /\ Sees(run.evidence[x], x, scope.end, {})
      BY <1>1, <3>5
    <3>7. run.evidence[x].economic = x
      BY <3>2, <3>6, SeenFamily DEF Inv
    <3> QED
      BY <3>6, <3>7 DEF x
  <2> QED
    BY <2>3, <2>4
<1> QED
  BY <1>2 DEF Pending

LEMMA CloseInv == Inv /\ Close => Inv'
<1> SUFFICES ASSUME Inv, Close PROVE Inv'
  OBVIOUS
<1>1. UNCHANGED <<product, filed, listed, scope, manifest, faults>>
      /\ run.pc \in {"family", "close"} /\ run.todo = {}
  BY DEF Close
<1>2. CASE run' = Idle
  BY <1>1, <1>2, FaultsStay, RefuseInv
<1>3. CASE run' # Idle
  <2>1. PICK pending : pending = Pending(run.evidence)
    OBVIOUS
  <2>2. /\ \A r \in DOMAIN run.evidence : ~(Newest(run.evidence, r) > listed)
        /\ pending # {}
        /\ run' = [run EXCEPT !.pc = "close", !.todo = pending, !.required = @ \cup pending]
    BY <1>3, <2>1 DEF Close
  <2>3. /\ CollectingOK /\ ViewerRun /\ product = "viewer"
        /\ \A r \in DOMAIN run.evidence : Sees(run.evidence[r], r, scope.end, {}) /\ r \in 1 .. listed
        /\ run.required = DOMAIN run.evidence /\ run.required \subseteq 1 .. listed
        /\ DOMAIN run.probes = Outside(scope) /\ Wanted \subseteq run.required
    BY <1>1, AllRead
  <2>4. \A r \in DOMAIN run.evidence :
          Newest(run.evidence, r) \in DOMAIN filed /\ Newest(run.evidence, r) \in Nat
          /\ Newest(run.evidence, r) >= 1 /\ Newest(run.evidence, r) <= listed
    <3>1. \A r \in DOMAIN run.evidence : Newest(run.evidence, r) \in DOMAIN filed
      BY <2>3, SeenFamily DEF Inv
    <3>2. listed \in Nat
      BY <2>3, ViewerLists
    <3> QED
      BY <2>2, <3>1, <3>2, Filings DEF Inv
  <2>5. pending \subseteq 1 .. listed
    <3>1. pending \subseteq {Newest(run.evidence, r) : r \in DOMAIN run.evidence}
      BY <2>1 DEF Pending
    <3>2. \A r \in DOMAIN run.evidence : Newest(run.evidence, r) \in 1 .. listed
      BY <2>3, <2>4, ViewerLists
    <3> QED
      BY <3>1, <3>2
  <2>6. ~NoPlain
    BY <1>1, <2>1, <2>2, <2>4, NothingPending
  <2>7. PICK evidence, required, refresh, half :
          /\ evidence = run.evidence /\ required = run.required \cup pending
          /\ refresh = run.refresh /\ half = run.half
    OBVIOUS
  <2>8. run' = [pc |-> "close", probes |-> run.probes, todo |-> pending, fresh |-> run.fresh,
                evidence |-> evidence, refresh |-> refresh, required |-> required,
                half |-> half, prior |-> run.prior]
    BY <2>2, <2>3, <2>7 DEF ViewerRun
  <2>9. /\ required = DOMAIN evidence \cup pending /\ required \subseteq 1 .. listed
        /\ Wanted \subseteq required /\ \A r \in DOMAIN half : ReadNow(half[r], r)
    BY <2>3, <2>5, <2>7 DEF ViewerRun
  <2>10. CollectingOK'
    BY <1>1, <2>3, <2>6, <2>8, <2>9, CollectingGoes
  <2>11. Running
    BY <1>1, StepRuns
  <2>12. \A r \in DOMAIN evidence : Sees(evidence[r], r, scope.end, {})'
    BY <2>3, <2>7, <2>11, Persist DEF Inv
  <2>13. run'.pc = "close" /\ run'.evidence = evidence
    BY ONLY <2>8
  <2>14. FamilyOK'
    BY <2>10, <2>12, <2>13 DEF FamilyOK
  <2> QED
    BY <1>1, <2>13, <2>14, GoesOn DEF RunOK
<1> QED
  BY <1>2, <1>3

LEMMA PublishedCloses ==
    ASSUME Inv, run.pc \in {"family", "close"}, run.todo = {}, NoPlain,
           \A r \in DOMAIN run.evidence : Newest(run.evidence, r) <= listed,
           NEW m, m.scope = scope, m.seeds = Seeds(scope), m.probes = run.probes,
           m.required = run.required, m.evidence = run.evidence
    PROVE  ClosedDependencies(m)
<1> DEFINE linked == {p \in DOMAIN m.probes : Selected(m.probes[p], m.scope)}
           primary == m.seeds \cup linked
           bodies == {m.evidence[r].economic : r \in primary}
           terminals == {Newest(m.evidence, r) : r \in primary}
<1>1. /\ product = "viewer" /\ DOMAIN run.evidence = Wanted /\ run.required = Wanted
      /\ DOMAIN run.probes = Outside(scope)
  BY AllRead
<1>2. primary = Wanted
  BY DEF Wanted
<1>3. linked \cap m.seeds = {}
  BY <1>1, ViewerLists
<1>4. primary = DOMAIN m.evidence /\ m.required = primary
  BY <1>1, <1>2
<1>5. m.required \ m.seeds = linked
  BY <1>3, <1>4
<1>6. terminals \ bodies = {}
  <2>1. Pending(run.evidence) = {}
    BY NothingPending
  <2>2. terminals = {Newest(run.evidence, r) : r \in DOMAIN run.evidence}
        /\ bodies = {run.evidence[r].economic : r \in DOMAIN run.evidence}
    BY <1>4
  <2> QED
    BY <2>1, <2>2 DEF Pending
<1>7. \A r \in linked : Selected(m.evidence[r].page, m.scope)
  <2> TAKE r \in linked
  <2>1. r \in Wanted /\ r \in DOMAIN run.probes
    BY <1>2
  <2>2. PICK g \in InRange(scope) : g \in run.evidence[r].page.family
    BY <2>1, Reached
  <2> QED
    BY <2>2 DEF Selected
<1>8. linked = (m.required \ m.seeds) \cap DOMAIN m.probes
  BY <1>5
<1>9. m.required \ m.seeds = linked \cup ((terminals \ bodies) \ m.seeds)
  BY <1>5, <1>6
<1> QED
  BY <1>4, <1>5, <1>7, <1>8, <1>9 DEF ClosedDependencies

LEMMA PublishViewerInv == Inv /\ PublishViewer => Inv'
<1> SUFFICES ASSUME Inv, PublishViewer PROVE Inv'
  OBVIOUS
<1>1. UNCHANGED <<product, filed, listed, scope, faults>>
      /\ run.pc \in {"family", "close"} /\ run.todo = {}
      /\ \A r \in DOMAIN run.evidence : Newest(run.evidence, r) <= listed
  BY DEF PublishViewer
<1>2. CASE ~TerminalsValid(run.evidence)
  <2>1. run' = Idle /\ manifest' = manifest
    BY <1>2 DEF PublishViewer
  <2> QED
    BY <1>1, <2>1, FaultsStay, RefuseInv
<1>3. CASE TerminalsValid(run.evidence)
  <2>1. /\ CollectingOK /\ ViewerRun /\ product = "viewer"
        /\ \A r \in DOMAIN run.evidence : Sees(run.evidence[r], r, scope.end, {}) /\ r \in 1 .. listed
        /\ run.required = DOMAIN run.evidence /\ run.required \subseteq 1 .. listed
        /\ DOMAIN run.probes = Outside(scope) /\ Wanted \subseteq run.required
        /\ scope.day > 0
    BY <1>1, AllRead DEF ViewerRun
  <2>2. Running /\ FiledOK' /\ ListsOK' /\ \A m : ManifestOK(m) => ManifestOK(m)'
    BY <1>1, FaultsStay, StepRuns
  <2>3. PICK seeds, probes, required, evidence, m :
          /\ seeds = Seeds(scope) /\ probes = run.probes /\ required = run.required
          /\ evidence = run.evidence
          /\ m = [scope |-> scope, audit |-> listed, seeds |-> seeds, probes |-> probes,
                  required |-> required, evidence |-> evidence, entries |-> None]
    OBVIOUS
  <2>4. manifest' = m /\ run' = [run EXCEPT !.pc = "verify"]
    <3>1. manifest' = [NoManifest EXCEPT !.scope = scope, !.audit = listed, !.seeds = seeds,
                          !.probes = probes, !.required = required, !.evidence = evidence]
      BY <1>3, <2>3 DEF PublishViewer
    <3>2. manifest' = [scope |-> scope, audit |-> listed, seeds |-> seeds, probes |-> probes,
                       required |-> required, evidence |-> evidence, entries |-> None]
      BY <3>1 DEF NoManifest
    <3> QED
      BY <1>3, <2>3, <3>2 DEF PublishViewer
  <2>5. /\ m.scope = scope /\ m.audit = listed /\ m.seeds = seeds /\ m.probes = probes
        /\ m.required = required /\ m.evidence = evidence /\ m.entries = None /\ ManifestShape(m)
    BY <2>3 DEF ManifestShape
  <2>6. DOMAIN None = {}
    BY DEF None
  <2>7. /\ seeds = {r \in 1 .. listed : Revision(r) /\ scope.start <= r /\ r <= scope.end}
        /\ listed \in Nat /\ listed <= Len(filed) /\ scope.end \in Nat /\ scope.end <= listed
        /\ scope.start \in Nat
    BY <2>1, <2>3, ViewerLists
  <2>8. ManifestOK(m)
    <3>1. /\ m.scope \in [start : Nat, end : Nat, day : Nat] /\ m.audit \in 0 .. listed
          /\ m.scope.start <= m.scope.end /\ m.scope.end <= m.audit
      BY <2>1, <2>5, <2>7 DEF Inv, ListsOK
    <3>2. m.seeds \subseteq (m.scope.start .. m.scope.end) \cap 1 .. listed /\ m.required \subseteq 1 .. listed
      BY <2>1, <2>3, <2>5, <2>7
    <3>3. \A p \in DOMAIN m.probes : ProbeOK(m.probes[p], p)
      BY <2>1, <2>3, <2>5 DEF ViewerRun
    <3>4. \A r \in DOMAIN m.evidence :
            Sees(m.evidence[r], r, m.scope.end, {}) /\ Newest(m.evidence, r) <= m.audit /\ r <= listed
      BY <1>1, <2>1, <2>3, <2>5, <2>7
    <3>5. \A r \in DOMAIN filed : r \in m.scope.start .. m.scope.end =>
            (Revision(r) => r \in DOMAIN m.evidence)
      <4>1. \A r \in DOMAIN filed : r \in m.scope.start .. m.scope.end /\ Revision(r) => r \in seeds
        BY <2>5, <2>7, Filings DEF Inv
      <4>2. seeds \subseteq DOMAIN evidence
        BY <2>1, <2>3 DEF Wanted
      <4> QED
        BY <2>5, <4>1, <4>2
    <3> QED
      BY <2>1, <2>5, <2>6, <3>1, <3>2, <3>3, <3>4, <3>5 DEF ManifestOK
  <2>9. NoPlain => Verifies(m)
    <3> SUFFICES ASSUME NoPlain PROVE Verifies(m)
      OBVIOUS
    <3>1. ClosedDependencies(m)
      BY <1>1, <2>3, <2>5, PublishedCloses
    <3>2. ProbesVerify(m)
      BY <2>1, <2>3, <2>5 DEF ProbesVerify
    <3>3. EvidenceVerify(m)
      BY <1>3, <2>1, <2>3, <2>5 DEF EvidenceVerify
    <3> QED
      BY <2>1, <2>3, <2>5, <3>1, <3>2, <3>3 DEF Verifies, VerifiesViewer
  <2>10. ManifestOK(m)' /\ (NoPlain => Verifies(m)')
    BY <2>2, <2>8, <2>9, VerifiesKept DEF Inv, Running
  <2>11. run'.prior = run.prior /\ run'.pc = "verify"
    BY <2>1, <2>4 DEF ViewerRun
  <2>12. ManifestOK(run.prior)'
    BY <2>1, <2>2, <2>11 DEF ViewerRun
  <2>13. NoPlain' <=> NoPlain
    BY <1>1 DEF NoPlain
  <2>14. VerifyOK'
    BY <1>1, <2>1, <2>4, <2>10, <2>12, <2>13 DEF VerifyOK
  <2>15. RunOK'
    BY <2>11, <2>14 DEF RunOK
  <2> QED
    BY <2>2, <2>4, <2>10, <2>15 DEF Inv
<1> QED
  BY <1>2, <1>3

------------------------------------------------------------------------------
LEMMA InvInit == Init => Inv
<1> SUFFICES ASSUME Init PROVE Inv
  OBVIOUS
<1> DEFINE R == [root : Receipts, kind : AllKinds]
           x == [root |-> 1, kind |-> "ORIGINAL"]
<1>1. x \in R /\ 1 \in Receipts
  BY FamiliesAssumption DEF Receipts, AllKinds
<1> HIDE DEF R
<1>2. filed = <<x>> /\ filed \in Seq(R) /\ Len(filed) = 1 /\ DOMAIN filed = {1} /\ filed[1] = x
  BY <1>1 DEF Init
<1>3. FiledOK
  BY <1>1, <1>2 DEF FiledOK, Root, R
<1>4. Min(Starts) \in Nat \ {0}
  <2>1. Starts \subseteq Nat /\ Starts # {} /\ Starts \subseteq Nat \ {0}
    BY FamiliesAssumption
  <2> QED
    BY <2>1, MinIn
<1>5. ListsOK
  <2>1. /\ product \in Products /\ listed = 0 /\ faults = 0
        /\ scope = [start |-> Min(Starts), end |-> 0, day |-> 0]
    BY DEF Init
  <2>2. scope \in [start : Nat \ {0}, end : 0 .. listed, day : Nat] /\ ~(scope.day > 0)
    BY <1>4, <2>1
  <2>3. faults \in 0 .. MaxFaults /\ listed \in 0 .. Len(filed)
    BY <1>2, <2>1, FamiliesAssumption
  <2> QED
    BY <2>1, <2>2, <2>3 DEF ListsOK
<1>6. ManifestOK(manifest)
  BY <1>3, <1>5, NoneOK DEF Init
<1>7. RunOK
  BY DEF Init, RunOK
<1> QED
  BY <1>3, <1>5, <1>6, <1>7 DEF Inv

LEMMA InvStep == Inv /\ [Next]_vars => Inv'
<1> SUFFICES ASSUME Inv, [Next]_vars PROVE Inv'
  OBVIOUS
<1>1. CASE File
  BY <1>1, FileInv
<1>2. CASE Day
  BY <1>2, DayInv
<1>3. CASE Start
  BY <1>3, StartSupportInv, StartViewerInv DEF Start
<1>4. CASE Step
  <2>1. CASE ReadMain \/ Derive \/ Recheck \/ PublishSupport
    BY <2>1, ReadMainInv, DeriveInv, RecheckInv, PublishSupportInv
  <2>2. CASE Require \/ RefreshFamilies \/ Close \/ PublishViewer
    BY <2>2, RequireInv, RefreshFamiliesInv, CloseInv, PublishViewerInv
  <2>3. CASE Verify
    BY <2>3, VerifyInv
  <2>4. CASE \E r \in Receipts : Probe(r) \/ Fetch(r) \/ FetchEconomic(r)
    BY <2>4, ProbeInv, FetchInv, FetchEconomicInv
  <2> QED
    BY <1>4, <2>1, <2>2, <2>3, <2>4 DEF Step
<1>5. CASE Fail
  BY <1>5, FailInv
<1>6. CASE Stop
  BY <1>6, StopInv
<1>7. CASE UNCHANGED vars
  <2>1. UNCHANGED <<product, filed, listed, scope, manifest, run, faults>>
    BY <1>7 DEF vars
  <2>2. Running
    BY <2>1, StepRuns
  <2>3. RunOK'
    BY <2>1, <2>2, RunStays
  <2> QED
    BY <2>1, <2>3, GoesOn
<1> QED
  BY <1>1, <1>2, <1>3, <1>4, <1>5, <1>6, <1>7 DEF Next

LEMMA Invariant == Spec => []Inv
  BY InvInit, InvStep, PTL DEF Spec

------------------------------------------------------------------------------
(* A family read in a support collection is published with all that was    *)
(* filed in it before its last member had been read (_recheck, the second  *)
(* reading of every selector).                                             *)
THEOREM Window == Spec => []WindowClosed
<1>1. Inv => WindowClosed
  <2> SUFFICES ASSUME Inv, run.pc = "verify", product = "support", NEW r \in run.new
               PROVE  {x \in Family(Root(r)) : x <= run.seen}
                         \subseteq Shown(manifest.entries[Root(r)].page)
    BY DEF WindowClosed
  <2>1. VerifyOK
    BY DEF Inv, RunOK, Idle
  <2> QED
    BY <2>1 DEF VerifyOK
<1> QED
  BY <1>1, Invariant, PTL

(* What a collection of corrections alone publishes, put together from     *)
(* reused and new evidence in whatever order they were filed, is what the  *)
(* verifier derives from the lists.                                        *)
THEOREM Published == Spec => []PublishedVerifies
<1>1. Inv => PublishedVerifies
  <2> SUFFICES ASSUME Inv, run.pc = "verify", \A r \in DOMAIN filed : filed[r].kind # "PLAIN"
               PROVE  Verifies(manifest)
    BY DEF PublishedVerifies
  <2>1. VerifyOK
    BY DEF Inv, RunOK, Idle
  <2> QED
    BY <2>1 DEF VerifyOK, NoPlain
<1> QED
  BY <1>1, Invariant, PTL

(* An entry of a manifest shows the page of one day of its family.         *)
LEMMA EntryPage ==
    ASSUME FiledOK, ListsOK, ManifestOK(manifest), NEW f \in DOMAIN manifest.entries
    PROVE  \E n \in f .. manifest.audit :
            /\ f \in DOMAIN filed /\ f \in Nat /\ n \in Nat /\ f <= n /\ Root(f) = f
            /\ n <= manifest.audit /\ n <= Len(filed) /\ manifest.audit \in Nat
            /\ manifest.entries[f] =
                [page |-> PageAt(f, n), end |-> Terminal(PageAt(f, n).family)]
            /\ \A r \in Family(f) : r <= manifest.scope.end => r <= n
<1>1. EntryOK(manifest.entries[f], f, manifest.scope.end, manifest.audit, {})
  BY DEF ManifestOK
<1>2. PICK n \in f .. manifest.audit :
        /\ manifest.entries[f] =
            [page |-> PageAt(f, n), end |-> Terminal(PageAt(f, n).family)]
        /\ \A r \in Family(f) : r <= manifest.scope.end => r <= n \/ r \in {}
  BY <1>1 DEF EntryOK
<1>3. f \in DOMAIN filed /\ Root(f) = f /\ f \in Nat
  BY <1>1, Filings DEF EntryOK
<1>4. manifest.audit \in Nat /\ manifest.audit <= Len(filed)
  BY Filings DEF ManifestOK, ListsOK
<1> QED
  BY <1>2, <1>3, <1>4, Filings

(* A family is admissible only on its newest filing: a withdrawal is never *)
(* passed over, whatever attachments follow it (_terminal).                *)
THEOREM Revival == Spec => []NeverRevived
<1>1. Inv => NeverRevived
  <2> SUFFICES ASSUME Inv, NEW f \in DOMAIN manifest.entries,
                      manifest.entries[f].end.admissible,
                      NEW w \in Members(f), w <= manifest.scope.end
               PROVE  /\ w <= manifest.entries[f].end.economic
                      /\ ~IsAttachment(manifest.entries[f].end.economic)
    BY DEF NeverRevived
  <2>1. PICK n \in f .. manifest.audit :
            /\ f \in DOMAIN filed /\ n \in Nat /\ f <= n /\ Root(f) = f
            /\ manifest.entries[f] =
                [page |-> PageAt(f, n), end |-> Terminal(PageAt(f, n).family)]
            /\ \A r \in Family(f) : r <= manifest.scope.end => r <= n
    BY EntryPage DEF Inv
  <2>2. /\ PageAt(f, n).family = {r \in Members(f) : r <= n}
        /\ Max(PageAt(f, n).family) \in PageAt(f, n).family
        /\ \A r \in PageAt(f, n).family : r <= Max(PageAt(f, n).family)
    BY <2>1, PageEnds DEF Inv
  <2>3. manifest.entries[f].end = Terminal(PageAt(f, n).family)
    BY <2>1
  <2>4. manifest.entries[f].end.economic = Max(PageAt(f, n).family)
    BY <2>3 DEF Terminal
  <2>5. w \in PageAt(f, n).family
    BY <2>1, <2>2 DEF Members
  <2> QED
    BY <2>2, <2>4, <2>5 DEF Members
<1> QED
  BY <1>1, Invariant, PTL

(* A published manifest shows with every correction (support: every        *)
(* filing) of its range the family up to the end of the range, and no      *)
(* member that the lists of its collection did not hold.                   *)
THEOREM Coverage == Spec => []Covered
<1>1. Inv => Covered
  <2> SUFFICES ASSUME Inv, NEW r \in Tracked(manifest)
               PROVE  ShownUpTo(manifest, r,
                        {f \in DOMAIN filed : product = "support" \/ Revision(f)})
    BY DEF Covered
  <2>1. r \in manifest.scope.start .. manifest.scope.end /\ r \in DOMAIN filed
        /\ (product = "support" \/ Revision(r))
    BY DEF Tracked
  <2>2. /\ DOMAIN filed = 1 .. Len(filed) /\ Len(filed) \in Nat
        /\ Root(r) \in DOMAIN filed /\ Root(r) \in Nat
        /\ manifest.audit \in Nat /\ manifest.scope.end \in Nat
    BY <2>1, Filings DEF Inv, ManifestOK, ListsOK
  <2>3. \A x \in Family(Root(r)) : x \in DOMAIN filed /\ x \in Nat /\ x >= 1
    BY <2>2 DEF Family
  <2>4. CASE product = "support"
    <3>1. Root(r) \in DOMAIN manifest.entries
      BY <2>1, <2>4 DEF Inv, ManifestOK
    <3>2. PICK n \in Nat :
            /\ n <= manifest.audit
            /\ manifest.entries[Root(r)] =
                [page |-> PageAt(Root(r), n), end |-> Terminal(PageAt(Root(r), n).family)]
            /\ \A x \in Family(Root(r)) : x <= manifest.scope.end => x <= n
      BY <3>1, EntryPage DEF Inv
    <3>3. ShownWith(manifest, r) = {x \in Family(Root(r)) : x <= n}
      BY <2>4, <3>1, <3>2, PageShown DEF ShownWith
    <3>4. \A x \in ShownWith(manifest, r) : x \in 1 .. manifest.audit
      BY <2>2, <2>3, <3>2, <3>3
    <3> QED
      BY <3>2, <3>3, <3>4 DEF ShownUpTo
  <2>5. CASE product # "support"
    <3>0. FiledOK
      BY DEF Inv
    <3>1. product = "viewer" /\ Revision(r)
      BY <2>1, <2>5, FamiliesAssumption DEF Inv, ListsOK
    <3>2. r \in DOMAIN manifest.evidence
      BY <2>1, <2>5, <3>1 DEF Inv, ManifestOK
    <3>3. /\ Sees(manifest.evidence[r], r, manifest.scope.end, {})
          /\ Newest(manifest.evidence, r) <= manifest.audit
      BY <3>2 DEF Inv, ManifestOK
    <3>4. PICK n \in r .. Len(filed) :
            /\ r \in DOMAIN filed /\ r \in Nat /\ n \in Nat /\ r <= n /\ n <= Len(filed)
            /\ manifest.evidence[r].page = PageAt(Root(r), n)
            /\ manifest.evidence[r].page.family = {x \in Members(Root(r)) : x <= n}
            /\ manifest.evidence[r].economic =
                IF IsAttachment(r) THEN Newest(manifest.evidence, r) ELSE r
            /\ Newest(manifest.evidence, r) \in Members(Root(r)) /\ Newest(manifest.evidence, r) <= n
            /\ Newest(manifest.evidence, r) \in DOMAIN filed
            /\ \A x \in Members(Root(r)) : x <= n => x <= Newest(manifest.evidence, r)
            /\ Min(manifest.evidence[r].page.family) = Root(r)
            /\ \A g \in Family(Root(r)) :
                Revision(g) /\ g <= manifest.scope.end => g <= n \/ g \in {}
      BY ONLY <3>0, <3>3, SeenFamily
    <3>5. ShownWith(manifest, r) = {x \in Family(Root(r)) : x <= n}
      BY <3>1, <3>2, <3>4, PageShown DEF ShownWith
    <3>6. \A x \in ShownWith(manifest, r) \cap Members(Root(r)) : x \in 1 .. manifest.audit
      BY <2>2, <2>3, <3>3, <3>4, <3>5
    <3>7. {f \in Family(Root(r)) : f <= manifest.scope.end
               /\ f \in {x \in DOMAIN filed : product = "support" \/ Revision(x)}}
             \subseteq ShownWith(manifest, r)
      BY <2>5, <3>4, <3>5
    <3> QED
      BY <3>6, <3>7 DEF ShownUpTo
  <2> QED
    BY <2>4, <2>5
<1> QED
  BY <1>1, Invariant, PTL

(* Pages, evidence and ends are of their types.                            *)
LEMMA PageTyped ==
    ASSUME FiledOK, NEW f, NEW n
    PROVE  PageAt(f, n) \in Pages
<1>1. Members(f) \subseteq Family(f) /\ Family(f) \subseteq Receipts
  BY Filings DEF Members, Family, Receipts
<1>2. PageAt(f, n) = [family |-> PageAt(f, n).family, attachments |-> PageAt(f, n).attachments]
      /\ PageAt(f, n).family \subseteq Receipts /\ PageAt(f, n).attachments \subseteq Receipts
  BY <1>1 DEF PageAt
<1> QED
  BY <1>2 DEF Pages

LEMMA EndTyped ==
    ASSUME FiledOK, NEW f \in DOMAIN filed, Root(f) = f, NEW n \in Nat, f <= n
    PROVE  Terminal(PageAt(f, n).family) \in Ends
<1>1. PICK S : S = PageAt(f, n).family
  OBVIOUS
<1>2. S \subseteq 1 .. Len(filed) /\ f \in S /\ Max(S) \in S
  BY <1>1, PageEnds
<1>3. Len(filed) \in Nat /\ DOMAIN filed = 1 .. Len(filed) /\ S \subseteq Receipts
  BY <1>2, Filings DEF Receipts
<1>4. PICK standing : standing = {r \in S : filed[r].kind \notin Terminated}
  OBVIOUS
<1>5. f \in standing
  <2>1. filed[f].kind = "ORIGINAL"
    BY Filings
  <2> QED
    BY <1>2, <1>4, <2>1 DEF Terminated
<1>6. standing \subseteq 0 .. Len(filed) /\ standing \subseteq S /\ standing # {}
  BY <1>2, <1>3, <1>4, <1>5
<1>7. Max(standing) \in S
  BY <1>3, <1>6, MaxIn
<1>8. Terminal(S) = IF filed[Max(S)].kind \in Terminated
        THEN [economic |-> Max(standing), status |-> filed[Max(S)].kind, admissible |-> FALSE]
        ELSE [economic |-> Max(S),
              status |-> IF filed[Max(S)].kind = "ZERO" THEN "ZERO_RATIO" ELSE "ACTIVE",
              admissible |-> filed[Max(S)].kind # "ZERO"]
  BY <1>4 DEF Terminal
<1>9. CASE filed[Max(S)].kind \in Terminated
  <2>1. Terminal(S) = [economic |-> Max(standing), status |-> "WITHDRAWN", admissible |-> FALSE]
    BY <1>8, <1>9 DEF Terminated
  <2> QED
    BY <1>1, <1>3, <1>7, <2>1 DEF Ends
<1>10. CASE filed[Max(S)].kind \notin Terminated
  <2>1. Max(S) \in Receipts
    BY <1>2, <1>3
  <2>2. PICK a \in BOOLEAN : a = (filed[Max(S)].kind # "ZERO")
    OBVIOUS
  <2>3. Terminal(S) = [economic |-> Max(S), status |-> IF a THEN "ACTIVE" ELSE "ZERO_RATIO",
                       admissible |-> a]
    BY <1>8, <1>10, <2>2
  <2> QED
    BY <1>1, <2>1, <2>3 DEF Ends
<1> QED
  BY <1>9, <1>10

LEMMA ManifestTyped ==
    ASSUME FiledOK, ListsOK, NEW m, ManifestOK(m)
    PROVE  IsManifest(m)
<1>1. /\ MaxFilings \in Nat /\ Len(filed) \in Nat /\ Len(filed) <= MaxFilings
      /\ listed \in Nat /\ listed <= Len(filed) /\ DOMAIN filed = 1 .. Len(filed)
      /\ DOMAIN filed \subseteq Receipts /\ 1 .. listed \subseteq Receipts
  BY Filings DEF ListsOK, Receipts
<1>2. DOMAIN m = DOMAIN NoManifest
  BY DEF ManifestOK, ManifestShape, NoManifest
<1>3. m.scope \in Scopes /\ m.audit \in 0 .. MaxFilings
  <2>1. m.scope \in [start : Nat, end : Nat, day : Nat] /\ m.audit \in 0 .. listed
        /\ m.scope.end <= m.audit
    BY DEF ManifestOK
  <2>2. m.scope.end \in 0 .. MaxFilings /\ m.audit \in 0 .. MaxFilings
    BY <1>1, <2>1
  <2> QED
    BY <2>1, <2>2 DEF Scopes
<1>4. m.seeds \subseteq Receipts /\ m.required \subseteq Receipts
  BY <1>1 DEF ManifestOK
<1>5. DOMAIN m.probes \subseteq Receipts /\ \A r \in DOMAIN m.probes : m.probes[r] \in Pages
  BY <1>1, PageTyped DEF ManifestOK, ProbeOK
<1>6. DOMAIN m.evidence \subseteq Receipts
      /\ \A r \in DOMAIN m.evidence : m.evidence[r] \in Evidences
  <2> SUFFICES ASSUME NEW r \in DOMAIN m.evidence
               PROVE  r \in Receipts /\ m.evidence[r] \in Evidences
    OBVIOUS
  <2>1. Sees(m.evidence[r], r, m.scope.end, {})
    BY DEF ManifestOK
  <2>2. PICK n \in r .. Len(filed) :
            /\ r \in DOMAIN filed
            /\ m.evidence[r].page = PageAt(Root(r), n)
            /\ m.evidence[r].economic = IF IsAttachment(r) THEN Newest(m.evidence, r) ELSE r
            /\ Newest(m.evidence, r) \in DOMAIN filed
    BY <2>1, SeenFamily
  <2>3. m.evidence[r] = [page |-> m.evidence[r].page, economic |-> m.evidence[r].economic]
    BY <2>1 DEF Sees, Evidence
  <2>4. m.evidence[r].page \in Pages /\ m.evidence[r].economic \in Receipts
    BY <1>1, <2>2, PageTyped
  <2>5. \A p \in Pages, x \in Receipts : [page |-> p, economic |-> x] \in Evidences
    BY DEF Evidences
  <2> QED
    BY <1>1, <2>2, <2>3, <2>4, <2>5
<1>7. DOMAIN m.entries \subseteq Receipts
      /\ \A f \in DOMAIN m.entries : m.entries[f].page \in Pages /\ m.entries[f].end \in Ends
  <2> SUFFICES ASSUME NEW f \in DOMAIN m.entries
               PROVE  f \in Receipts /\ m.entries[f].page \in Pages /\ m.entries[f].end \in Ends
    OBVIOUS
  <2>1. EntryOK(m.entries[f], f, m.scope.end, m.audit, {}) /\ m.audit \in Nat
    BY <1>1 DEF ManifestOK
  <2>2. PICK n \in f .. m.audit :
            m.entries[f] = [page |-> PageAt(f, n), end |-> Terminal(PageAt(f, n).family)]
    BY <2>1 DEF EntryOK
  <2>3. f \in DOMAIN filed /\ Root(f) = f /\ f \in Nat /\ n \in Nat /\ f <= n
    BY <1>1, <2>1, <2>2 DEF EntryOK
  <2>4. PageAt(f, n) \in Pages /\ Terminal(PageAt(f, n).family) \in Ends
    BY <2>3, PageTyped, EndTyped
  <2> QED
    BY <1>1, <2>2, <2>3, <2>4
<1> QED
  BY <1>2, <1>3, <1>4, <1>5, <1>6, <1>7 DEF IsManifest

(* The manifests and the lists are of their types, a stopped collection    *)
(* and a restored manifest included.                                       *)
THEOREM Typed == Spec => []TypeOK
<1>1. Inv => TypeOK
  <2> SUFFICES ASSUME Inv PROVE TypeOK
    OBVIOUS
  <2>1. filed \in Seq([root : Receipts, kind : AllKinds]) /\ Len(filed) \in Receipts
    BY DEF Inv, FiledOK
  <2>2. product \in Products /\ listed \in 0 .. Len(filed) /\ faults \in 0 .. MaxFaults
    BY DEF Inv, ListsOK
  <2>3. scope \in Scopes
    <3>1. scope \in [start : Nat \ {0}, end : 0 .. listed, day : Nat] /\ listed \in Nat
          /\ listed <= MaxFilings /\ MaxFilings \in Nat
      BY Filings DEF Inv, ListsOK
    <3>2. 0 .. listed \subseteq 0 .. MaxFilings
      BY <3>1
    <3> QED
      BY <3>1, <3>2 DEF Scopes
  <2>4. IsManifest(manifest)
    BY ManifestTyped DEF Inv
  <2>5. run.pc \in {"idle", "read", "recheck", "probe", "fetch", "family", "close", "verify"}
    BY DEF Inv, RunOK, Idle
  <2>6. ASSUME run.pc # "idle" PROVE IsManifest(run.prior)
    <3>1. ManifestOK(run.prior)
      BY <2>6 DEF Inv, RunOK, Idle, ReadOK, RecheckOK, SupportRun, ProbingOK, FetchOK,
                  FamilyOK, CollectingOK, ViewerRun, VerifyOK
    <3> QED
      BY <3>1, ManifestTyped DEF Inv
  <2> QED
    BY <2>1, <2>2, <2>3, <2>4, <2>5, <2>6 DEF TypeOK
<1> QED
  BY <1>1, Invariant, PTL

=============================================================================
