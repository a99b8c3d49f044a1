------------------------- MODULE ReturnRebuildProofs -------------------------
(***************************************************************************)
(* Theorems about ReturnRebuild for any stocks, dividends, sessions,       *)
(* listing gaps, splits and faults.                                        *)
(***************************************************************************)
EXTENDS ReturnRebuild, FiniteSetTheorems, WellFoundedInduction, TLAPS

(* A stock trades on sessions only.                                        *)
Traded == \A a \in Asset : trade[a] \subseteq 1..session

(* No dividend leaves the snapshot, and the label holds none from outside. *)
CashKnown ==
    /\ snapshot.rows \subseteq {x \in Dividend : disclosed[x] # 0}
    /\ \A a \in Asset : \A d \in Day :
        total[a][d].cash \subseteq {x \in snapshot.rows : Of[x] = a}

(* A closure in progress has an action run of its own.                     *)
OwnRun == task.pc # "idle" => ~snapshot.same /\ ~Published

Undecided == \A x \in Dividend : resolution[x].status = "none" => resolution[x] = NoDecision

Inv == TypeOK /\ Traded /\ CashKnown /\ OwnRun /\ Undecided /\ LabelIsFull /\ AuditTrue

-----------------------------------------------------------------------------
(* First and last of a set of sessions.                                    *)

LEMMA LeastExists ==
    ASSUME NEW T, T \subseteq Nat, T # {}
    PROVE  \E n \in T : \A m \in T : n <= m
<1> DEFINE R == OpToRel(<, Nat)
<1>1. IsWellFoundedOn(R, Nat)
  BY NatLessThanWellFounded
<1> HIDE DEF R
<1>2. PICK n \in T : \A m \in T : <<m, n>> \notin R
  BY <1>1, WFMin
<1>3. \A m \in T : m \in Nat /\ n \in Nat /\ ~(m < n)
  BY <1>2 DEF R, OpToRel
<1> QED
  BY <1>2, <1>3

LEMMA MinIn ==
    ASSUME NEW T, T \subseteq Nat, T # {}
    PROVE  Min(T) \in T /\ \A m \in T : Min(T) <= m
<1>1. \E n \in T : \A m \in T : n =< m
  BY LeastExists
<1> QED
  BY <1>1 DEF Min

LEMMA MaxIn ==
    ASSUME NEW N \in Nat, NEW T, T \subseteq 0..N, T # {}
    PROVE  Max(T) \in T /\ \A m \in T : m <= Max(T)
<1> DEFINE B == {b \in 0..N : \A m \in T : m <= b}
<1>1. N \in B /\ B \subseteq Nat
  OBVIOUS
<1>2. PICK b \in B : \A c \in B : b <= c
  <2> HIDE DEF B
  <2> QED
    BY <1>1, LeastExists
<1>3. b \in T
  <2> SUFFICES ASSUME b \notin T PROVE FALSE
    OBVIOUS
  <2>1. \A m \in T : m \in Nat /\ m <= b /\ m # b
    BY <1>2
  <2>2. PICK t \in T : t \in Nat /\ t <= b /\ t # b
    BY <2>1
  <2>3. b \in 0..N /\ b \in Nat /\ b - 1 \in 0..N
    BY <1>2, <2>2
  <2>4. \A m \in T : m <= b - 1
    BY <2>1, <2>3
  <2>5. b - 1 \in B /\ ~(b <= b - 1)
    BY <2>3, <2>4
  <2> QED
    BY <1>2, <2>5
<1>4. \E x \in T : \A y \in T : x >= y
  BY <1>2, <1>3
<1>5. Max(T) \in T /\ \A y \in T : Max(T) >= y
  BY <1>4 DEF Max
<1> QED
  BY <1>5

(* The sessions before a row, the rows of a dividend.                      *)
LEMMA Sessions ==
    ASSUME TypeOK, Traded
    PROVE  /\ session \in Nat /\ LastDay \in Nat /\ session <= LastDay /\ Gap \in Nat
           /\ \A a \in Asset :
                /\ trade[a] \subseteq Day /\ trade[a] \subseteq Nat /\ trade[a] \subseteq 1..session
                /\ \A d \in trade[a] : d \in Nat /\ 1 <= d /\ d <= session
                /\ Scale(a) \in Nat
                /\ \A d \in Nat : Raw(a, d) \in Nat /\ Lift(a, d) \in Nat
                /\ \A d \in Day : price[a][d] \in Nat
<1>1. session \in Nat /\ LastDay \in Nat /\ session <= LastDay /\ Gap \in Nat
  BY RebuildConstants DEF TypeOK
<1>2. \A a \in Asset : trade[a] \subseteq 1..session /\ trade[a] \subseteq Day
  BY DEF Traded, TypeOK
<1>3. ASSUME NEW a \in Asset, NEW T, T \subseteq splits[a] PROVE Cardinality(T) \in Nat
  <2>1. T \subseteq 1..LastDay
    BY <1>3 DEF TypeOK, Day
  <2>2. IsFiniteSet(1..LastDay)
    BY <1>1, FS_Interval
  <2>3. IsFiniteSet(T)
    BY <2>1, <2>2, FS_Subset
  <2> QED
    BY <2>3, FS_CardinalityType
<1>4. \A a \in Asset : Scale(a) \in Nat /\ \A d \in Nat : Raw(a, d) \in Nat
  BY <1>3 DEF Scale, Raw
<1>5. \A a \in Asset : \A d \in Nat : Lift(a, d) \in Nat
  BY DEF Lift
<1>6. \A a \in Asset : \A d \in Day : price[a][d] \in Nat
  BY DEF TypeOK
<1> QED
  BY <1>1, <1>2, <1>4, <1>5, <1>6

LEMMA BeforeRow ==
    ASSUME TypeOK, Traded, NEW a \in Asset, NEW d \in Nat
    PROVE  /\ Before(a, d) \subseteq trade[a]
           /\ Before(a, d) # {} =>
                /\ Max(Before(a, d)) \in Before(a, d) /\ Max(Before(a, d)) \in trade[a]
                /\ Max(Before(a, d)) \in Nat /\ Max(Before(a, d)) < d
                /\ \A e \in trade[a] : e < d => e <= Max(Before(a, d))
           /\ ~Opens(a, d) => Before(a, d) # {}
<1>1. Before(a, d) \subseteq trade[a] /\ Before(a, d) \subseteq 0..session /\ session \in Nat
      /\ trade[a] \subseteq Nat /\ Gap \in Nat
  BY Sessions DEF Before
<1>2. ASSUME Before(a, d) # {}
      PROVE  Max(Before(a, d)) \in Before(a, d)
             /\ \A e \in Before(a, d) : e <= Max(Before(a, d))
  BY <1>1, <1>2, MaxIn
<1>3. ASSUME Before(a, d) # {}
      PROVE  /\ Max(Before(a, d)) \in trade[a] /\ Max(Before(a, d)) \in Nat
             /\ Max(Before(a, d)) < d
             /\ \A e \in trade[a] : e < d => e <= Max(Before(a, d))
  BY <1>1, <1>2, <1>3 DEF Before
<1>4. ~Opens(a, d) => Before(a, d) # {}
  BY DEF Opens
<1> QED
  BY <1>1, <1>2, <1>3, <1>4

LEMMA FirstRow ==
    ASSUME TypeOK, Traded, NEW x \in Dividend, OnOrAfter(x) # {}
    PROVE  /\ Min(OnOrAfter(x)) \in trade[Of[x]] /\ Min(OnOrAfter(x)) \in Nat
           /\ Min(OnOrAfter(x)) >= stored[x].ex
           /\ \A d \in trade[Of[x]] : d >= stored[x].ex => Min(OnOrAfter(x)) <= d
<1>1. Of[x] \in Asset
  BY RebuildConstants
<1>2. OnOrAfter(x) \subseteq Nat
  BY <1>1, Sessions DEF OnOrAfter
<1>3. Min(OnOrAfter(x)) \in OnOrAfter(x) /\ \A d \in OnOrAfter(x) : Min(OnOrAfter(x)) <= d
  BY <1>2, MinIn
<1> QED
  BY <1>2, <1>3 DEF OnOrAfter

(* The decision on a dividend: applied on its first row, when that row     *)
(* continues an episode.                                                   *)
LEMMA Decided ==
    ASSUME TypeOK, Traded, NEW x \in Dividend
    PROVE  /\ Decide(x) \in Decision /\ Decide(x).status # "none"
           /\ Decide(x).status = "applied" <=>
                ~Waiting(x) /\ OnOrAfter(x) # {} /\ ~Opens(Of[x], Min(OnOrAfter(x)))
           /\ Decide(x).status = "applied" => Decide(x).day = Min(OnOrAfter(x))
<1>1. PICK a \in Asset : a = Of[x]
  BY RebuildConstants
<1>2. PICK d : d = Min(OnOrAfter(x))
  OBVIOUS
<1>3. Decide(x) =
        CASE Waiting(x) \/ OnOrAfter(x) = {} -> [NoDecision EXCEPT !.status = "pending"]
          [] ~Waiting(x) /\ OnOrAfter(x) # {} /\ Before(a, d) = {} ->
               [NoDecision EXCEPT !.status = "start"]
          [] ~Waiting(x) /\ OnOrAfter(x) # {} /\ Before(a, d) # {} /\ Opens(a, d) ->
               [NoDecision EXCEPT !.status = "gap"]
          [] ~Waiting(x) /\ OnOrAfter(x) # {} /\ ~Opens(a, d) ->
               [status |-> "applied", day |-> d,
                previous |-> Max(Before(a, d)),
                levels |-> <<price[a][Max(Before(a, d))], price[a][d]>>]
  BY <1>1, <1>2 DEF Decide
<1>4. \A s \in {"pending", "start", "gap"} :
        /\ [NoDecision EXCEPT !.status = s] \in Decision
        /\ [NoDecision EXCEPT !.status = s].status = s
  <2>1. <<0, 0>> \in Nat \X Nat
    OBVIOUS
  <2>2. \A s \in {"pending", "start", "gap"} :
          [NoDecision EXCEPT !.status = s] = [status |-> s, day |-> 0, previous |-> 0, levels |-> <<0, 0>>]
    BY DEF NoDecision
  <2>3. 0 \in 0..LastDay
    BY RebuildConstants
  <2> QED
    BY <2>1, <2>2, <2>3 DEF Decision
<1>5. CASE Waiting(x) \/ OnOrAfter(x) = {}
  <2>1. Decide(x) = [NoDecision EXCEPT !.status = "pending"]
    BY <1>3, <1>5
  <2> QED
    BY <1>4, <1>5, <2>1
<1>6. CASE ~Waiting(x) /\ OnOrAfter(x) # {} /\ Before(a, d) = {}
  <2>1. Decide(x) = [NoDecision EXCEPT !.status = "start"]
    BY <1>3, <1>6 DEF Opens
  <2>2. Opens(a, d)
    BY <1>6 DEF Opens
  <2> QED
    BY <1>1, <1>2, <1>4, <1>6, <2>1, <2>2
<1>7. CASE ~Waiting(x) /\ OnOrAfter(x) # {} /\ Before(a, d) # {} /\ Opens(a, d)
  <2>1. Decide(x) = [NoDecision EXCEPT !.status = "gap"]
    BY <1>3, <1>7
  <2> QED
    BY <1>1, <1>2, <1>4, <1>7, <2>1
<1>8. CASE ~Waiting(x) /\ OnOrAfter(x) # {} /\ ~Opens(a, d)
  <2>1. Before(a, d) # {}
    BY <1>8 DEF Opens
  <2>2. Decide(x) = [status |-> "applied", day |-> d,
                     previous |-> Max(Before(a, d)),
                     levels |-> <<price[a][Max(Before(a, d))], price[a][d]>>]
    BY <1>3, <1>8, <2>1
  <2>3. d \in Day /\ d \in Nat
    BY <1>1, <1>2, <1>8, FirstRow, Sessions
  <2>4. Max(Before(a, d)) \in Day
        /\ <<price[a][Max(Before(a, d))], price[a][d]>> \in Nat \X Nat
    BY <2>1, <2>3, BeforeRow, Sessions
  <2>5. Decide(x) \in Decision
    BY <2>2, <2>3, <2>4 DEF Decision, Day
  <2> QED
    BY <1>1, <1>2, <1>8, <2>2, <2>5
<1> QED
  BY <1>5, <1>6, <1>7, <1>8

-----------------------------------------------------------------------------
(* What is reinvested in a row is what the ex-dates and the trades call    *)
(* for.                                                                    *)
LEMMA Paid ==
    ASSUME TypeOK, Traded, NEW x \in Current, NEW d \in trade[Of[x]]
    PROVE  x \in Reinvested(Of[x], d) <=>
            /\ stored[x].ex <= d /\ ~Waiting(x)
            /\ \E e \in trade[Of[x]] :
                  /\ e < stored[x].ex
                  /\ \A f \in trade[Of[x]] : e < f /\ f <= d => ~Opens(Of[x], f)
<1>1. PICK a \in Asset : a = Of[x]
  BY RebuildConstants DEF Current
<1>2. x \in Dividend /\ stored[x].ex \in Nat /\ d \in Nat /\ trade[a] \subseteq Nat /\ x \in CashOf(a)
  BY <1>1, Sessions, RebuildConstants DEF Current, CashOf, TypeOK, Stored
<1>3. ASSUME x \in Reinvested(a, d)
      PROVE  /\ stored[x].ex <= d /\ ~Waiting(x)
             /\ \E e \in trade[a] :
                  /\ e < stored[x].ex
                  /\ \A f \in trade[a] : e < f /\ f <= d => ~Opens(a, f)
  <2>1. /\ Decide(x).status = "applied" /\ Decide(x).day <= d
        /\ \A f \in trade[a] : Decide(x).day < f /\ f <= d => ~Opens(a, f)
    BY <1>3 DEF Reinvested
  <2>2. /\ ~Waiting(x) /\ OnOrAfter(x) # {}
        /\ ~Opens(a, Min(OnOrAfter(x))) /\ Decide(x).day = Min(OnOrAfter(x))
    BY <1>1, <1>2, <2>1, Decided
  <2>3. PICK p : p = Min(OnOrAfter(x))
    OBVIOUS
  <2>4. /\ p \in trade[a] /\ p \in Nat /\ p >= stored[x].ex
        /\ \A f \in trade[a] : f >= stored[x].ex => p <= f
    BY <1>1, <1>2, <2>2, <2>3, FirstRow
  <2>5. Before(a, p) # {} /\ ~Opens(a, p)
    BY <2>2, <2>3 DEF Opens
  <2>6. PICK e \in trade[a] : e \in Nat /\ e < p /\ \A f \in trade[a] : f < p => f <= e
    BY <2>4, <2>5, BeforeRow
  <2>7. e < stored[x].ex
    BY <1>2, <2>4, <2>6
  <2>8. ASSUME NEW f \in trade[a], e < f, f <= d PROVE ~Opens(a, f)
    <3>1. f \in Nat /\ ~(f < p)
      BY <1>2, <2>6, <2>8
    <3>2. f = p \/ p < f
      BY <2>4, <3>1
    <3> QED
      BY <2>1, <2>2, <2>3, <2>5, <2>8, <3>2
  <2>9. stored[x].ex <= d
    BY <1>2, <2>1, <2>2, <2>3, <2>4
  <2> QED
    BY <2>2, <2>7, <2>8, <2>9
<1>4. ASSUME stored[x].ex <= d, ~Waiting(x), NEW e \in trade[a], e < stored[x].ex,
             \A f \in trade[a] : e < f /\ f <= d => ~Opens(a, f)
      PROVE  x \in Reinvested(a, d)
  <2>1. OnOrAfter(x) # {}
    BY <1>1, <1>2, <1>4 DEF OnOrAfter
  <2>2. PICK p : p = Min(OnOrAfter(x))
    OBVIOUS
  <2>3. /\ p \in trade[a] /\ p \in Nat /\ p >= stored[x].ex
        /\ \A f \in trade[a] : f >= stored[x].ex => p <= f
    BY <1>1, <1>2, <2>1, <2>2, FirstRow
  <2>4. p <= d /\ e < p
    BY <1>1, <1>2, <1>4, <2>3
  <2>5. ~Opens(a, p)
    BY <1>4, <2>3, <2>4
  <2>6. Decide(x).status = "applied" /\ Decide(x).day = p
    BY <1>1, <1>2, <1>4, <2>1, <2>2, <2>5, Decided
  <2>7. \A f \in trade[a] : p < f /\ f <= d => ~Opens(a, f)
    BY <1>2, <1>4, <2>3, <2>4
  <2> QED
    BY <1>2, <2>4, <2>6, <2>7 DEF Reinvested
<1> QED
  BY <1>1, <1>3, <1>4

(* Where every row holds what is reinvested in it, the cash is paid.       *)
LEMMA FullPays == TypeOK /\ Traded /\ LabelIsFull => CashPaid
<1> SUFFICES ASSUME TypeOK, Traded, LabelIsFull, Published,
                    NEW x \in Current, NEW d \in trade[Of[x]]
             PROVE  x \in total[Of[x]][d].cash <=>
                    /\ stored[x].ex <= d /\ ~Waiting(x)
                    /\ \E e \in trade[Of[x]] :
                          /\ e < stored[x].ex
                          /\ \A f \in trade[Of[x]] : e < f /\ f <= d => ~Opens(Of[x], f)
  BY DEF CashPaid
<1>1. total[Of[x]][d].cash = Reinvested(Of[x], d)
  BY RebuildConstants DEF LabelIsFull, Current
<1> QED
  BY <1>1, Paid

-----------------------------------------------------------------------------
(* The inputs of a rebuild.                                                *)

LEMMA SameInputs ==
    ASSUME UNCHANGED <<session, trade, price, stored>>
    PROVE  /\ Current' = Current
           /\ \A x : Decide(x)' = Decide(x)
           /\ \A a, d : Reinvested(a, d)' = Reinvested(a, d)
           /\ \A a, d : Opens(a, d)' <=> Opens(a, d)
           /\ \A a, d : Before(a, d)' = Before(a, d)
<1>1. Current' = Current /\ \A a : CashOf(a)' = CashOf(a)
  BY DEF Current, CashOf
<1>2. \A a, d : Before(a, d)' = Before(a, d)
  BY DEF Before
<1>3. \A a, d : Opens(a, d)' <=> Opens(a, d)
  BY <1>2 DEF Opens
<1>4. \A x : OnOrAfter(x)' = OnOrAfter(x) /\ (Waiting(x)' <=> Waiting(x))
  BY DEF OnOrAfter, Waiting, Record
<1>5. \A x : Decide(x)' = Decide(x)
  <2> TAKE x
  <2> QED
    BY <1>2, <1>3, <1>4 DEF Decide
<1>6. \A a, d : Reinvested(a, d)' = Reinvested(a, d)
  BY <1>1, <1>3, <1>5 DEF Reinvested
<1> QED
  BY <1>1, <1>2, <1>3, <1>5, <1>6

(* A label that stays published with unchanged inputs and values stays     *)
(* right.                                                                  *)
LEMMA LabelStays ==
    ASSUME LabelIsFull, AuditTrue, UNCHANGED <<session, trade, price, stored, total, resolution>>,
           Published' => Published
    PROVE  (LabelIsFull /\ AuditTrue)'
<1>1. /\ Current' = Current /\ \A x : Decide(x)' = Decide(x)
      /\ \A a, d : Reinvested(a, d)' = Reinvested(a, d)
  BY SameInputs
<1>2. LabelIsFull'
  BY <1>1 DEF LabelIsFull
<1>3. AuditTrue'
  BY <1>1 DEF AuditTrue
<1> QED
  BY <1>2, <1>3

LEMMA Unpublished ==
    ASSUME ~Published'
    PROVE  (LabelIsFull /\ AuditTrue)'
  BY DEF LabelIsFull, AuditTrue

-----------------------------------------------------------------------------
(* The rebuild.                                                            *)

LEMMA Rows ==
    ASSUME TypeOK, NEW a \in Asset
    PROVE  /\ total[a] \in [Day -> Total]
           /\ \A d \in Day : /\ total[a][d] \in Total
                             /\ total[a][d] = [run |-> total[a][d].run, level |-> total[a][d].level,
                                               cash |-> total[a][d].cash]
           /\ NoTotal \in Total
<1>1. total[a] \in [Day -> Total]
  BY DEF TypeOK
<1>2. NoTotal \in Total
  BY RebuildConstants DEF NoTotal, Total
<1>3. \A v \in Total : v = [run |-> v.run, level |-> v.level, cash |-> v.cash]
  BY DEF Total
<1> QED
  BY <1>1, <1>2, <1>3

LEMMA RecomputedRows ==
    ASSUME TypeOK, Traded, NEW a \in Asset
    PROVE  /\ Recomputed(a) \in [Day -> Total]
           /\ \A d \in Day :
                Recomputed(a)[d] = IF d \notin trade[a] THEN NoTotal
                                   ELSE [run |-> "last", level |-> price[a][d], cash |-> Reinvested(a, d)]
           /\ \A d \in Day : Recomputed(a)[d].cash \subseteq CashOf(a)
<1>1. (\A d \in Day : price[a][d] \in Int) /\ NoTotal \in Total
  BY Sessions, Rows
<1>2. \A d : Reinvested(a, d) \subseteq CashOf(a)
  BY DEF Reinvested
<1>3. CashOf(a) \subseteq Dividend
  BY DEF CashOf, Current
<1>4. \A d \in Day :
        /\ Recomputed(a)[d] = IF d \notin trade[a] THEN NoTotal
                              ELSE [run |-> "last", level |-> price[a][d], cash |-> Reinvested(a, d)]
        /\ Recomputed(a)[d].cash \subseteq CashOf(a)
  BY <1>2 DEF Recomputed, NoTotal
<1>5. \A c \in SUBSET Dividend : \A d \in Day :
        [run |-> "last", level |-> price[a][d], cash |-> c] \in Total
  BY <1>1 DEF Total
<1>6. \A d \in Day : Reinvested(a, d) \in SUBSET Dividend
  BY <1>2, <1>3
<1>7. Recomputed(a) \in [Day -> Total]
  BY <1>1, <1>5, <1>6 DEF Recomputed
<1> QED
  BY <1>4, <1>7

(* A stock that is not recomputed has no dividend, and its rows without a  *)
(* value follow certified ones.                                            *)
LEMMA Unaffected ==
    ASSUME Inv, task.pc = "marked", NEW a \in Asset, a \notin Affected
    PROVE  /\ task.mode = "incremental" /\ CashOf(a) = {}
           /\ \A d \in Uncertified(a) :
                ~(d <= task.coverage) /\ {e \in Certified(a) : e < d} # {}
<1>1. task.mode = "incremental" /\ a \notin Changed /\ a \notin Missing
  <2>1. task.mode \in {"full", "incremental"}
    BY DEF Inv, TypeOK, Closure
  <2> QED
    BY <2>1 DEF Affected
<1>2. ~snapshot.same
  BY DEF Inv, OwnRun
<1>3. CashOf(a) = {}
  BY <1>1, <1>2 DEF Changed, CashOf
<1>4. \A d \in Uncertified(a) : ~(d <= task.coverage) /\ {e \in Certified(a) : e < d} # {}
  BY <1>1 DEF Missing
<1> QED
  BY <1>1, <1>3, <1>4

(* The value that the appended rows continue is the last certified one.    *)
LEMMA SeedRow ==
    ASSUME Inv, task.pc = "marked", NEW a \in Asset, a \notin Affected, Uncertified(a) # {}
    PROVE  \E s \in Certified(a) :
            /\ s \in Day /\ SeedDay(a) = s
            /\ s < Min(Uncertified(a)) /\ Min(Uncertified(a)) \in Uncertified(a)
            /\ \A d \in Uncertified(a) : Min(Uncertified(a)) <= d
            /\ \A e \in Certified(a) : e < Min(Uncertified(a)) => e <= s
<1>1. TypeOK /\ Traded
  BY DEF Inv
<1>2. /\ trade[a] \subseteq Day /\ trade[a] \subseteq Nat /\ trade[a] \subseteq 0..session /\ session \in Nat
  BY <1>1, Sessions
<1>3. PICK u : u = Min(Uncertified(a))
  OBVIOUS
<1>4. Uncertified(a) \subseteq trade[a] /\ Certified(a) \subseteq trade[a]
  BY DEF Uncertified, Certified
<1>5. u \in Uncertified(a) /\ u \in Nat /\ \A d \in Uncertified(a) : u <= d /\ d \in Nat
  BY <1>2, <1>3, <1>4, MinIn
<1>6. {e \in Uncertified(a) : e < u} = {}
  <2>1. \A e \in Uncertified(a) : ~(e < u)
    BY <1>5
  <2> QED
    BY <2>1
<1>7. Previous(a, u) = {e \in Certified(a) : e < u} /\ Previous(a, u) # {}
  <2>1. {e \in Certified(a) : e < u} # {}
    BY <1>5, Unaffected
  <2>2. Previous(a, u) = {e \in Certified(a) : e < u}
    BY <1>6 DEF Previous
  <2> QED
    BY <2>1, <2>2
<1>8. PICK s : s = Max(Previous(a, u))
  OBVIOUS
<1>9. s \in Previous(a, u) /\ \A e \in Previous(a, u) : e <= s
  BY <1>2, <1>4, <1>7, <1>8, MaxIn
<1>10. s \in Certified(a) /\ s \in Day /\ s < u /\ \A e \in Certified(a) : e < u => e <= s
  BY <1>2, <1>4, <1>7, <1>9
<1>11. SeedDay(a) = s
  BY <1>3, <1>8 DEF SeedDay
<1> QED
  BY <1>3, <1>5, <1>8, <1>10, <1>11

LEMMA AppendedRows ==
    ASSUME Inv, task.pc = "marked", AuditPasses, NEW a \in Asset, a \notin Affected
    PROVE  /\ Appended(a) \in [Day -> Total]
           /\ \A d \in Day : Appended(a)[d].cash = {}
           /\ \A d \in trade[a] : Appended(a)[d].run # "none"
<1>1. TypeOK /\ Traded /\ CashKnown /\ CashOf(a) = {} /\ trade[a] \subseteq Day
  BY Unaffected, Sessions DEF Inv
<1>2. \A d \in Day : total[a][d].cash = {}
  <2>1. {x \in snapshot.rows : Of[x] = a} = CashOf(a)
    BY DEF AuditPasses, CashOf
  <2> QED
    BY <1>1, <2>1 DEF CashKnown
<1>3. ASSUME NEW d \in Day
      PROVE  /\ Appended(a)[d] \in Total /\ Appended(a)[d].cash = {}
             /\ d \in trade[a] => Appended(a)[d].run # "none"
  <2>1. CASE d \in Uncertified(a) /\ \E e \in Uncertified(a) : e <= d /\ Restarts(a, e)
    <3>1. Appended(a)[d] = [run |-> "last", level |-> price[a][d], cash |-> {}]
      BY <2>1 DEF Appended
    <3>2. price[a][d] \in Int
      BY <1>1, Sessions
    <3> QED
      BY <3>1, <3>2 DEF Total
  <2>2. CASE d \in Uncertified(a) /\ ~\E e \in Uncertified(a) : e <= d /\ Restarts(a, e)
    <3>1. PICK s \in Day : SeedDay(a) = s
      BY <2>2, SeedRow
    <3>2. Appended(a)[d] = [run |-> "last", cash |-> total[a][s].cash,
                            level |-> total[a][s].level + (price[a][d] - price[a][s])]
      BY <2>2, <3>1 DEF Appended
    <3>3. total[a][s] \in Total /\ total[a][s].cash = {}
      BY <1>1, <1>2, Rows
    <3>4. total[a][s].level \in Int
      BY <3>3 DEF Total
    <3>5. price[a][d] \in Nat /\ price[a][s] \in Nat
      BY <1>1, Sessions
    <3>6. PICK n \in Int : n = total[a][s].level + (price[a][d] - price[a][s])
      BY <3>4, <3>5
    <3>7. Appended(a)[d] = [run |-> "last", cash |-> {}, level |-> n]
      BY <3>2, <3>3, <3>6
    <3> QED
      BY <3>7 DEF Total
  <2>3. CASE d \notin Uncertified(a)
    <3>1. PICK v \in Total : v = total[a][d]
      BY <1>1, Rows
    <3>2. Appended(a)[d] = IF v.run = "last" THEN [v EXCEPT !.run = "old"] ELSE v
      BY <2>3, <3>1 DEF Appended
    <3>3. Appended(a)[d] = [run |-> IF v.run = "last" THEN "old" ELSE v.run,
                            level |-> v.level, cash |-> v.cash]
      BY <3>2 DEF Total
    <3>4. d \in trade[a] => v.run # "none"
      BY <2>3, <3>1 DEF Uncertified, Certified
    <3> QED
      BY <1>2, <3>1, <3>3, <3>4 DEF Total
  <2> QED
    BY <2>1, <2>2, <2>3
<1>4. Appended(a) \in [Day -> Total]
  <2> DEFINE Row(d) == IF d \in Uncertified(a)
                       THEN IF \E e \in Uncertified(a) : e <= d /\ Restarts(a, e)
                            THEN [run |-> "last", level |-> price[a][d], cash |-> {}]
                            ELSE [run |-> "last", cash |-> total[a][SeedDay(a)].cash,
                                  level |-> total[a][SeedDay(a)].level
                                              + (price[a][d] - price[a][SeedDay(a)])]
                       ELSE IF total[a][d].run = "last" THEN [total[a][d] EXCEPT !.run = "old"]
                       ELSE total[a][d]
  <2>1. Appended(a) = [d \in Day |-> Row(d)]
    BY DEF Appended
  <2> HIDE DEF Row
  <2> QED
    BY <1>3, <2>1
<1> QED
  BY <1>1, <1>3, <1>4

-----------------------------------------------------------------------------
(* The steps.                                                              *)

LEMMA InvInit == Init => Inv
<1> SUFFICES ASSUME Init PROVE Inv
  OBVIOUS
<1>1. TypeOK
  BY RebuildConstants DEF Init, TypeOK, Total, NoTotal, Stored, Decision, NoDecision,
     Snapshot, Contract, Closure, Idle, Day
<1>2. Traded /\ OwnRun /\ Undecided /\ ~Published
  BY DEF Init, Traded, OwnRun, Undecided, Published, Idle
<1>3. CashKnown
  <2>1. \A a \in Asset : \A d \in Day : total[a][d].cash = {}
    BY DEF Init, NoTotal
  <2> QED
    BY <2>1 DEF Init, CashKnown
<1> QED
  BY <1>1, <1>2, <1>3 DEF Inv, LabelIsFull, AuditTrue

LEMMA DemotedType ==
    ASSUME TypeOK
    PROVE  Demoted \in Contract /\ Demoted.status = "BUILDING" /\ Demoted.coverage = contract.coverage
  BY DEF TypeOK, Contract, Demoted

LEMMA LoadSessionInv ==
    ASSUME Inv, NEW traders \in SUBSET Asset, NEW split \in SUBSET Asset,
           LoadSession(traders, split)
    PROVE  Inv'
<1>1. /\ session' = session + 1 /\ session + 1 <= LastDay /\ session \in Nat
      /\ trade' = [a \in Asset |-> IF a \in traders THEN trade[a] \cup {session + 1} ELSE trade[a]]
      /\ splits' = [a \in Asset |-> IF a \in split THEN splits[a] \cup {session + 1} ELSE splits[a]]
      /\ price' = [a \in Asset |-> [e \in Day |->
            IF e = session + 1 /\ a \in traders THEN Scale(a) + (IF a \in split THEN 1 ELSE 0)
            ELSE IF e \in trade[a] THEN price[a][e] + (IF a \in split THEN 1 ELSE 0)
            ELSE price[a][e]]]
      /\ contract' = Demoted
      /\ UNCHANGED <<total, disclosed, stored, snapshot, resolution, task, faults>>
  BY DEF LoadSession, Inv, TypeOK
<1>2. TypeOK /\ Traded /\ session + 1 \in Day /\ session' \in 0..LastDay /\ LastDay \in Nat
  BY <1>1, RebuildConstants DEF Inv, Day
<1>3. trade' \in [Asset -> SUBSET Day] /\ splits' \in [Asset -> SUBSET Day]
  <2>1. \A a \in Asset : trade[a] \subseteq Day /\ splits[a] \subseteq Day
    BY <1>2 DEF TypeOK
  <2> QED
    BY <1>1, <1>2, <2>1
<1>4. TypeOK'
  <2>1. \A a \in Asset : Scale(a) \in Nat /\ \A e \in Day : price[a][e] \in Nat
    BY <1>2, Sessions
  <2>2. price' \in [Asset -> [Day -> Nat]]
    BY <1>1, <2>1
  <2> QED
    BY <1>1, <1>2, <1>3, <2>2, DemotedType DEF TypeOK
<1>5. Traded'
  <2>1. \A a \in Asset : trade'[a] \subseteq trade[a] \cup {session + 1}
    BY <1>1
  <2>2. \A a \in Asset : trade[a] \cup {session + 1} \subseteq 1..(session + 1)
    BY <1>1, <1>2 DEF Traded
  <2> QED
    BY <1>1, <2>1, <2>2 DEF Traded
<1>6. ~Published'
  BY <1>1, <1>2, DemotedType DEF Published
<1>7. CashKnown' /\ OwnRun' /\ Undecided'
  BY <1>1, <1>6 DEF Inv, CashKnown, OwnRun, Undecided
<1> QED
  BY <1>4, <1>5, <1>6, <1>7, Unpublished DEF Inv

LEMMA ReloadSessionInv ==
    ASSUME Inv, NEW d \in Day, ReloadSession(d)
    PROVE  Inv'
<1>1. /\ total' = [a \in Asset |->
            IF d \in trade[a] THEN [total[a] EXCEPT ![d] = NoTotal] ELSE total[a]]
      /\ price' = [a \in Asset |->
            IF d \notin trade[a] THEN price[a]
            ELSE [e \in Day |-> IF e = d THEN Raw(a, d)
                                ELSE IF e \in Before(a, d) THEN price[a][e] + Lift(a, d)
                                ELSE price[a][e]]]
      /\ contract' = Demoted /\ faults' = faults + 1 /\ faults < MaxFaults
      /\ UNCHANGED <<session, trade, splits, disclosed, stored, snapshot, resolution, task>>
  BY DEF ReloadSession
<1>2. TypeOK /\ Traded /\ CashKnown
  BY DEF Inv
<1>3. \A a \in Asset : /\ total'[a] \in [Day -> Total]
                       /\ \A e \in Day : total'[a][e] = total[a][e] \/ total'[a][e] = NoTotal
  BY <1>1, <1>2, Rows
<1>4. TypeOK'
  <2>1. total' \in [Asset -> [Day -> Total]]
    BY <1>1, <1>3
  <2>2. faults' \in 0..MaxFaults
    BY <1>1, <1>2, RebuildConstants DEF TypeOK
  <2>3. d \in Nat /\ \A a \in Asset : Raw(a, d) \in Nat /\ Lift(a, d) \in Nat
    BY <1>2, Sessions DEF Day
  <2>4. price \in [Asset -> [Day -> Nat]]
    BY <1>2 DEF TypeOK
  <2>5. price' \in [Asset -> [Day -> Nat]]
    BY <1>1, <2>3, <2>4
  <2> QED
    BY <1>1, <1>2, <2>1, <2>2, <2>5, DemotedType DEF TypeOK
<1>5. CashKnown'
  BY <1>1, <1>2, <1>3 DEF CashKnown, NoTotal
<1>6. ~Published'
  BY <1>1, <1>2, DemotedType DEF Published
<1>7. Traded' /\ OwnRun' /\ Undecided'
  BY <1>1, <1>6 DEF Inv, Traded, OwnRun, Undecided
<1> QED
  BY <1>4, <1>5, <1>6, <1>7, Unpublished DEF Inv

LEMMA DiscloseInv ==
    ASSUME Inv, NEW x \in Dividend, NEW ex \in Day, Disclose(x, ex)
    PROVE  Inv'
<1>1. /\ disclosed' = [disclosed EXCEPT ![x] = ex]
      /\ faults' = faults + (IF disclosed[x] = 0 THEN 0 ELSE 1) /\ faults' <= MaxFaults
      /\ UNCHANGED <<session, trade, splits, price, total, stored, snapshot, contract, resolution, task>>
  BY DEF Disclose
<1>2. TypeOK /\ CashKnown /\ ex \in 0..LastDay /\ ex # 0
  BY RebuildConstants DEF Inv, Day
<1>3. disclosed' \in [Dividend -> 0..LastDay]
      /\ {y \in Dividend : disclosed[y] # 0} \subseteq {y \in Dividend : disclosed'[y] # 0}
  BY <1>1, <1>2 DEF TypeOK
<1>4. TypeOK'
  <2>1. faults' \in 0..MaxFaults
    BY <1>1, <1>2, RebuildConstants DEF TypeOK
  <2> QED
    BY <1>1, <1>2, <1>3, <2>1 DEF TypeOK
<1>5. CashKnown'
  BY <1>1, <1>2, <1>3 DEF CashKnown
<1>6. Traded' /\ OwnRun' /\ Undecided' /\ (Published' <=> Published)
  BY <1>1 DEF Inv, Traded, OwnRun, Undecided, Published
<1>7. (LabelIsFull /\ AuditTrue)'
  BY <1>1, <1>6, LabelStays DEF Inv
<1> QED
  BY <1>4, <1>5, <1>6, <1>7 DEF Inv

LEMMA PublishOtherInv ==
    ASSUME Inv, NEW x \in Dividend, PublishOther(x)
    PROVE  Inv'
<1>1. /\ stored' = [stored EXCEPT ![x] = [ex |-> disclosed[x], run |-> "other"]]
      /\ contract' = Demoted /\ faults' = faults + 1 /\ faults < MaxFaults
      /\ UNCHANGED <<session, trade, splits, price, total, disclosed, snapshot, resolution, task>>
  BY DEF PublishOther
<1>2. TypeOK
  BY DEF Inv
<1>3. TypeOK'
  <2>1. [ex |-> disclosed[x], run |-> "other"] \in Stored
    BY <1>2 DEF TypeOK, Stored
  <2>2. stored' \in [Dividend -> Stored]
    BY <1>1, <1>2, <2>1 DEF TypeOK
  <2>3. faults' \in 0..MaxFaults
    BY <1>1, <1>2, RebuildConstants DEF TypeOK
  <2> QED
    BY <1>1, <1>2, <2>2, <2>3, DemotedType DEF TypeOK
<1>4. ~Published'
  BY <1>1, <1>2, DemotedType DEF Published
<1>5. Traded' /\ CashKnown' /\ OwnRun' /\ Undecided'
  BY <1>1, <1>4 DEF Inv, Traded, CashKnown, OwnRun, Undecided
<1> QED
  BY <1>3, <1>4, <1>5, Unpublished DEF Inv

LEMMA PublishActionsInv ==
    ASSUME Inv, PublishActions
    PROVE  Inv'
<1>1. PICK known : known = {x \in Dividend : disclosed[x] # 0}
  OBVIOUS
<1>2. /\ stored' = [x \in Dividend |->
            IF x \in known THEN [ex |-> disclosed[x], run |-> "snapshot"] ELSE stored[x]]
      /\ snapshot' = [end |-> session, rows |-> known, same |-> FALSE]
      /\ contract' = Demoted /\ task' = [Idle EXCEPT !.pc = "published"]
      /\ UNCHANGED <<session, trade, splits, price, total, disclosed, resolution, faults>>
  BY <1>1 DEF PublishActions
<1>3. TypeOK /\ CashKnown
  BY DEF Inv
<1>4. TypeOK'
  <2>1. \A x \in Dividend : [ex |-> disclosed[x], run |-> "snapshot"] \in Stored /\ stored[x] \in Stored
    BY <1>3 DEF TypeOK, Stored
  <2>2. stored' \in [Dividend -> Stored]
    BY <1>2, <2>1
  <2>3. snapshot' \in Snapshot
    BY <1>1, <1>2, <1>3 DEF TypeOK, Snapshot
  <2>4. task' \in Closure
    BY <1>2, RebuildConstants DEF Idle, Closure
  <2> QED
    BY <1>2, <1>3, <2>2, <2>3, <2>4, DemotedType DEF TypeOK
<1>5. CashKnown'
  <2>1. snapshot.rows \subseteq known
    BY <1>1, <1>3 DEF CashKnown
  <2> QED
    BY <1>1, <1>2, <1>3, <2>1 DEF CashKnown
<1>6. ~Published'
  BY <1>2, <1>3, DemotedType DEF Published
<1>7. Traded' /\ OwnRun' /\ Undecided'
  BY <1>2, <1>6 DEF Inv, Traded, OwnRun, Undecided
<1> QED
  BY <1>4, <1>5, <1>6, <1>7, Unpublished DEF Inv

LEMMA LastRow ==
    ASSUME TypeOK, Traded
    PROVE  /\ LastRows \subseteq Day /\ LastRows \subseteq 0..LastDay /\ LastDay \in Nat
           /\ LastRows # {} => Max(LastRows) \in LastRows /\ \A d \in LastRows : d <= Max(LastRows)
<1>1. LastRows \subseteq Day /\ LastDay \in Nat
  BY Sessions DEF LastRows
<1>2. LastRows \subseteq 0..LastDay
  BY <1>1 DEF Day
<1> QED
  BY <1>1, <1>2, MaxIn

LEMMA BaselineType ==
    ASSUME TypeOK, Traded, NEW recovered \in BOOLEAN
    PROVE  /\ Baseline(recovered) \in Closure /\ Baseline(recovered).pc = "marked"
           /\ Baseline(recovered).mode = "incremental" =>
                \/ contract.coverage # 0 /\ Baseline(recovered).coverage = contract.coverage
                \/ LastRows # {} /\ Baseline(recovered).coverage = Max(LastRows)
<1>1. contract.coverage \in 0..LastDay /\ LastDay \in Nat
  BY RebuildConstants DEF TypeOK, Contract
<1>2. CASE contract.coverage # 0
  <2>1. Baseline(recovered) = [pc |-> "marked", mode |-> "incremental", coverage |-> contract.coverage]
    BY <1>2 DEF Baseline
  <2> QED
    BY <1>1, <1>2, <2>1 DEF Closure
<1>3. CASE contract.coverage = 0 /\ recovered /\ LastRows # {}
  <2>1. Baseline(recovered) = [pc |-> "marked", mode |-> "incremental", coverage |-> Max(LastRows)]
    BY <1>3 DEF Baseline
  <2>2. Max(LastRows) \in 0..LastDay
    BY <1>3, LastRow
  <2>3. Baseline(recovered) \in Closure
    BY <2>1, <2>2 DEF Closure
  <2>4. Baseline(recovered).pc = "marked" /\ Baseline(recovered).coverage = Max(LastRows)
    BY <2>1
  <2> QED
    BY <1>3, <2>3, <2>4
<1>4. CASE contract.coverage = 0 /\ (~recovered \/ LastRows = {})
  <2>1. Baseline(recovered) = [Idle EXCEPT !.pc = "marked"]
    BY <1>4 DEF Baseline
  <2>2. Baseline(recovered) = [pc |-> "marked", mode |-> "full", coverage |-> 0]
    BY <2>1 DEF Idle
  <2> QED
    BY <1>1, <2>2 DEF Closure
<1> QED
  BY <1>2, <1>3, <1>4

LEMMA MarkInv ==
    ASSUME Inv, NEW recovered \in BOOLEAN, Mark(recovered)
    PROVE  Inv'
<1>1. /\ task.pc = "published" /\ task' = Baseline(recovered)
      /\ contract' = [status |-> "BUILDING", coverage |-> 0]
      /\ UNCHANGED <<session, trade, splits, price, total, disclosed, stored, snapshot, resolution, faults>>
  BY DEF Mark
<1>2. TypeOK /\ Traded
  BY DEF Inv
<1>3. TypeOK'
  <2>1. contract' \in Contract
    BY <1>1, RebuildConstants DEF Contract
  <2> QED
    BY <1>1, <1>2, <2>1, BaselineType DEF TypeOK
<1>4. ~Published'
  BY <1>1 DEF Published
<1>5. Traded' /\ CashKnown' /\ OwnRun' /\ Undecided'
  BY <1>1, <1>4 DEF Inv, Traded, CashKnown, OwnRun, Undecided
<1> QED
  BY <1>3, <1>4, <1>5, Unpublished DEF Inv

(* A closure that ends without certifying leaves the label as it was.      *)
LEMMA EndsInv ==
    ASSUME Inv, task' = Idle, faults' \in 0..MaxFaults,
           UNCHANGED <<session, trade, splits, price, total, disclosed, stored, snapshot, contract, resolution>>
    PROVE  Inv'
<1>1. TypeOK'
  BY RebuildConstants DEF Inv, TypeOK, Idle, Closure
<1>2. Traded' /\ CashKnown' /\ Undecided' /\ (Published' <=> Published)
  BY DEF Inv, Traded, CashKnown, Undecided, Published
<1>3. OwnRun'
  BY DEF OwnRun, Idle
<1>4. (LabelIsFull /\ AuditTrue)'
  BY <1>2, LabelStays DEF Inv
<1> QED
  BY <1>1, <1>2, <1>3, <1>4 DEF Inv

(* The decisions of a rebuild are those that its inputs call for, the      *)
(* copied ones because a stock that is not affected has no dividend.       *)
LEMMA ResolutionRows ==
    ASSUME Inv, task.pc = "marked", AuditPasses
    PROVE  /\ Resolution \in [Dividend -> Decision]
           /\ \A x \in Dividend : Resolution[x] = IF x \in Current THEN Decide(x) ELSE NoDecision
<1>1. \A x \in Dividend : resolution[x] \in Decision /\ Decide(x) \in Decision
  BY Decided DEF Inv, TypeOK
<1>2. NoDecision \in Decision
  BY RebuildConstants DEF NoDecision, Decision
<1>3. ASSUME NEW x \in Dividend
      PROVE  Resolution[x] = IF x \in Current THEN Decide(x) ELSE NoDecision
  <2>1. Resolution[x] = IF Of[x] \notin Affected THEN resolution[x]
                        ELSE IF x \in Current THEN Decide(x) ELSE NoDecision
    BY DEF Resolution
  <2>2. CASE Of[x] \notin Affected
    <3>1. Of[x] \in Asset
      BY RebuildConstants
    <3>2. x \notin Current
      BY <2>2, <3>1, Unaffected DEF CashOf
    <3>3. Resolution[x].status = "none"
      BY <3>2 DEF AuditPasses
    <3>4. resolution[x] = NoDecision
      BY <2>1, <2>2, <3>3 DEF Inv, Undecided
    <3> QED
      BY <2>1, <2>2, <3>2, <3>4
  <2>3. CASE Of[x] \in Affected
    BY <2>1, <2>3
  <2> QED
    BY <2>2, <2>3
<1>4. Resolution = [x \in Dividend |-> Resolution[x]]
  BY DEF Resolution
<1> QED
  BY <1>1, <1>2, <1>3, <1>4

LEMMA CertifyInv ==
    ASSUME Inv, Certify
    PROVE  Inv'
<1>1. /\ task.pc = "marked" /\ AuditPasses
      /\ total' = [a \in Asset |-> IF a \in Affected THEN Recomputed(a) ELSE Appended(a)]
      /\ resolution' = Resolution
      /\ snapshot' = [snapshot EXCEPT !.same = TRUE]
      /\ contract' = [status |-> "CERTIFIED", coverage |-> session]
      /\ task' = Idle
      /\ UNCHANGED <<session, trade, splits, price, disclosed, stored, faults>>
  BY DEF Certify
<1>2. TypeOK /\ Traded /\ Current = snapshot.rows /\ session \in 0..LastDay
  BY <1>1 DEF Inv, AuditPasses, TypeOK
<1>3. /\ Current' = Current /\ \A x : Decide(x)' = Decide(x)
      /\ \A a, d : Reinvested(a, d)' = Reinvested(a, d)
  BY <1>1, SameInputs
<1>4. \A a \in Asset :
        /\ total'[a] \in [Day -> Total]
        /\ \A d \in Day : total'[a][d].cash \subseteq CashOf(a)
        /\ \A d \in trade[a] : total'[a][d].run # "none" /\ total'[a][d].cash = Reinvested(a, d)
  <2> SUFFICES ASSUME NEW a \in Asset
               PROVE  /\ total'[a] \in [Day -> Total]
                      /\ \A d \in Day : total'[a][d].cash \subseteq CashOf(a)
                      /\ \A d \in trade[a] : total'[a][d].run # "none"
                                             /\ total'[a][d].cash = Reinvested(a, d)
    OBVIOUS
  <2>1. trade[a] \subseteq Day
    BY <1>2, Sessions
  <2>2. CASE a \in Affected
    <3>1. total'[a] = Recomputed(a)
      BY <1>1, <2>2
    <3>2. /\ Recomputed(a) \in [Day -> Total]
          /\ \A d \in Day :
                Recomputed(a)[d] = IF d \notin trade[a] THEN NoTotal
                                   ELSE [run |-> "last", level |-> price[a][d], cash |-> Reinvested(a, d)]
          /\ \A d \in Day : Recomputed(a)[d].cash \subseteq CashOf(a)
      BY <1>2, RecomputedRows
    <3>3. \A d \in trade[a] :
            Recomputed(a)[d] = [run |-> "last", level |-> price[a][d], cash |-> Reinvested(a, d)]
      BY <2>1, <3>2
    <3>4. \A d \in trade[a] : Recomputed(a)[d].run # "none" /\ Recomputed(a)[d].cash = Reinvested(a, d)
      <4> TAKE d \in trade[a]
      <4>1. PICK v : v = Recomputed(a)[d]
        OBVIOUS
      <4>2. v = [run |-> "last", level |-> price[a][d], cash |-> Reinvested(a, d)]
        BY <3>3, <4>1
      <4>3. v.run # "none" /\ v.cash = Reinvested(a, d)
        BY <4>2
      <4> QED
        BY <4>1, <4>3
    <3> QED
      BY <3>1, <3>2, <3>4
  <2>3. CASE a \notin Affected
    <3>1. total'[a] = Appended(a)
      BY <1>1, <2>3
    <3>2. \A d : Reinvested(a, d) = {}
      <4>1. CashOf(a) = {}
        BY <1>1, <2>3, Unaffected
      <4> QED
        BY <4>1 DEF Reinvested
    <3>3. /\ Appended(a) \in [Day -> Total] /\ \A d \in Day : Appended(a)[d].cash = {}
          /\ \A d \in trade[a] : Appended(a)[d].run # "none"
      BY <1>1, <2>3, AppendedRows
    <3> QED
      BY <2>1, <3>1, <3>2, <3>3
  <2> QED
    BY <2>2, <2>3
<1>5. snapshot' = [end |-> snapshot.end, rows |-> snapshot.rows, same |-> TRUE]
      /\ snapshot'.rows = snapshot.rows
  BY <1>1, <1>2 DEF TypeOK, Snapshot
<1>6. TypeOK'
  <2>1. total' \in [Asset -> [Day -> Total]]
    BY <1>1, <1>4
  <2>2. resolution' \in [Dividend -> Decision]
    BY <1>1, ResolutionRows
  <2>3. snapshot' \in Snapshot
    <3>1. snapshot.end \in 0..LastDay /\ snapshot.rows \subseteq Dividend
      BY <1>2 DEF TypeOK, Snapshot
    <3> QED
      BY <1>5, <3>1 DEF Snapshot
  <2>4. contract' \in Contract
    BY <1>1, <1>2 DEF Contract
  <2>5. task' \in Closure
    BY <1>1, RebuildConstants DEF Closure, Idle
  <2> QED
    BY <1>1, <1>2, <2>1, <2>2, <2>3, <2>4, <2>5 DEF TypeOK
<1>7. CashKnown'
  <2>1. \A a \in Asset : CashOf(a) = {x \in snapshot.rows : Of[x] = a}
    BY <1>2 DEF CashOf
  <2> QED
    BY <1>1, <1>4, <1>5, <2>1 DEF Inv, CashKnown
<1>8. LabelIsFull'
  BY <1>1, <1>3, <1>4 DEF LabelIsFull
<1>9. \A x \in Dividend : resolution'[x] = IF x \in Current THEN Decide(x) ELSE NoDecision
  BY <1>1, ResolutionRows
<1>10. AuditTrue'
  BY <1>3, <1>9 DEF AuditTrue
<1>11. Undecided'
  <2>1. \A x \in Dividend : Decide(x).status # "none"
    BY <1>2, Decided
  <2> QED
    BY <1>9, <2>1 DEF Undecided
<1>12. Traded' /\ OwnRun'
  BY <1>1 DEF Inv, Traded, OwnRun, Idle
<1> QED
  BY <1>6, <1>7, <1>8, <1>10, <1>11, <1>12 DEF Inv

LEMMA InvStep == Inv /\ [Next]_vars => Inv'
<1> SUFFICES ASSUME Inv, [Next]_vars PROVE Inv'
  OBVIOUS
<1>1. ASSUME NEW traders \in SUBSET Asset, NEW split \in SUBSET Asset, LoadSession(traders, split)
      PROVE  Inv'
  BY <1>1, LoadSessionInv
<1>2. ASSUME NEW d \in Day, ReloadSession(d) PROVE Inv'
  BY <1>2, ReloadSessionInv
<1>3. ASSUME NEW x \in Dividend, PublishOther(x) PROVE Inv'
  BY <1>3, PublishOtherInv
<1>4. ASSUME NEW x \in Dividend, NEW ex \in Day, Disclose(x, ex) PROVE Inv'
  BY <1>4, DiscloseInv
<1>5. ASSUME NEW recovered \in BOOLEAN, Mark(recovered) PROVE Inv'
  BY <1>5, MarkInv
<1>6. CASE PublishActions
  BY <1>6, PublishActionsInv
<1>7. CASE Certify
  BY <1>7, CertifyInv
<1>8. CASE Reject
  <2>1. faults' \in 0..MaxFaults
    BY <1>8 DEF Reject, Inv, TypeOK
  <2> QED
    BY <1>8, <2>1, EndsInv DEF Reject
<1>9. CASE Stop
  <2>1. faults' \in 0..MaxFaults
    BY <1>9, RebuildConstants DEF Stop, Inv, TypeOK
  <2> QED
    BY <1>9, <2>1, EndsInv DEF Stop
<1>10. CASE UNCHANGED vars
  <2>1. TypeOK' /\ Traded' /\ CashKnown' /\ OwnRun' /\ Undecided' /\ (Published' <=> Published)
    BY <1>10 DEF vars, Inv, TypeOK, Traded, CashKnown, OwnRun, Undecided, Published
  <2>2. (LabelIsFull /\ AuditTrue)'
    BY <1>10, <2>1, LabelStays DEF vars, Inv
  <2> QED
    BY <2>1, <2>2 DEF Inv
<1> QED
  BY <1>1, <1>2, <1>3, <1>4, <1>5, <1>6, <1>7, <1>8, <1>9, <1>10 DEF Next, Close

LEMMA Invariant == Spec => []Inv
  BY InvInit, InvStep, PTL DEF Spec

-----------------------------------------------------------------------------
(* The state of the label, the decisions and the closure is of its type.   *)
THEOREM TypeCorrect == Spec => []TypeOK
<1>1. Inv => TypeOK
  BY DEF Inv
<1> QED
  BY <1>1, Invariant, PTL

(* What an incremental rebuild certifies is what a full one would (_rebuild *)
(* with _changed_return_asset_ids and _append_unchanged_prices), and holds *)
(* each dividend from the first trade on its ex-date or later until the    *)
(* next listing gap.                                                       *)
THEOREM Label == Spec => []LabelTrue
<1>1. Inv => LabelTrue
  BY FullPays DEF Inv, LabelTrue
<1> QED
  BY <1>1, Invariant, PTL

(* The decisions beside a certified label, those copied from the rebuild   *)
(* before included, are the ones that its inputs call for.                 *)
THEOREM Audit == Spec => []AuditTrue
<1>1. Inv => AuditTrue
  BY DEF Inv
<1> QED
  BY <1>1, Invariant, PTL

-----------------------------------------------------------------------------
(* One level.  The appended rows continue the last certified value of      *)
(* their stock as the price does, so a level price series and a baseline   *)
(* that ends at or after that value keep the label level.                  *)

(* A row without a certified value is compared with none: the uncertified  *)
(* rows may be on any level until a rebuild reaches them.                  *)
Levels ==
    \A a \in Asset : \A e \in Certified(a) : \A d \in Certified(a) :
        Continued(a, e, d) => total[a][e].level = total[a][d].level

LevelInv ==
    /\ \A a \in Asset : \A d \in Day : d \notin trade[a] => total[a][d].run = "none"
    /\ Levels

(* A row starts an appended episode exactly when it opens one.             *)
LEMMA RestartsOpen ==
    ASSUME Inv, BaselineReaches, task.pc = "marked", NEW a \in Asset, a \notin Affected,
           NEW d \in Uncertified(a)
    PROVE  /\ Restarts(a, d) <=> Opens(a, d)
           /\ \A e \in Certified(a) : e < d
<1>1. /\ TypeOK /\ Traded /\ task.coverage \in Nat
      /\ Uncertified(a) \subseteq trade[a] /\ Certified(a) \subseteq trade[a]
      /\ trade[a] \subseteq Nat /\ Gap \in Nat
      /\ \A e \in trade[a] : e \in Certified(a) \/ e \in Uncertified(a)
  BY Sessions DEF Inv, Uncertified, Certified, TypeOK, Closure
<1>2. \A f \in Uncertified(a) : \A e \in Certified(a) : e < f
  <2>1. \A f \in Uncertified(a) : f \in Nat /\ ~(f <= task.coverage)
    BY <1>1, Unaffected
  <2>2. \A e \in Certified(a) : e \in Nat /\ e <= task.coverage
    BY <1>1, Unaffected DEF BaselineReaches
  <2> QED
    BY <1>1, <2>1, <2>2
<1>3. {e \in Certified(a) : e < d} # {}
  BY Unaffected
<1>4. Before(a, d) # {} /\ d \in Nat /\ d \in trade[a]
  BY <1>1, <1>3 DEF Before
<1>5. CASE {e \in Uncertified(a) : e < d} = {}
  <2>1. \A e \in trade[a] : e < d => e \in Certified(a)
    BY <1>1, <1>5
  <2>2. Before(a, d) = {e \in Certified(a) : e < d}
    BY <1>1, <2>1 DEF Before
  <2>3. Previous(a, d) = Before(a, d)
    BY <1>5, <2>2 DEF Previous
  <2> QED
    BY <1>2, <2>3 DEF Restarts, Opens
<1>6. CASE {e \in Uncertified(a) : e < d} # {}
  <2>1. Previous(a, d) = {e \in Uncertified(a) : e < d}
    BY <1>6 DEF Previous
  <2>2. PICK q : q = Max(Before(a, d))
    OBVIOUS
  <2>3. q \in trade[a] /\ q \in Nat /\ q < d /\ \A e \in trade[a] : e < d => e <= q
    BY <1>1, <1>4, <2>2, BeforeRow
  <2>4. q \in Uncertified(a)
    <3>1. PICK f \in Uncertified(a) : f < d
      BY <1>6
    <3>2. f \in trade[a] /\ f <= q
      BY <1>1, <2>3, <3>1
    <3>3. \A e \in Certified(a) : e < f
      BY <1>2, <3>1
    <3>4. f \in Nat /\ q \in Nat
      BY <1>1, <2>3, <3>2
    <3>5. q \notin Certified(a)
      BY <3>2, <3>3, <3>4
    <3> QED
      BY <1>1, <2>3, <3>5
  <2>5. PICK p : p = Max(Previous(a, d))
    OBVIOUS
  <2>6. Previous(a, d) \subseteq 0..session /\ session \in Nat /\ Previous(a, d) # {}
    BY <1>1, <1>6, <2>1, Sessions
  <2>7. p \in Previous(a, d) /\ \A e \in Previous(a, d) : e <= p
    BY <2>5, <2>6, MaxIn
  <2>8. q <= p /\ p <= q /\ p \in Nat
    BY <1>1, <2>1, <2>3, <2>4, <2>7
  <2>9. p = q
    BY <2>3, <2>8
  <2> QED
    BY <1>2, <1>4, <2>2, <2>5, <2>6, <2>9 DEF Restarts, Opens
<1> QED
  BY <1>5, <1>6

(* The appended rows of a stock are on one level with those before them.   *)
LEMMA AppendedLevels ==
    ASSUME Inv, LevelInv, PricesLevel, BaselineReaches, task.pc = "marked", AuditPasses, NEW a \in Asset, a \notin Affected,
           NEW e \in trade[a], NEW d \in trade[a], Continued(a, e, d)
    PROVE  Appended(a)[e].level = Appended(a)[d].level
<1>1. /\ TypeOK /\ Traded /\ trade[a] \subseteq Day /\ trade[a] \subseteq Nat
      /\ e < d /\ e \in Nat /\ d \in Nat
      /\ \A f \in trade[a] : e < f /\ f <= d => ~Opens(a, f)
  BY Sessions DEF Inv, Continued
<1>2. /\ Uncertified(a) \subseteq trade[a] /\ Certified(a) \subseteq trade[a]
      /\ \A f \in trade[a] : f \in Certified(a) \/ f \in Uncertified(a)
      /\ \A f \in trade[a] : ~(f \in Certified(a) /\ f \in Uncertified(a))
  BY DEF Uncertified, Certified
<1>3. \A f \in Uncertified(a) : /\ Restarts(a, f) <=> Opens(a, f)
                                /\ \A g \in Certified(a) : g < f
  BY <1>1, RestartsOpen
<1>4. ASSUME NEW f \in Certified(a)
      PROVE  Appended(a)[f].level = total[a][f].level
  <2>1. f \in Day /\ f \notin Uncertified(a)
    BY <1>1, <1>2, <1>4
  <2>2. PICK v \in Total : v = total[a][f]
    BY <1>1, <2>1, Rows
  <2>3. Appended(a)[f] = IF v.run = "last" THEN [v EXCEPT !.run = "old"] ELSE v
    BY <2>1, <2>2 DEF Appended
  <2>4. Appended(a)[f] = [run |-> IF v.run = "last" THEN "old" ELSE v.run,
                          level |-> v.level, cash |-> v.cash]
    BY <2>3 DEF Total
  <2>5. PICK w : w = Appended(a)[f]
    OBVIOUS
  <2>6. w.level = v.level
    BY <2>4, <2>5
  <2> QED
    BY <2>2, <2>5, <2>6
<1>5. CASE d \in Certified(a)
  <2>1. e \in Certified(a)
    <3>1. e \in Uncertified(a) => d < e
      BY <1>3, <1>5
    <3> QED
      BY <1>1, <1>2, <3>1
  <2>2. total[a][e].level = total[a][d].level
    BY <1>5, <2>1 DEF LevelInv, Levels
  <2> QED
    BY <1>4, <1>5, <2>1, <2>2
<1>6. CASE d \in Uncertified(a)
  <2>1. PICK s \in Certified(a) :
            /\ s \in Day /\ SeedDay(a) = s
            /\ s < Min(Uncertified(a)) /\ Min(Uncertified(a)) \in Uncertified(a)
            /\ \A f \in Uncertified(a) : Min(Uncertified(a)) <= f
            /\ \A g \in Certified(a) : g < Min(Uncertified(a)) => g <= s
    BY <1>6, SeedRow
  <2>2. s \in trade[a] /\ s \in Nat /\ s < d /\ \A g \in Certified(a) : g <= s
    BY <1>1, <1>2, <1>3, <1>6, <2>1
  <2>3. ASSUME NEW f \in Uncertified(a)
        PROVE  Appended(a)[f].level =
                 IF \E g \in Uncertified(a) : g <= f /\ Restarts(a, g)
                 THEN price[a][f] ELSE total[a][s].level + (price[a][f] - price[a][s])
    <3>1. f \in Day
      BY <1>1, <1>2, <2>3
    <3>2. Appended(a)[f] = IF \E g \in Uncertified(a) : g <= f /\ Restarts(a, g)
                           THEN [run |-> "last", level |-> price[a][f], cash |-> {}]
                           ELSE [run |-> "last", cash |-> total[a][s].cash,
                                 level |-> total[a][s].level + (price[a][f] - price[a][s])]
      BY <2>1, <2>3, <3>1 DEF Appended
    <3>3. PICK w : w = Appended(a)[f]
      OBVIOUS
    <3>4. CASE \E g \in Uncertified(a) : g <= f /\ Restarts(a, g)
      <4>1. w = [run |-> "last", level |-> price[a][f], cash |-> {}]
        BY <3>2, <3>3, <3>4
      <4>2. w.level = price[a][f]
        BY <4>1
      <4> QED
        BY <3>3, <3>4, <4>2
    <3>5. CASE ~\E g \in Uncertified(a) : g <= f /\ Restarts(a, g)
      <4>1. w = [run |-> "last", cash |-> total[a][s].cash,
                 level |-> total[a][s].level + (price[a][f] - price[a][s])]
        BY <3>2, <3>3, <3>5
      <4>2. w.level = total[a][s].level + (price[a][f] - price[a][s])
        BY <4>1
      <4> QED
        BY <3>3, <3>5, <4>2
    <3> QED
      BY <3>4, <3>5
  <2>4. CASE e \in Certified(a)
    <3>1. \A g \in Uncertified(a) : g <= d => ~Restarts(a, g)
      <4>1. \A g \in Uncertified(a) : g \in trade[a] /\ e < g
        BY <1>2, <1>3, <2>4
      <4> QED
        BY <1>1, <1>3, <4>1
    <3>2. Appended(a)[d].level = total[a][s].level
      <4>1. Appended(a)[d].level = total[a][s].level + (price[a][d] - price[a][s])
        BY <1>6, <2>3, <3>1
      <4>2. ASSUME NEW f \in trade[a], s < f, f <= d PROVE ~Opens(a, f)
        <5>1. f \in Uncertified(a)
          BY <1>1, <1>2, <2>2, <4>2
        <5> QED
          BY <1>3, <3>1, <4>2, <5>1
      <4>3. price[a][s] = price[a][d]
        BY <2>2, <4>2 DEF PricesLevel, Continued
      <4>4. price[a][s] \in Nat /\ total[a][s].level \in Int
        BY <1>1, <2>1, Sessions, Rows DEF Total
      <4> QED
        BY <4>1, <4>3, <4>4
    <3>3. e <= s
      BY <2>2, <2>4
    <3>4. total[a][e].level = total[a][s].level
      <4>1. CASE e = s
        BY <4>1
      <4>2. CASE e < s
        <5>1. \A f \in trade[a] : e < f /\ f <= s => ~Opens(a, f)
          <6>1. \A f \in trade[a] : f <= s => f <= d
            BY <1>1, <2>2
          <6> QED
            BY <1>1, <6>1
        <5>2. Continued(a, e, s)
          BY <4>2, <5>1 DEF Continued
        <5> QED
          BY <2>4, <5>2 DEF LevelInv, Levels
      <4> QED
        BY <1>1, <2>2, <3>3, <4>1, <4>2
    <3> QED
      BY <1>4, <2>4, <3>2, <3>4
  <2>5. CASE e \in Uncertified(a)
    <3>1. (\E g \in Uncertified(a) : g <= e /\ Restarts(a, g))
            <=> (\E g \in Uncertified(a) : g <= d /\ Restarts(a, g))
      <4>1. \A g \in Uncertified(a) : g \in Nat /\ g \in trade[a]
        BY <1>1, <1>2
      <4>2. \A g \in Uncertified(a) : g <= e => g <= d
        BY <1>1, <4>1
      <4>3. \A g \in Uncertified(a) : g <= d /\ Restarts(a, g) => g <= e
        BY <1>1, <1>3, <4>1
      <4> QED
        BY <4>2, <4>3
    <3>2. price[a][e] = price[a][d]
      BY DEF PricesLevel
    <3> QED
      BY <1>6, <2>3, <2>5, <3>1, <3>2
  <2> QED
    BY <1>2, <2>4, <2>5
<1> QED
  BY <1>2, <1>5, <1>6

LEMMA LevelInit == Init => LevelInv
<1> SUFFICES ASSUME Init PROVE LevelInv
  OBVIOUS
<1>1. \A a \in Asset : \A d \in Day : total[a][d].run = "none"
  BY DEF Init, NoTotal
<1>2. \A a \in Asset : Certified(a) = {}
  BY DEF Init, Certified
<1> QED
  BY <1>1, <1>2 DEF LevelInv, Levels

(* Steps that leave the rows and the values alone.                         *)
LEMMA SameValues ==
    ASSUME UNCHANGED <<trade, total>>
    PROVE  /\ \A a : Certified(a)' = Certified(a)
           /\ LastRows' = LastRows
           /\ LevelInv' <=> LevelInv
<1>1. (\A a : Certified(a)' = Certified(a)) /\ LastRows' = LastRows
  BY DEF Certified, LastRows
<1>2. \A a, e, d : Continued(a, e, d)' <=> Continued(a, e, d)
  <2>1. \A a, d : Before(a, d)' = Before(a, d)
    BY DEF Before
  <2>2. \A a, d : Opens(a, d)' <=> Opens(a, d)
    BY <2>1 DEF Opens
  <2> QED
    BY <2>2 DEF Continued
<1> QED
  BY <1>1, <1>2 DEF LevelInv, Levels

LEMMA LoadSessionLevel ==
    ASSUME Inv, LevelInv, NEW traders \in SUBSET Asset, NEW split \in SUBSET Asset,
           LoadSession(traders, split)
    PROVE  LevelInv'
<1>1. /\ session' = session + 1 /\ Always \subseteq traders /\ task.pc # "marked"
      /\ trade' = [a \in Asset |-> IF a \in traders THEN trade[a] \cup {session + 1} ELSE trade[a]]
      /\ contract' = Demoted /\ UNCHANGED <<total, task>>
  BY DEF LoadSession
<1>2. TypeOK /\ Traded /\ session \in Nat
  BY Sessions DEF Inv
<1>3. \A a \in Asset :
        /\ trade[a] \subseteq trade'[a] /\ trade'[a] \subseteq trade[a] \cup {session + 1}
        /\ session + 1 \notin trade[a]
        /\ \A d \in trade[a] : d \in Nat /\ d < session + 1
  <2>1. \A a \in Asset : \A d \in trade[a] : d \in Nat /\ d <= session
    BY <1>2, Sessions
  <2>2. \A d \in Nat : d <= session => d < session + 1 /\ d # session + 1
    BY <1>2
  <2>3. \A a \in Asset : trade[a] \subseteq trade'[a] /\ trade'[a] \subseteq trade[a] \cup {session + 1}
    BY <1>1
  <2> QED
    BY <2>1, <2>2, <2>3
<1>4. session + 1 \in Day
  BY <1>2, RebuildConstants DEF Day, LoadSession, TypeOK
<1>5. \A a \in Asset : total[a][session + 1].run = "none"
  BY <1>3, <1>4 DEF LevelInv
<1>6. \A a \in Asset : Certified(a)' = Certified(a)
  <2> TAKE a \in Asset
  <2>1. Certified(a)' = {d \in trade'[a] : total[a][d].run # "none"}
    BY <1>1 DEF Certified
  <2> QED
    BY <1>3, <1>5, <2>1 DEF Certified
<1>9. Levels'
  <2> SUFFICES ASSUME NEW a \in Asset, NEW e \in Certified(a), NEW d \in Certified(a),
                      Continued(a, e, d)'
               PROVE  total[a][e].level = total[a][d].level
    BY <1>1, <1>6 DEF Levels
  <2>1. e \in trade[a] /\ d \in trade[a]
    BY DEF Certified
  <2>2. ASSUME NEW f \in trade[a] PROVE Opens(a, f)' <=> Opens(a, f)
    <3>1. \A g \in trade'[a] : g < f => g \in trade[a]
      BY <1>2, <1>3
    <3>2. Before(a, f)' = {g \in trade'[a] : g < f}
      BY DEF Before
    <3>3. Before(a, f)' = Before(a, f)
      BY <1>3, <3>1, <3>2 DEF Before
    <3> QED
      BY <3>3 DEF Opens
  <2>3. e < d /\ \A f \in trade'[a] : e < f /\ f <= d => ~Opens(a, f)'
    BY DEF Continued
  <2>4. Continued(a, e, d)
    BY <1>3, <2>2, <2>3 DEF Continued
  <2> QED
    BY <2>4 DEF LevelInv, Levels
<1>12. \A a \in Asset : \A d \in Day : d \notin trade'[a] => total[a][d].run = "none"
  BY <1>3 DEF LevelInv
<1> QED
  BY <1>1, <1>9, <1>12 DEF LevelInv

LEMMA ReloadSessionLevel ==
    ASSUME Inv, LevelInv, NEW d \in Day, ReloadSession(d)
    PROVE  LevelInv'
<1>1. /\ total' = [a \in Asset |->
            IF d \in trade[a] THEN [total[a] EXCEPT ![d] = NoTotal] ELSE total[a]]
      /\ contract' = Demoted /\ task.pc # "marked"
      /\ UNCHANGED <<session, trade, splits, stored, task>>
  BY DEF ReloadSession
<1>2. TypeOK /\ Traded
  BY DEF Inv
<1>3. \A a \in Asset : trade[a] \subseteq Day
  BY <1>2, Sessions
<1>4. \A a \in Asset : \A e \in Day :
        /\ e = d /\ d \in trade[a] => total'[a][e].run = "none"
        /\ e # d \/ d \notin trade[a] => total'[a][e] = total[a][e]
  BY <1>1, <1>2, Rows DEF NoTotal
<1>5. \A a \in Asset : Certified(a)' = Certified(a) \ {d}
  <2> TAKE a \in Asset
  <2>1. Certified(a)' = {e \in trade[a] : total'[a][e].run # "none"}
    BY <1>1 DEF Certified
  <2> QED
    BY <1>3, <1>4, <2>1 DEF Certified
<1>7. Levels'
  <2> SUFFICES ASSUME NEW a \in Asset, NEW e \in Certified(a) \ {d}, NEW g \in Certified(a) \ {d},
                      Continued(a, e, g)'
               PROVE  total'[a][e].level = total'[a][g].level
    BY <1>5 DEF Levels
  <2>1. \A f : Opens(a, f)' <=> Opens(a, f)
    <3>1. \A f : Before(a, f)' = Before(a, f)
      BY <1>1 DEF Before
    <3> QED
      BY <3>1 DEF Opens
  <2>2. Continued(a, e, g)
    BY <1>1, <2>1 DEF Continued
  <2>3. total[a][e].level = total[a][g].level
    BY <2>2 DEF LevelInv, Levels
  <2>4. e \in Day /\ g \in Day /\ e # d /\ g # d
    BY <1>3 DEF Certified
  <2> QED
    BY <1>4, <2>3, <2>4
<1>10. \A a \in Asset : \A e \in Day : e \notin trade[a] => total'[a][e].run = "none"
  BY <1>4 DEF LevelInv
<1> QED
  BY <1>1, <1>7, <1>10 DEF LevelInv

LEMMA CertifyLevel ==
    ASSUME Inv, LevelInv, PricesLevel, BaselineReaches, Certify
    PROVE  LevelInv'
<1>1. /\ task.pc = "marked" /\ AuditPasses
      /\ total' = [a \in Asset |-> IF a \in Affected THEN Recomputed(a) ELSE Appended(a)]
      /\ contract' = [status |-> "CERTIFIED", coverage |-> session]
      /\ task' = Idle
      /\ UNCHANGED <<session, trade, splits, price, disclosed, stored, faults>>
  BY DEF Certify
<1>2. TypeOK /\ Traded
  BY DEF Inv
<1>3. \A a \in Asset : trade[a] \subseteq Day /\ \A d \in trade[a] : d \in Nat /\ d <= session
  BY <1>2, Sessions
<1>4. \A a \in Asset : Certified(a)' \subseteq trade[a]
  BY <1>1 DEF Certified
<1>5. ASSUME NEW a \in Asset, a \in Affected, NEW d \in Day
      PROVE  IF d \in trade[a] THEN total'[a][d].run = "last" /\ total'[a][d].level = price[a][d]
             ELSE total'[a][d].run = "none"
  <2>1. PICK v : v = total'[a][d]
    OBVIOUS
  <2>2. v = IF d \notin trade[a] THEN NoTotal
            ELSE [run |-> "last", level |-> price[a][d], cash |-> Reinvested(a, d)]
    BY <1>1, <1>2, <1>5, <2>1, RecomputedRows
  <2>3. CASE d \in trade[a]
    <3>1. v = [run |-> "last", level |-> price[a][d], cash |-> Reinvested(a, d)]
      BY <2>2, <2>3
    <3>2. v.run = "last" /\ v.level = price[a][d]
      BY <3>1
    <3> QED
      BY <2>1, <2>3, <3>2
  <2>4. CASE d \notin trade[a]
    BY <2>1, <2>2, <2>4 DEF NoTotal
  <2> QED
    BY <2>3, <2>4
<1>6. \A a \in Asset : \A d \in Day : d \notin trade[a] => total'[a][d].run = "none"
  <2> SUFFICES ASSUME NEW a \in Asset, NEW d \in Day, d \notin trade[a]
               PROVE  total'[a][d].run = "none"
    OBVIOUS
  <2>1. CASE a \in Affected
    BY <1>5, <2>1
  <2>2. CASE a \notin Affected
    <3>1. d \notin Uncertified(a) /\ total[a][d].run = "none"
      BY DEF Uncertified, LevelInv
    <3>2. Appended(a)[d] = total[a][d]
      BY <3>1 DEF Appended
    <3> QED
      BY <1>1, <2>2, <3>1, <3>2
  <2> QED
    BY <2>1, <2>2
<1>10. Levels'
  <2> SUFFICES ASSUME NEW a \in Asset, NEW e \in trade[a], NEW d \in trade[a],
                      Continued(a, e, d)'
               PROVE  total'[a][e].level = total'[a][d].level
    BY <1>4 DEF Levels
  <2>1. \A f : Opens(a, f)' <=> Opens(a, f)
    BY <1>1, SameInputs
  <2>2. Continued(a, e, d)
    BY <1>1, <2>1 DEF Continued
  <2>3. CASE a \in Affected
    BY <1>3, <1>5, <2>2, <2>3 DEF PricesLevel
  <2>4. CASE a \notin Affected
    BY <1>1, <2>2, <2>4, AppendedLevels
  <2> QED
    BY <2>3, <2>4
<1> QED
  BY <1>1, <1>6, <1>10 DEF LevelInv

LEMMA LevelStep == Inv /\ LevelInv /\ PricesLevel /\ BaselineReaches /\ [Next]_vars => LevelInv'
<1> SUFFICES ASSUME Inv, LevelInv, PricesLevel, BaselineReaches, [Next]_vars PROVE LevelInv'
  OBVIOUS
<1>1. ASSUME NEW traders \in SUBSET Asset, NEW split \in SUBSET Asset, LoadSession(traders, split)
      PROVE  LevelInv'
  BY <1>1, LoadSessionLevel
<1>2. ASSUME NEW d \in Day, ReloadSession(d) PROVE LevelInv'
  BY <1>2, ReloadSessionLevel
<1>3. CASE Certify
  BY <1>3, CertifyLevel
<1>4. ASSUME UNCHANGED <<trade, total>> PROVE LevelInv'
  BY <1>4, SameValues
<1>5. CASE \E x \in Dividend : PublishOther(x) \/ \E ex \in Day : Disclose(x, ex)
  BY <1>4, <1>5 DEF PublishOther, Disclose
<1>6. CASE PublishActions \/ Reject \/ Stop \/ \E recovered \in BOOLEAN : Mark(recovered)
  BY <1>4, <1>6 DEF PublishActions, Reject, Stop, Mark
<1>7. CASE UNCHANGED vars
  BY <1>4, <1>7 DEF vars
<1> QED
  BY <1>1, <1>2, <1>3, <1>5, <1>6, <1>7 DEF Next, Close

(* While the prices are level and every incremental baseline reaches the   *)
(* certified values, the return between any two rows of a listing episode  *)
(* is real, whatever was split, suspended, reloaded and stopped            *)
(* (_append_unchanged_prices copies the last certified value).             *)
THEOREM Level == Spec => OneLevel
<1>1. Inv /\ LevelInv => Levelled
  <2> SUFFICES ASSUME Inv, LevelInv, Published, NEW a \in Asset,
                      NEW e \in trade[a], NEW d \in trade[a], Continued(a, e, d)
               PROVE  total[a][e].level = total[a][d].level
    BY DEF Levelled
  <2>1. e \in Certified(a) /\ d \in Certified(a)
    BY DEF Inv, LabelIsFull, Certified
  <2> QED
    BY <2>1 DEF LevelInv, Levels
<1> QED
  BY <1>1, Invariant, LevelInit, LevelStep, PTL DEF Spec, OneLevel

-----------------------------------------------------------------------------
(* How far the baseline reaches.  One that is recovered from the last run  *)
(* ends at the last certified value if that run recomputed a stock that    *)
(* trades on every session.                                                *)

(* Whenever a rebuild is incremental, a stock that trades on every session *)
(* has a cash dividend in the newest action run.                           *)
MarketPays ==
    task.pc = "marked" /\ task.mode = "incremental" =>
        \E x \in Current : Of[x] \in Always

Reaches(day) == \A a \in Asset : \A d \in Certified(a) : d <= day

ReachInv ==
    /\ \A a \in Always : trade[a] = 1..session
    /\ \A a \in Asset : \A d \in Day : d \notin trade[a] => total[a][d].run = "none"
    /\ \A a \in Asset : Certified(a) \subseteq LastRows
    /\ contract.coverage # 0 => Reaches(contract.coverage)
    /\ BaselineReaches

LEMMA ReachInit == Init => ReachInv
<1> SUFFICES ASSUME Init PROVE ReachInv
  OBVIOUS
<1>1. \A a \in Asset : trade[a] = {} /\ \A d \in Day : total[a][d].run = "none"
  BY DEF Init, NoTotal
<1>2. \A a \in Asset : Certified(a) = {}
  BY <1>1 DEF Certified
<1>3. \A a \in Always : trade[a] = 1..session
  <2>1. 1..session = {}
    BY DEF Init
  <2> QED
    BY <1>1, <2>1, RebuildConstants
<1> QED
  BY <1>1, <1>2, <1>3 DEF ReachInv, Reaches, BaselineReaches, Init, Idle

LEMMA ReachStays ==
    ASSUME Inv, ReachInv, UNCHANGED <<session, trade, total>>,
           contract'.coverage \in {0, contract.coverage},
           task'.pc = "marked" /\ task'.mode = "incremental" => Reaches(task'.coverage)
    PROVE  ReachInv'
<1>1. (\A a : Certified(a)' = Certified(a)) /\ LastRows' = LastRows
  BY SameValues
<1>2. contract'.coverage # 0 => Reaches(contract'.coverage)
  BY DEF ReachInv
<1>3. (contract.coverage # 0 => Reaches(contract.coverage))'
  BY <1>1, <1>2 DEF Reaches
<1>4. BaselineReaches'
  BY <1>1 DEF Reaches, BaselineReaches
<1> QED
  BY <1>1, <1>3, <1>4 DEF ReachInv

LEMMA LoadSessionReach ==
    ASSUME Inv, ReachInv, NEW traders \in SUBSET Asset, NEW split \in SUBSET Asset,
           LoadSession(traders, split)
    PROVE  ReachInv'
<1>1. /\ session' = session + 1 /\ Always \subseteq traders /\ task.pc # "marked"
      /\ trade' = [a \in Asset |-> IF a \in traders THEN trade[a] \cup {session + 1} ELSE trade[a]]
      /\ contract' = Demoted /\ UNCHANGED <<total, task>>
  BY DEF LoadSession
<1>2. TypeOK /\ Traded /\ session \in Nat
  BY Sessions DEF Inv
<1>3. \A a \in Asset :
        /\ trade[a] \subseteq trade'[a] /\ trade'[a] \subseteq trade[a] \cup {session + 1}
        /\ session + 1 \notin trade[a]
        /\ \A d \in trade[a] : d \in Nat /\ d < session + 1
  <2>1. \A a \in Asset : \A d \in trade[a] : d \in Nat /\ d <= session
    BY <1>2, Sessions
  <2>2. \A d \in Nat : d <= session => d < session + 1 /\ d # session + 1
    BY <1>2
  <2>3. \A a \in Asset : trade[a] \subseteq trade'[a] /\ trade'[a] \subseteq trade[a] \cup {session + 1}
    BY <1>1
  <2> QED
    BY <2>1, <2>2, <2>3
<1>4. session + 1 \in Day
  BY <1>2, RebuildConstants DEF Day, LoadSession, TypeOK
<1>5. \A a \in Asset : total[a][session + 1].run = "none"
  BY <1>3, <1>4 DEF ReachInv
<1>6. \A a \in Asset : Certified(a)' = Certified(a)
  <2> TAKE a \in Asset
  <2>1. Certified(a)' = {d \in trade'[a] : total[a][d].run # "none"}
    BY <1>1 DEF Certified
  <2> QED
    BY <1>3, <1>5, <2>1 DEF Certified
<1>7. LastRows' = LastRows
  <2>1. LastRows' = UNION {{d \in trade'[a] : total[a][d].run = "last"} : a \in Asset}
    BY <1>1 DEF LastRows
  <2>2. ASSUME NEW a \in Asset
        PROVE  {d \in trade'[a] : total[a][d].run = "last"} = {d \in trade[a] : total[a][d].run = "last"}
    BY <1>3, <1>5
  <2> QED
    BY <2>1, <2>2 DEF LastRows
<1>8. \A a \in Always : trade'[a] = 1..session'
  <2>1. \A a \in Always : a \in Asset /\ trade'[a] = trade[a] \cup {session + 1} /\ trade[a] = 1..session
    BY <1>1, RebuildConstants DEF ReachInv
  <2>2. (1..session) \cup {session + 1} = 1..(session + 1)
    BY <1>2
  <2> QED
    BY <1>1, <2>1, <2>2
<1>10. contract'.coverage = contract.coverage
  BY <1>1, <1>2, DemotedType
<1>11. (contract.coverage # 0 => Reaches(contract.coverage))'
  BY <1>6, <1>10 DEF ReachInv, Reaches
<1>9. \A a \in Asset : \A d \in Day : d \notin trade'[a] => total[a][d].run = "none"
  BY <1>3 DEF ReachInv
<1>12. BaselineReaches'
  BY <1>1 DEF BaselineReaches
<1> QED
  BY <1>1, <1>6, <1>7, <1>8, <1>9, <1>11, <1>12 DEF ReachInv

LEMMA ReloadSessionReach ==
    ASSUME Inv, ReachInv, NEW d \in Day, ReloadSession(d)
    PROVE  ReachInv'
<1>1. /\ total' = [a \in Asset |->
            IF d \in trade[a] THEN [total[a] EXCEPT ![d] = NoTotal] ELSE total[a]]
      /\ contract' = Demoted /\ task.pc # "marked"
      /\ UNCHANGED <<session, trade, splits, stored, task>>
  BY DEF ReloadSession
<1>2. TypeOK /\ Traded
  BY DEF Inv
<1>3. \A a \in Asset : trade[a] \subseteq Day
  BY <1>2, Sessions
<1>4. \A a \in Asset : \A e \in Day :
        /\ e = d /\ d \in trade[a] => total'[a][e].run = "none"
        /\ e # d \/ d \notin trade[a] => total'[a][e] = total[a][e]
  BY <1>1, <1>2, Rows DEF NoTotal
<1>5. \A a \in Asset : Certified(a)' = Certified(a) \ {d}
  <2> TAKE a \in Asset
  <2>1. Certified(a)' = {e \in trade[a] : total'[a][e].run # "none"}
    BY <1>1 DEF Certified
  <2> QED
    BY <1>3, <1>4, <2>1 DEF Certified
<1>6. LastRows' = LastRows \ {d}
  <2>1. LastRows' = UNION {{e \in trade[a] : total'[a][e].run = "last"} : a \in Asset}
    BY <1>1 DEF LastRows
  <2>2. ASSUME NEW a \in Asset
        PROVE  {e \in trade[a] : total'[a][e].run = "last"}
                 = {e \in trade[a] : total[a][e].run = "last"} \ {d}
    BY <1>3, <1>4
  <2>3. LastRows \ {d} = UNION {{e \in trade[a] : total[a][e].run = "last"} \ {d} : a \in Asset}
    BY DEF LastRows
  <2> QED
    BY <2>1, <2>2, <2>3
<1>8. contract'.coverage = contract.coverage
  BY <1>1, <1>2, DemotedType
<1>9. (contract.coverage # 0 => Reaches(contract.coverage))'
  BY <1>5, <1>8 DEF ReachInv, Reaches
<1>10. \A a \in Asset : \A e \in Day : e \notin trade[a] => total'[a][e].run = "none"
  BY <1>4 DEF ReachInv
<1>11. BaselineReaches'
  BY <1>1 DEF BaselineReaches
<1> QED
  BY <1>1, <1>5, <1>6, <1>9, <1>10, <1>11 DEF ReachInv

LEMMA MarkReach ==
    ASSUME Inv, ReachInv, NEW recovered \in BOOLEAN, Mark(recovered)
    PROVE  ReachInv'
<1>1. /\ task' = Baseline(recovered) /\ contract' = [status |-> "BUILDING", coverage |-> 0]
      /\ UNCHANGED <<session, trade, total>>
  BY DEF Mark
<1>2. TypeOK /\ Traded
  BY DEF Inv
<1>3. LastRows # {} => Reaches(Max(LastRows))
  BY <1>2, LastRow DEF ReachInv, Reaches
<1>4. task'.mode = "incremental" => Reaches(task'.coverage)
  BY <1>1, <1>2, <1>3, BaselineType DEF ReachInv
<1>5. contract'.coverage = 0
  BY <1>1
<1> QED
  BY <1>1, <1>4, <1>5, ReachStays

LEMMA CertifyReach ==
    ASSUME Inv, ReachInv, MarketPays, Certify
    PROVE  ReachInv'
<1>1. /\ task.pc = "marked" /\ AuditPasses
      /\ total' = [a \in Asset |-> IF a \in Affected THEN Recomputed(a) ELSE Appended(a)]
      /\ contract' = [status |-> "CERTIFIED", coverage |-> session]
      /\ task' = Idle
      /\ UNCHANGED <<session, trade, splits, price, disclosed, stored, faults>>
  BY DEF Certify
<1>2. TypeOK /\ Traded
  BY DEF Inv
<1>3. \A a \in Asset : trade[a] \subseteq Day /\ \A d \in trade[a] : d \in Nat /\ d <= session
  BY <1>2, Sessions
<1>4. \A a \in Asset : Certified(a)' \subseteq trade[a]
  BY <1>1 DEF Certified
<1>5. ASSUME NEW a \in Asset, a \in Affected, NEW d \in Day
      PROVE  IF d \in trade[a] THEN total'[a][d].run = "last" ELSE total'[a][d].run = "none"
  <2>1. PICK v : v = total'[a][d]
    OBVIOUS
  <2>2. v = IF d \notin trade[a] THEN NoTotal
            ELSE [run |-> "last", level |-> price[a][d], cash |-> Reinvested(a, d)]
    BY <1>1, <1>2, <1>5, <2>1, RecomputedRows
  <2>3. v.run = IF d \notin trade[a] THEN "none" ELSE "last"
    BY <2>2 DEF NoTotal
  <2> QED
    BY <2>1, <2>3
<1>6. \A a \in Asset : \A d \in Day : d \notin trade[a] => total'[a][d].run = "none"
  <2> SUFFICES ASSUME NEW a \in Asset, NEW d \in Day, d \notin trade[a]
               PROVE  total'[a][d].run = "none"
    OBVIOUS
  <2>1. CASE a \in Affected
    BY <1>5, <2>1
  <2>2. CASE a \notin Affected
    <3>1. d \notin Uncertified(a) /\ total[a][d].run = "none"
      BY DEF Uncertified, ReachInv
    <3>2. Appended(a)[d] = total[a][d]
      BY <3>1 DEF Appended
    <3> QED
      BY <1>1, <2>2, <3>1, <3>2
  <2> QED
    BY <2>1, <2>2
<1>7. \A b \in Affected \cap Asset : \A d \in trade[b] : d \in LastRows'
  <2> SUFFICES ASSUME NEW b \in Affected \cap Asset, NEW d \in trade[b] PROVE d \in LastRows'
    OBVIOUS
  <2>1. total'[b][d].run = "last" /\ d \in trade'[b]
    BY <1>1, <1>3, <1>5
  <2>2. d \in {e \in trade'[b] : total'[b][e].run = "last"}
    BY <2>1
  <2> QED
    BY <2>2 DEF LastRows
<1>8. \A a \in Asset : Certified(a)' \subseteq LastRows'
  <2>1. CASE task.mode = "full"
    BY <1>4, <1>7, <2>1 DEF Affected
  <2>2. CASE task.mode = "incremental"
    <3>1. PICK x \in Current : Of[x] \in Always
      BY <1>1, <2>2 DEF MarketPays
    <3>2. ~snapshot.same
      BY <1>1 DEF Inv, OwnRun
    <3>3. Of[x] \in Affected \cap Asset
      BY <2>2, <3>1, <3>2, RebuildConstants DEF Affected, Changed
    <3>4. trade[Of[x]] = 1..session
      BY <3>1 DEF ReachInv
    <3>5. \A a \in Asset : trade[a] \subseteq 1..session
      BY <1>2 DEF Traded
    <3> QED
      BY <1>4, <1>7, <3>3, <3>4, <3>5
  <2> QED
    BY <1>2, <2>1, <2>2 DEF TypeOK, Closure
<1>9. (contract.coverage # 0 => Reaches(contract.coverage))'
  <2>1. contract'.coverage = session
    BY <1>1
  <2> QED
    BY <1>3, <1>4, <2>1 DEF Reaches
<1>11. \A a \in Always : trade'[a] = 1..session'
  BY <1>1 DEF ReachInv
<1>12. task'.pc # "marked"
  BY <1>1 DEF Idle
<1> QED
  BY <1>1, <1>6, <1>8, <1>9, <1>11, <1>12 DEF ReachInv, BaselineReaches

LEMMA ReachStep == Inv /\ ReachInv /\ MarketPays /\ [Next]_vars => ReachInv'
<1> SUFFICES ASSUME Inv, ReachInv, MarketPays, [Next]_vars PROVE ReachInv'
  OBVIOUS
<1>1. ASSUME NEW traders \in SUBSET Asset, NEW split \in SUBSET Asset, LoadSession(traders, split)
      PROVE  ReachInv'
  BY <1>1, LoadSessionReach
<1>2. ASSUME NEW d \in Day, ReloadSession(d) PROVE ReachInv'
  BY <1>2, ReloadSessionReach
<1>3. ASSUME NEW x \in Dividend, PublishOther(x) PROVE ReachInv'
  <2>1. UNCHANGED <<session, trade, total, task>> /\ contract' = Demoted
    BY <1>3 DEF PublishOther
  <2>2. contract'.coverage = contract.coverage
    BY <2>1, DemotedType DEF Inv
  <2>3. task.pc = "marked" /\ task.mode = "incremental" => Reaches(task.coverage)
    BY DEF ReachInv, BaselineReaches, Reaches
  <2> QED
    BY <2>1, <2>2, <2>3, ReachStays
<1>4. ASSUME UNCHANGED <<session, trade, total, contract, task>> PROVE ReachInv'
  <2>1. task.pc = "marked" /\ task.mode = "incremental" => Reaches(task.coverage)
    BY DEF ReachInv, BaselineReaches, Reaches
  <2> QED
    BY <1>4, <2>1, ReachStays
<1>5. ASSUME UNCHANGED <<session, trade, total, contract>>, task' = Idle PROVE ReachInv'
  BY <1>5, ReachStays DEF Idle
<1>6. ASSUME NEW recovered \in BOOLEAN, Mark(recovered) PROVE ReachInv'
  BY <1>6, MarkReach
<1>7. CASE PublishActions
  <2>1. UNCHANGED <<session, trade, total>> /\ contract' = Demoted
        /\ task' = [Idle EXCEPT !.pc = "published"]
    BY <1>7 DEF PublishActions
  <2>2. contract'.coverage = contract.coverage
    BY <2>1, DemotedType DEF Inv
  <2>3. task'.pc = "published"
    BY <2>1 DEF Idle
  <2> QED
    BY <2>1, <2>2, <2>3, ReachStays
<1>8. CASE Certify
  BY <1>8, CertifyReach
<1>9. CASE Reject \/ Stop
  BY <1>5, <1>9 DEF Reject, Stop
<1>10. ASSUME NEW x \in Dividend, NEW ex \in Day, Disclose(x, ex) PROVE ReachInv'
  BY <1>4, <1>10 DEF Disclose
<1>11. CASE UNCHANGED vars
  BY <1>4, <1>11 DEF vars
<1> QED
  BY <1>1, <1>2, <1>3, <1>6, <1>7, <1>8, <1>9, <1>10, <1>11 DEF Next, Close

(* While a stock that trades on every session pays a dividend, no          *)
(* incremental rebuild works from a baseline that ends before a certified  *)
(* value (_incremental_baseline), whatever was stopped after the contract  *)
(* had been erased.                                                        *)
THEOREM Reached == Spec /\ []MarketPays => []BaselineReaches
<1>1. ReachInv => BaselineReaches
  BY DEF ReachInv
<1> QED
  BY <1>1, Invariant, ReachInit, ReachStep, PTL DEF Spec

=============================================================================
