-------------------------- MODULE FmpIntakeProofs --------------------------
(***************************************************************************)
(* Theorems about FmpIntake for any days, securities, tickers and          *)
(* histories of them, backfills and stops.                                 *)
(***************************************************************************)
EXTENDS FmpIntake, FiniteSetTheorems, WellFoundedInduction, TLAPS

-----------------------------------------------------------------------------
(* Numbers.                                                                *)

\* A set of numbers has a least one.
LEMMA Least ==
    ASSUME NEW T, T \subseteq Nat, T # {}
    PROVE  \E n \in T : \A m \in T : n <= m
<1> DEFINE R == OpToRel(<, Nat)
<1>1. IsWellFoundedOn(R, Nat)
  BY NatLessThanWellFounded
<1> HIDE DEF R
<1>2. PICK n \in T : \A m \in T : <<m, n>> \notin R
  BY <1>1, WFMin
<1>3. \A m \in T : m \in Nat /\ n \in Nat /\ ~(m < n)
  BY <1>2 DEF R, OpToRel
<1> QED
  BY <1>2, <1>3

\* A bounded set of numbers has a greatest one.
LEMMA Greatest ==
    ASSUME NEW N \in Nat, NEW T, T \subseteq 0 .. N, T # {}
    PROVE  \E n \in T : \A m \in T : m <= n
<1> DEFINE B == {b \in 0 .. N : \A m \in T : m <= b}
<1>1. N \in B /\ B \subseteq Nat
  OBVIOUS
<1>2. PICK b \in B : \A c \in B : b <= c
  <2> HIDE DEF B
  <2> QED
    BY <1>1, Least
<1>3. b \in T
  <2> SUFFICES ASSUME b \notin T PROVE FALSE
    OBVIOUS
  <2>1. \A m \in T : m \in Nat /\ m <= b /\ m # b
    BY <1>2
  <2>2. PICK t \in T : t \in Nat /\ t <= b /\ t # b
    BY <2>1
  <2>3. b \in 0 .. N /\ b \in Nat /\ b - 1 \in 0 .. N
    BY <1>2, <2>2
  <2>4. \A m \in T : m <= b - 1
    BY <2>1, <2>3
  <2>5. b - 1 \in B /\ ~(b <= b - 1)
    BY <2>3, <2>4
  <2> QED
    BY <1>2, <2>5
<1> QED
  BY <1>2, <1>3

\* Max is an upper bound in the set.
LEMMA MaxOf ==
    ASSUME NEW N \in Nat, NEW T, T \subseteq 0 .. N, T # {}
    PROVE  Max(T) \in T /\ Max(T) \in 0 .. N /\ \A m \in T : m <= Max(T)
<1>1. \E x \in T : \A y \in T : x >= y
  BY Greatest
<1>2. Max(T) \in T /\ \A y \in T : Max(T) >= y
  BY <1>1 DEF Max
<1> QED
  BY <1>2

(* Induction over a range of numbers.                                      *)
LEMMA UpTo ==
    ASSUME NEW n \in Nat, NEW I, 0 \in I, \A i \in 1 .. n : i - 1 \in I => i \in I
    PROVE  \A i \in 0 .. n : i \in I
<1> DEFINE B == {i \in 0 .. n : i \notin I}
<1> SUFFICES ASSUME B # {} PROVE FALSE
  OBVIOUS
<1>1. PICK b \in B : \A c \in B : b <= c
  <2>1. B \subseteq Nat
    OBVIOUS
  <2> HIDE DEF B
  <2> QED
    BY <2>1, Least
<1>2. b \in 0 .. n /\ b \notin I /\ b # 0
  OBVIOUS
<1>3. b \in 1 .. n /\ b - 1 \in 0 .. n /\ ~(b <= b - 1)
  BY <1>2
<1>4. b - 1 \in I
  BY <1>1, <1>3
<1> QED
  BY <1>2, <1>3, <1>4

\* A step function over a range has a run.
Stepping(S, n) == [S \X (1 .. n) -> S]
\* The runs of a step function from b.
RunsOf(S, n, b, step) ==
    {u \in [0 .. n -> S] : u[0] = b /\ \A i \in 1 .. n : u[i] = step[<<u[i - 1], i>>]}

\* There is one.
LEMMA RunExists ==
    ASSUME NEW S, NEW n \in Nat, NEW b \in S, NEW step \in Stepping(S, n)
    PROVE  RunsOf(S, n, b, step) # {}
<1> DEFINE Runs(m) == RunsOf(S, m, b, step)
           I == {m \in 0 .. n : Runs(m) # {}}
<1>1. 0 \in I
  <2>1. [i \in 0 .. 0 |-> b] \in Runs(0)
    BY DEF RunsOf
  <2> QED
    BY <2>1
<1>2. ASSUME NEW m \in 1 .. n, m - 1 \in I
      PROVE  m \in I
  <2>1. PICK u \in Runs(m - 1) : TRUE
    BY <1>2
  <2>2. u \in [0 .. m - 1 -> S] /\ u[0] = b
        /\ \A i \in 1 .. m - 1 : u[i] = step[<<u[i - 1], i>>]
    BY <2>1 DEF RunsOf
  <2> DEFINE v == [i \in 0 .. m |-> IF i = m THEN step[<<u[m - 1], m>>] ELSE u[i]]
  <2>3. u[m - 1] \in S
    BY <2>2
  <2>4. step[<<u[m - 1], m>>] \in S
    BY <2>3 DEF Stepping
  <2>5. v \in [0 .. m -> S]
    BY <2>2, <2>4
  <2>6. v[0] = b
    BY <2>2
  <2>7. ASSUME NEW i \in 1 .. m
        PROVE  v[i] = step[<<v[i - 1], i>>]
    <3>1. v[i - 1] = u[i - 1] /\ i - 1 \in 0 .. m - 1
      OBVIOUS
    <3>2. CASE i = m
      <4>1. v[i] = step[<<u[m - 1], m>>]
        BY <3>2
      <4>2. v[i - 1] = u[m - 1]
        BY <3>1, <3>2
      <4> HIDE DEF v
      <4> QED
        BY <3>2, <4>1, <4>2
    <3>3. CASE i # m
      BY <2>2, <3>1, <3>3
    <3> QED
      BY <3>2, <3>3
  <2>8. v \in Runs(m)
    <3>1. \A i \in 1 .. m : v[i] = step[<<v[i - 1], i>>]
      BY <2>7
    <3> HIDE DEF v
    <3>2. v \in {w \in [0 .. m -> S] : w[0] = b /\ \A i \in 1 .. m : w[i] = step[<<w[i - 1], i>>]}
      BY <2>5, <2>6, <3>1
    <3> QED
      BY <3>2 DEF RunsOf
  <2>9. m \in 0 .. n
    OBVIOUS
  <2> HIDE DEF v, Runs
  <2> QED
    BY <2>8, <2>9
<1>3. \A m \in 0 .. n : m \in I
  <2> HIDE DEF I
  <2> QED
    BY <1>1, <1>2, UpTo
<1>4. n \in I
  BY <1>3
<1> QED
  BY <1>4

-----------------------------------------------------------------------------
(* Histories.  The operators take the history as an argument, which no step  *)
(* changes.                                                                *)

\* The tickers a security ever has.
Tick(h, s) == {t \in Tickers : \E d \in Days : h[s][d] = t}
\* The days it is renamed on.
Moves(h, s) == {d \in 2 .. NumDays : h[s][d - 1] # 0 /\ h[s][d] # 0 /\ h[s][d - 1] # h[s][d]}
\* It owns its tickers alone.
Alone(h, s) == \A r \in Sec \ {s} : \A d, e \in Days : h[s][d] # 0 => h[r][e] # h[s][d]
\* And it is renamed once at most.
Lone(h, s) == Alone(h, s) /\ \A d, e \in Moves(h, s) : d = e
\* It has been listed by day d.
Known(h, s, d) == \E e \in 1 .. d : h[s][e] # 0
\* As of day d its last ticker is the one of days x to y.
Episode(h, s, d, x, y) ==
    /\ x <= y /\ y <= d
    /\ \A z \in x .. y : h[s][z] = h[s][y] /\ h[s][z] # 0
    /\ x = 1 \/ h[s][x - 1] # h[s][y]
    /\ \A z \in y + 1 .. d : h[s][z] = 0
\* The valid_to of the last ticker as of day d.
Ending(h, s, d, y) == IF h[s][d] # 0 THEN Open ELSE y

\* The identifiers db of a security are those of day D: they are of one asset,
\* among them its last ticker, which alone may be open, and those of a security
\* that is renamed once at most cover all its days.
Shape(h, db, s, D) ==
    /\ \A i \in db : i.ticker \in Tick(h, s) => Known(h, s, D)
    /\ \A i, j \in db : i.ticker \in Tick(h, s) /\ j.ticker \in Tick(h, s) => i.asset = j.asset
    /\ \A x, y \in 1 .. D : Episode(h, s, D, x, y) =>
           \E i \in db : i.ticker = h[s][y] /\ i.from = x /\ i.to = Ending(h, s, D, y)
    /\ \A i \in db : i.ticker \in Tick(h, s) /\ i.to = Open =>
           h[s][D] = i.ticker /\ i.from \in 1 .. D /\ Episode(h, s, D, i.from, D)
    /\ Lone(h, s) => \A z \in 1 .. D : h[s][z] # 0 =>
           \E i \in db : i.ticker = h[s][z] /\ i.from <= z /\ z <= i.to

\* A day was certified between any two renames that are past.
Kept(h, s, cert, now) ==
    \A d, e \in Moves(h, s) : d < e /\ e < now => \E c \in cert : d <= c /\ c < e

\* What FmpAssumption says of one security.
LEMMA HistoryOf ==
    ASSUME NEW h \in Histories, NEW s \in Sec
    PROVE  /\ h[s] \in [Days -> Tickers \cup {0}]
           /\ \A d, e, f \in Days : d < e /\ e < f /\ h[s][d] # 0 /\ h[s][f] # 0 => h[s][e] # 0
<1>1. h \in [Sec -> [Days -> Tickers \cup {0}]] /\ ListedOnce(h[s])
  BY FmpAssumption
<1> QED
  BY <1>1 DEF ListedOnce

\* Between two days it is listed on a security is listed.
LEMMA Between ==
    ASSUME NEW h \in Histories, NEW s \in Sec, NEW a \in Days, NEW b \in Days,
           h[s][a] # 0, h[s][b] # 0, NEW z \in a .. b
    PROVE  z \in Days /\ h[s][z] # 0 /\ h[s][z] \in Tickers
<1>1. z \in Days
  BY FmpAssumption DEF Days
<1>2. z = a \/ z = b \/ (a < z /\ z < b)
  BY FmpAssumption DEF Days
<1>3. h[s][z] # 0
  BY <1>1, <1>2, HistoryOf
<1> QED
  BY <1>1, <1>3, HistoryOf

\* Without a rename in between the ticker stays.
LEMMA Stays ==
    ASSUME NEW h \in Histories, NEW s \in Sec, NEW a \in Days, NEW b \in Days, a <= b,
           h[s][a] # 0, h[s][b] # 0, \A e \in Moves(h, s) : ~(a < e /\ e <= b)
    PROVE  \A z \in a .. b : h[s][z] = h[s][a]
<1> DEFINE n == b - a
           I == {i \in 0 .. n : h[s][a + i] = h[s][a]}
<1>1. n \in Nat /\ a \in Nat /\ b \in Nat /\ NumDays \in Nat
  BY FmpAssumption DEF Days
<1>2. 0 \in I
  BY <1>1
<1>3. ASSUME NEW i \in 1 .. n, i - 1 \in I
      PROVE  i \in I
  <2>1. a + i \in a .. b /\ a + (i - 1) \in a .. b /\ a + i \in 2 .. NumDays
    BY <1>1 DEF Days
  <2>2. h[s][a + i] # 0 /\ h[s][a + (i - 1)] # 0
    BY <2>1, Between
  <2>3. a + i \notin Moves(h, s)
    BY <1>1, <2>1
  <2>4. (a + i) - 1 = a + (i - 1)
    BY <1>1
  <2>5. h[s][a + i] = h[s][a + (i - 1)]
    BY <2>1, <2>2, <2>3, <2>4 DEF Moves
  <2> QED
    BY <1>3, <2>5
<1>4. \A i \in 0 .. n : i \in I
  <2> HIDE DEF I, n
  <2> QED
    BY <1>1, <1>2, <1>3, UpTo
<1> SUFFICES ASSUME NEW z \in a .. b PROVE h[s][z] = h[s][a]
  OBVIOUS
<1>5. z - a \in 0 .. n /\ a + (z - a) = z
  BY <1>1
<1> QED
  BY <1>4, <1>5

\* A security known by day d has a last ticker.
LEMMA LastEpisode ==
    ASSUME NEW h \in Histories, NEW s \in Sec, NEW d \in Days, Known(h, s, d)
    PROVE  \E x, y \in 1 .. d : Episode(h, s, d, x, y)
<1> DEFINE L == {e \in 1 .. d : h[s][e] # 0}
<1>1. d \in Nat /\ NumDays \in Nat
  BY FmpAssumption DEF Days
<1>2. L \subseteq 0 .. d /\ L # {}
  BY <1>1 DEF Known
<1>3. PICK y \in L : \A m \in L : m <= y
  <2> HIDE DEF L
  <2> QED
    BY <1>1, <1>2, Greatest
<1>4. y \in 1 .. d /\ h[s][y] # 0
  BY <1>3
<1>5. \A z \in y + 1 .. d : h[s][z] = 0
  BY <1>1, <1>3
<1> DEFINE B == {x \in 1 .. y : \A z \in x .. y : h[s][z] = h[s][y]}
<1>6. B \subseteq Nat /\ y \in B
  BY <1>1, <1>4
<1>7. PICK x \in B : \A c \in B : x <= c
  <2> HIDE DEF B
  <2> QED
    BY <1>6, Least
<1>8. x \in 1 .. y /\ \A z \in x .. y : h[s][z] = h[s][y]
  BY <1>7
<1>9. x = 1 \/ h[s][x - 1] # h[s][y]
  <2> SUFFICES ASSUME x # 1, h[s][x - 1] = h[s][y] PROVE FALSE
    OBVIOUS
  <2>1. x - 1 \in 1 .. y /\ ~(x <= x - 1)
    BY <1>1, <1>4, <1>8
  <2>2. \A z \in x - 1 .. y : z = x - 1 \/ z \in x .. y
    BY <1>1, <1>4, <1>8
  <2>3. x - 1 \in B
    BY <1>8, <2>1, <2>2
  <2> QED
    BY <1>7, <2>1, <2>3
<1>10. x \in 1 .. d /\ x <= y /\ y <= d
  BY <1>1, <1>4, <1>8
<1>11. Episode(h, s, d, x, y)
  <2> HIDE DEF B, L
  <2> QED
    BY <1>4, <1>5, <1>8, <1>9, <1>10 DEF Episode
<1> QED
  BY <1>4, <1>10, <1>11

-----------------------------------------------------------------------------
(* What the provider shows.                                                *)

\* ipoDate is the first day the security is listed on.
LEMMA FirstDayIs ==
    ASSUME history \in Histories, NEW s \in Sec, NEW l \in Days, history[s][l] # 0
    PROVE  /\ FirstDay(s) \in Days /\ history[s][FirstDay(s)] # 0
           /\ \A e \in Days : history[s][e] # 0 => FirstDay(s) <= e
<1> DEFINE L == {d \in Days : history[s][d] # 0}
<1>1. L \subseteq Nat /\ L # {}
  BY FmpAssumption DEF Days
<1>2. PICK f \in L : \A m \in L : f <= m
  <2> HIDE DEF L
  <2> QED
    BY <1>1, Least
<1>3. \E d \in Days : history[s][d] # 0 /\ \A e \in Days : history[s][e] # 0 => d <= e
  BY <1>2
<1> QED
  BY <1>3 DEF FirstDay

\* delistedDate is the last day, as of d, it is listed on.
LEMMA LastDayIs ==
    ASSUME history \in Histories, NEW s \in Sec, NEW d \in Days, Known(history, s, d)
    PROVE  /\ LastDay(s, d) \in 1 .. d /\ history[s][LastDay(s, d)] # 0
           /\ \A e \in 1 .. d : history[s][e] # 0 => e <= LastDay(s, d)
<1>1. PICK x \in 1 .. d, y \in 1 .. d : Episode(history, s, d, x, y)
  BY LastEpisode
<1>2. history[s][y] # 0
  BY <1>1 DEF Episode
<1>3. \A e \in 1 .. d : history[s][e] # 0 => e <= y
  BY <1>1 DEF Episode, Days
<1>4. \E e \in 1 .. d : history[s][e] # 0 /\ \A x2 \in 1 .. d : history[s][x2] # 0 => x2 <= e
  BY <1>2, <1>3
<1> QED
  BY <1>4 DEF LastDay

\* An episode begins with the first day or with a rename.
LEMMA EpisodeDates ==
    ASSUME history \in Histories, NEW s \in Sec, NEW d \in Days, NEW x \in 1 .. d, NEW y \in 1 .. d,
           Episode(history, s, d, x, y)
    PROVE  /\ x \in Days /\ y \in Days /\ history[s][x] = history[s][y] /\ history[s][y] \in Tickers
           /\ LastDay(s, d) = y
           /\ FirstDay(s) \in Days /\ FirstDay(s) <= x
           /\ FirstDay(s) = x \/ x \in Moves(history, s)
<1>1. d \in Nat /\ NumDays \in Nat /\ 1 .. d \subseteq Days
  BY FmpAssumption DEF Days
<1>2. x <= y /\ \A z \in x .. y : history[s][z] = history[s][y] /\ history[s][z] # 0
  BY DEF Episode
<1>3. history[s][x] = history[s][y] /\ history[s][y] # 0
  BY <1>1, <1>2
<1>4. history[s][y] \in Tickers
  BY <1>1, <1>3, HistoryOf
<1>5. Known(history, s, d)
  BY <1>3 DEF Known
<1>6. LastDay(s, d) = y
  <2>1. \A e \in 1 .. d : history[s][e] # 0 => e <= y
    BY <1>1 DEF Episode
  <2> QED
    BY <1>1, <1>3, <1>5, <2>1, LastDayIs
<1>7. /\ FirstDay(s) \in Days /\ history[s][FirstDay(s)] # 0 /\ FirstDay(s) <= x
      /\ \A e \in Days : history[s][e] # 0 => FirstDay(s) <= e
  BY <1>1, <1>3, FirstDayIs
<1>8. ASSUME FirstDay(s) # x
      PROVE  x \in Moves(history, s)
  <2>1. x - 1 \in FirstDay(s) .. x /\ x \in 2 .. NumDays
    BY <1>1, <1>7, <1>8 DEF Days
  <2>2. history[s][x - 1] # 0
    BY <1>1, <1>3, <1>7, <2>1, Between
  <2>3. history[s][x - 1] # history[s][y]
    BY <2>1 DEF Episode
  <2> QED
    BY <1>3, <2>1, <2>2, <2>3 DEF Moves
<1> QED
  BY <1>1, <1>3, <1>4, <1>6, <1>7, <1>8

\* A rename into the last ticker is not after the episode's first day.
LEMMA MovesBefore ==
    ASSUME NEW h \in Histories, NEW s \in Sec, NEW d \in Days, NEW x \in 1 .. d, NEW y \in 1 .. d,
           Episode(h, s, d, x, y), NEW e \in Moves(h, s), e <= d
    PROVE  e <= x
<1>1. d \in Nat /\ NumDays \in Nat /\ 1 .. d \subseteq Days /\ e \in 2 .. NumDays
  BY FmpAssumption DEF Days, Moves
<1> SUFFICES ASSUME ~(e <= x) PROVE FALSE
  OBVIOUS
<1>2. e <= y
  BY <1>1 DEF Episode, Moves
<1>3. e \in x .. y /\ e - 1 \in x .. y
  BY <1>1, <1>2
<1>4. h[s][e] = h[s][e - 1]
  BY <1>3 DEF Episode
<1> QED
  BY <1>4 DEF Moves

\* Who owns its tickers alone.
LEMMA AloneIs ==
    ASSUME NEW h \in Histories, NEW s \in Sec, Alone(h, s), NEW r \in Sec, NEW d \in Days, h[r][d] # 0
    PROVE  h[r][d] \in Tickers /\ (h[r][d] \in Tick(h, s) <=> r = s)
<1>1. h[r][d] \in Tickers
  BY HistoryOf
<1>2. CASE r = s
  BY <1>1, <1>2 DEF Tick
<1>3. CASE r # s
  <2>1. \A e \in Days : h[s][e] # 0 => h[r][d] # h[s][e]
    BY <1>3 DEF Alone
  <2>2. \A e \in Days : h[s][e] # h[r][d]
    BY <2>1
  <2> QED
    BY <1>1, <1>3, <2>2 DEF Tick
<1> QED
  BY <1>1, <1>2, <1>3

\* The tickers shown are those of the listed and the last ones of the delisted.
LEMMA SymbolsAre ==
    ASSUME history \in Histories, NEW d \in Days
    PROVE  \A t : t \in Symbols(d) <=>
               \E r \in Sec : (history[r][d] # 0 /\ t = history[r][d])
                              \/ (r \in Gone(d) /\ t = history[r][LastDay(r, d)])
<1> SUFFICES ASSUME NEW t
             PROVE  t \in Symbols(d) <=>
                        \E r \in Sec : (history[r][d] # 0 /\ t = history[r][d])
                                       \/ (r \in Gone(d) /\ t = history[r][LastDay(r, d)])
  OBVIOUS
<1>1. t \in {a.ticker : a \in Active(d)} <=> \E r \in Sec : history[r][d] # 0 /\ t = history[r][d]
  <2>1. ASSUME NEW a \in Active(d), t = a.ticker
        PROVE  \E r \in Sec : history[r][d] # 0 /\ t = history[r][d]
    <3>1. PICK r \in Sec : history[r][d] # 0 /\ a = [ticker |-> history[r][d], ipo |-> FirstDay(r)]
      BY DEF Active, ListedOn
    <3> QED
      BY <2>1, <3>1
  <2>2. ASSUME NEW r \in Sec, history[r][d] # 0, t = history[r][d]
        PROVE  \E a \in Active(d) : t = a.ticker
    <3>1. [ticker |-> history[r][d], ipo |-> FirstDay(r)] \in Active(d)
      BY <2>2 DEF Active, ListedOn
    <3> QED
      BY <2>2, <3>1
  <2> QED
    BY <2>1, <2>2
<1>2. t \in {g.ticker : g \in Delisted(d)} <=> \E r \in Gone(d) : t = history[r][LastDay(r, d)]
  <2>1. ASSUME NEW g \in Delisted(d), t = g.ticker
        PROVE  \E r \in Gone(d) : t = history[r][LastDay(r, d)]
    <3>1. PICK r \in Gone(d) : g = [ticker |-> history[r][LastDay(r, d)], ipo |-> FirstDay(r),
                                    last |-> LastDay(r, d)]
      BY DEF Delisted
    <3> QED
      BY <2>1, <3>1
  <2>2. ASSUME NEW r \in Gone(d), t = history[r][LastDay(r, d)]
        PROVE  \E g \in Delisted(d) : t = g.ticker
    <3>1. [ticker |-> history[r][LastDay(r, d)], ipo |-> FirstDay(r), last |-> LastDay(r, d)]
              \in Delisted(d)
      BY DEF Delisted
    <3> QED
      BY <2>2, <3>1
  <2> QED
    BY <2>1, <2>2
<1>3. Gone(d) \subseteq Sec
  BY DEF Gone
<1> QED
  BY <1>1, <1>2, <1>3 DEF Symbols

\* A delisted security has a last day and a last ticker.
LEMMA GoneIs ==
    ASSUME history \in Histories, NEW d \in Days, NEW r \in Gone(d)
    PROVE  /\ r \in Sec /\ history[r][d] = 0 /\ Known(history, r, d)
           /\ LastDay(r, d) \in Days /\ LastDay(r, d) \in 1 .. d /\ history[r][LastDay(r, d)] # 0
           /\ history[r][LastDay(r, d)] \in Tickers
           /\ FirstDay(r) \in Days
<1>1. r \in Sec /\ history[r][d] = 0 /\ Known(history, r, d)
  BY DEF Gone, Known
<1>2. LastDay(r, d) \in 1 .. d /\ history[r][LastDay(r, d)] # 0
  BY <1>1, LastDayIs
<1>3. LastDay(r, d) \in Days
  BY <1>2, FmpAssumption DEF Days
<1> QED
  BY <1>1, <1>2, <1>3, FirstDayIs, HistoryOf

\* The last ticker of a security that is alone is the only one shown of it.
LEMMA SymbolsOf ==
    ASSUME history \in Histories, NEW s \in Sec, Alone(history, s), NEW d \in Days
    PROVE  /\ \A x, y \in 1 .. d : Episode(history, s, d, x, y) =>
                  \A t : t \in Symbols(d) /\ t \in Tick(history, s) <=> t = history[s][y]
           /\ ~ Known(history, s, d) => \A t \in Symbols(d) : t \notin Tick(history, s)
<1>1. 1 .. d \subseteq Days /\ d \in 1 .. d
  BY FmpAssumption DEF Days
<1>2. ASSUME NEW t \in Symbols(d), t \in Tick(history, s)
      PROVE  Known(history, s, d) /\ t = history[s][LastDay(s, d)]
  <2>1. PICK r \in Sec : (history[r][d] # 0 /\ t = history[r][d])
                         \/ (r \in Gone(d) /\ t = history[r][LastDay(r, d)])
    BY SymbolsAre
  <2>2. CASE history[r][d] # 0 /\ t = history[r][d]
    <3>1. r = s
      BY <1>2, <2>2, AloneIs
    <3>2. Known(history, s, d)
      BY <1>1, <2>2, <3>1 DEF Known
    <3>3. LastDay(s, d) \in 1 .. d /\ d <= LastDay(s, d)
      BY <1>1, <2>2, <3>1, <3>2, LastDayIs
    <3>4. LastDay(s, d) = d
      BY <3>3 DEF Days
    <3> QED
      BY <2>2, <3>1, <3>2, <3>4
  <2>3. CASE r \in Gone(d) /\ t = history[r][LastDay(r, d)]
    <3>1. r = s
      BY <1>2, <2>3, GoneIs, AloneIs
    <3> QED
      BY <2>3, <3>1, GoneIs
  <2> QED
    BY <2>1, <2>2, <2>3
<1>3. ASSUME NEW x \in 1 .. d, NEW y \in 1 .. d, Episode(history, s, d, x, y)
      PROVE  history[s][y] \in Symbols(d) /\ history[s][y] \in Tick(history, s) /\ LastDay(s, d) = y
  <2>1. LastDay(s, d) = y /\ history[s][y] \in Tickers /\ y \in Days
    BY <1>3, EpisodeDates
  <2>2. history[s][y] \in Tick(history, s) /\ history[s][y] # 0
    BY <2>1, FmpAssumption DEF Tick, Tickers
  <2>3. CASE history[s][d] # 0
    <3>1. y = d
      BY <1>1, <1>3, <2>3 DEF Episode, Days
    <3> QED
      BY <2>1, <2>2, <2>3, <3>1, SymbolsAre
  <2>4. CASE history[s][d] = 0
    <3>1. s \in Gone(d)
      BY <2>2, <2>4 DEF Gone
    <3> QED
      BY <2>1, <2>2, <3>1, SymbolsAre
  <2> QED
    BY <2>1, <2>2, <2>3, <2>4
<1>4. ASSUME NEW x \in 1 .. d, NEW y \in 1 .. d, Episode(history, s, d, x, y), NEW t
      PROVE  t \in Symbols(d) /\ t \in Tick(history, s) <=> t = history[s][y]
  BY <1>2, <1>3, <1>4
<1> QED
  BY <1>2, <1>4

\* The listing of the last ticker is that of the security.
LEMMA MergedOf ==
    ASSUME history \in Histories, NEW s \in Sec, Alone(history, s), NEW d \in Days,
           NEW x \in 1 .. d, NEW y \in 1 .. d, Episode(history, s, d, x, y)
    PROVE  Merged(history[s][y], d) = [from |-> FirstDay(s), to |-> Ending(history, s, d, y)]
<1> DEFINE k == history[s][y]
           active == {a \in Active(d) : a.ticker = k}
           gone == {g \in Delisted(d) : g.ticker = k}
<1>1. /\ y \in Days /\ k \in Tickers /\ k # 0 /\ LastDay(s, d) = y
      /\ k \in Tick(history, s)
  <2>1. y \in Days /\ k \in Tickers /\ LastDay(s, d) = y
    BY EpisodeDates
  <2> QED
    BY <2>1, FmpAssumption DEF Tick, Tickers
<1>2. ASSUME NEW a \in active
      PROVE  history[s][d] # 0 /\ a = [ticker |-> k, ipo |-> FirstDay(s)]
  <2>1. PICK r \in Sec : history[r][d] # 0 /\ a = [ticker |-> history[r][d], ipo |-> FirstDay(r)]
    BY DEF Active, ListedOn
  <2>2. history[r][d] = k
    BY <2>1
  <2>3. r = s
    BY <1>1, <2>1, <2>2, AloneIs
  <2> QED
    BY <2>1, <2>2, <2>3
<1>3. ASSUME NEW g \in gone
      PROVE  history[s][d] = 0 /\ g = [ticker |-> k, ipo |-> FirstDay(s), last |-> y]
  <2>1. PICK r \in Gone(d) : g = [ticker |-> history[r][LastDay(r, d)], ipo |-> FirstDay(r),
                                  last |-> LastDay(r, d)]
    BY DEF Delisted
  <2>2. history[r][LastDay(r, d)] = k
    BY <2>1
  <2>3. r = s
    BY <1>1, <2>2, GoneIs, AloneIs
  <2> QED
    BY <1>1, <2>1, <2>2, <2>3, GoneIs
<1>4. CASE history[s][d] # 0
  <2>1. y = d
    BY <1>4, FmpAssumption DEF Episode, Days
  <2>2. [ticker |-> k, ipo |-> FirstDay(s)] \in active
    BY <1>4, <2>1 DEF Active, ListedOn
  <2>3. active = {[ticker |-> k, ipo |-> FirstDay(s)]} /\ gone = {}
    BY <1>2, <1>3, <1>4, <2>2
  <2>4. Merged(k, d) = [from |-> IF active # {} THEN (CHOOSE a \in active : TRUE).ipo ELSE Latest(gone).ipo,
                        to |-> IF gone # {} THEN Latest(gone).last ELSE Open]
    BY DEF Merged
  <2> HIDE DEF active, gone, k
  <2>5. (CHOOSE a \in active : TRUE) = [ticker |-> k, ipo |-> FirstDay(s)]
    BY <2>3
  <2>6. Merged(k, d) = [from |-> FirstDay(s), to |-> Open]
    BY <2>3, <2>4, <2>5
  <2>7. Ending(history, s, d, y) = Open
    BY <1>4 DEF Ending
  <2> QED
    BY <2>6, <2>7 DEF k
<1>5. CASE history[s][d] = 0
  <2>1. s \in Gone(d)
    BY <1>1, <1>5, FmpAssumption DEF Gone, Days
  <2>2. [ticker |-> k, ipo |-> FirstDay(s), last |-> y] \in gone
    BY <1>1, <2>1 DEF Delisted
  <2>3. gone = {[ticker |-> k, ipo |-> FirstDay(s), last |-> y]} /\ active = {}
    BY <1>2, <1>3, <1>5, <2>2
  <2>4. Merged(k, d) = [from |-> IF active # {} THEN (CHOOSE a \in active : TRUE).ipo ELSE Latest(gone).ipo,
                        to |-> IF gone # {} THEN Latest(gone).last ELSE Open]
    BY DEF Merged
  <2>5. y \in Nat
    BY <1>1, FmpAssumption DEF Days
  <2> HIDE DEF active, gone, k
  <2>6. Latest(gone) = [ticker |-> k, ipo |-> FirstDay(s), last |-> y]
    <3> DEFINE g == [ticker |-> k, ipo |-> FirstDay(s), last |-> y]
    <3>1. g.last = y /\ g.last <= g.last
      BY <2>5
    <3> HIDE DEF g
    <3>2. gone = {g}
      BY <2>3 DEF g
    <3>3. \E z \in gone : \A w \in gone : w.last <= z.last
      BY <3>1, <3>2
    <3>4. Latest(gone) \in gone
      BY <3>3 DEF Latest
    <3>5. Latest(gone) = g
      BY <3>2, <3>4
    <3> QED
      BY <3>5 DEF g
  <2>7. Merged(k, d) = [from |-> FirstDay(s), to |-> y]
    BY <2>3, <2>4, <2>6
  <2>8. Ending(history, s, d, y) = y
    BY <1>5 DEF Ending
  <2> QED
    BY <2>7, <2>8 DEF k
<1> QED
  BY <1>4, <1>5

\* The listing of any ticker shown.
LEMMA MergedType ==
    ASSUME history \in Histories, NEW d \in Days, NEW t \in Symbols(d)
    PROVE  t \in Tickers /\ Merged(t, d) \in [from : Days, to : Days \cup {Open}]
<1> DEFINE active == {a \in Active(d) : a.ticker = t}
           gone == {g \in Delisted(d) : g.ticker = t}
<1>1. active # {} \/ gone # {}
  BY DEF Symbols
<1>2. ASSUME NEW a \in active
      PROVE  a.ipo \in Days /\ t \in Tickers
  <2>1. PICK r \in Sec : history[r][d] # 0 /\ a = [ticker |-> history[r][d], ipo |-> FirstDay(r)]
    BY DEF Active, ListedOn
  <2>2. FirstDay(r) \in Days /\ history[r][d] \in Tickers
    BY <2>1, FirstDayIs, HistoryOf
  <2> QED
    BY <2>1, <2>2
<1>3. ASSUME NEW g \in gone
      PROVE  g.ipo \in Days /\ g.last \in Days /\ t \in Tickers
  <2>1. PICK r \in Gone(d) : g = [ticker |-> history[r][LastDay(r, d)], ipo |-> FirstDay(r),
                                  last |-> LastDay(r, d)]
    BY DEF Delisted
  <2> QED
    BY <2>1, GoneIs
<1>4. gone # {} => Latest(gone) \in gone
  <2> SUFFICES ASSUME gone # {} PROVE \E z \in gone : \A w \in gone : w.last <= z.last
    BY DEF Latest
  <2> DEFINE L == {g.last : g \in gone}
  <2>1. L # {} /\ L \subseteq Days
    BY <1>3
  <2>2. L \subseteq 0 .. NumDays /\ NumDays \in Nat
    BY <2>1, FmpAssumption DEF Days
  <2>3. PICK m \in L : \A l \in L : l <= m
    <3> HIDE DEF L
    <3> QED
      BY <2>1, <2>2, Greatest
  <2> QED
    BY <2>3
<1>5. active # {} => (CHOOSE a \in active : TRUE) \in active
  OBVIOUS
<1>6. Merged(t, d) = [from |-> IF active # {} THEN (CHOOSE a \in active : TRUE).ipo ELSE Latest(gone).ipo,
                      to |-> IF gone # {} THEN Latest(gone).last ELSE Open]
  BY DEF Merged
<1> HIDE DEF active, gone
<1> QED
  BY <1>1, <1>2, <1>3, <1>4, <1>5, <1>6

-----------------------------------------------------------------------------
(* The changes taken one turn after the other.                             *)

\* A row of the list of renames.
Change == [old : Tickers, new : Tickers, on : Days]
\* The state of prepare_universe between two turns.
Admission == [admitted : SUBSET Tickers, legs : SUBSET Change]

\* The list of renames holds those of every security up to the day.
LEMMA RenamesAre ==
    ASSUME history \in Histories, NEW d \in Days
    PROVE  /\ \A c \in Renames(d) : c \in Change /\ \E r \in Sec : \E e \in Moves(history, r) :
                  e <= d /\ c = [old |-> history[r][e - 1], new |-> history[r][e], on |-> e]
           /\ \A r \in Sec : \A e \in Moves(history, r) :
                  e <= d => [old |-> history[r][e - 1], new |-> history[r][e], on |-> e] \in Renames(d)
<1>1. \A r : RenameDays(r) = Moves(history, r)
  BY DEF RenameDays, Moves
<1>2. ASSUME NEW c \in Renames(d)
      PROVE  \E r \in Sec : \E e \in Moves(history, r) :
                 e <= d /\ c = [old |-> history[r][e - 1], new |-> history[r][e], on |-> e]
  BY <1>1 DEF Renames
<1>3. ASSUME NEW r \in Sec, NEW e \in Moves(history, r)
      PROVE  [old |-> history[r][e - 1], new |-> history[r][e], on |-> e] \in Change
  <2>1. e \in 2 .. NumDays /\ history[r][e - 1] # 0 /\ history[r][e] # 0
    BY DEF Moves
  <2>2. e \in Days /\ e - 1 \in Days
    BY <2>1, FmpAssumption DEF Days
  <2>3. history[r][e] \in Tickers /\ history[r][e - 1] \in Tickers
    BY <2>1, <2>2, HistoryOf
  <2> QED
    BY <2>2, <2>3 DEF Change
<1>4. ASSUME NEW r \in Sec, NEW e \in Moves(history, r), e <= d
      PROVE  [old |-> history[r][e - 1], new |-> history[r][e], on |-> e] \in Renames(d)
  <2>1. e \in {x \in RenameDays(r) : x <= d}
    BY <1>1, <1>4
  <2> QED
    BY <2>1 DEF Renames
<1> QED
  BY <1>2, <1>3, <1>4

\* The changes of a security that is alone are those of its own renames.
LEMMA ChangesOf ==
    ASSUME history \in Histories, NEW s \in Sec, Alone(history, s), NEW d \in Days, NEW c \in Renames(d)
    PROVE  /\ c.old \in Tick(history, s) <=> c.new \in Tick(history, s)
           /\ c.new \in Tick(history, s) => c.on \in Moves(history, s) /\ c.on <= d
                  /\ c.old = history[s][c.on - 1] /\ c.new = history[s][c.on]
           /\ c.old # c.new
<1>a. PICK r \in Sec : \E e \in Moves(history, r) :
          e <= d /\ c = [old |-> history[r][e - 1], new |-> history[r][e], on |-> e]
  BY RenamesAre
<1>1. PICK e \in Moves(history, r) :
          e <= d /\ c = [old |-> history[r][e - 1], new |-> history[r][e], on |-> e]
  BY <1>a
<1>2. c.old = history[r][e - 1] /\ c.new = history[r][e] /\ c.on = e
  BY <1>1
<1>3. /\ e \in Days /\ e - 1 \in Days /\ history[r][e - 1] # 0 /\ history[r][e] # 0
      /\ history[r][e - 1] # history[r][e]
  BY FmpAssumption DEF Moves, Days
<1>4. /\ c.old \in Tick(history, s) <=> r = s
      /\ c.new \in Tick(history, s) <=> r = s
  BY <1>2, <1>3, AloneIs
<1> QED
  BY <1>1, <1>2, <1>3, <1>4

\* Every rename has its turn.
LEMMA Turns ==
    ASSUME NEW c \in Change
    PROVE  LastTurn \in Nat /\ Turn(c) \in 1 .. LastTurn
<1>1. c.on \in Nat /\ 1 <= c.on /\ c.on <= NumDays /\ NumDays \in Nat
      /\ c.old \in Nat /\ 1 <= c.old /\ c.old <= NumTickers /\ NumTickers \in Nat
  BY FmpAssumption DEF Change, Days, Tickers
<1> DEFINE m == NumTickers + 1
<1>2. m \in Nat /\ c.on * m <= NumDays * m /\ c.on * m \in Nat /\ NumDays * m \in Nat
  <2>1. ASSUME NEW x \in Nat, NEW y \in Nat, NEW n \in Nat, x <= y
        PROVE  x * n <= y * n /\ x * n \in Nat /\ y * n \in Nat
    BY <2>1
  <2>2. m \in Nat
    BY <1>1
  <2> HIDE DEF m
  <2> QED
    BY <1>1, <2>1, <2>2
<1>3. Turn(c) = c.on * m + c.old /\ LastTurn = NumDays * m + NumTickers
  BY DEF Turn, LastTurn
<1> HIDE DEF m
<1> QED
  BY <1>1, <1>2, <1>3

\* The turns are numbered.
LEMMA LastTurnType == LastTurn \in Nat
<1>1. NumDays \in Nat /\ NumTickers \in Nat /\ NumTickers + 1 \in Nat
  BY FmpAssumption
<1>2. ASSUME NEW x \in Nat, NEW y \in Nat PROVE x * y \in Nat
  OBVIOUS
<1>3. NumDays * (NumTickers + 1) \in Nat
  BY <1>1, <1>2
<1> DEFINE m == NumDays * (NumTickers + 1)
<1>4. m \in Nat /\ LastTurn = m + NumTickers
  BY <1>3 DEF LastTurn
<1> HIDE DEF m
<1> QED
  BY <1>1, <1>4

\* Renamed(d) is the end of a run of Rename over the turns.
LEMMA RenamedRun ==
    ASSUME history \in Histories, NEW d \in Days
    PROVE  \E u \in [0 .. LastTurn -> Admission] :
               /\ u[0] = [admitted |-> Symbols(d), legs |-> {}]
               /\ \A i \in 1 .. LastTurn :
                      u[i] = Rename(u[i - 1], {c \in Renames(d) : Turn(c) = i})
               /\ Renamed(d) = u[LastTurn]
<1> DEFINE base == [admitted |-> Symbols(d), legs |-> {}]
           changes(i) == {c \in Renames(d) : Turn(c) = i}
           step == [x \in Admission \X (1 .. LastTurn) |-> Rename(x[1], changes(x[2]))]
           Run(u) == u = [i \in 0 .. LastTurn |->
                             IF i = 0 THEN base ELSE Rename(u[i - 1], changes(i))]
<1>1. LastTurn \in Nat
  BY LastTurnType
<1>2. base \in Admission
  <2>1. Symbols(d) \subseteq Tickers
    BY MergedType
  <2> QED
    BY <2>1 DEF Admission
<1>3. ASSUME NEW a \in Admission, NEW i
      PROVE  Rename(a, changes(i)) \in Admission
  <2>1. changes(i) \subseteq Change
    BY RenamesAre
  <2> HIDE DEF changes
  <2> QED
    BY <2>1 DEF Rename, Admission
<1>4. step \in Stepping(Admission, LastTurn)
  <2> HIDE DEF changes
  <2> QED
    BY <1>3 DEF Stepping
<1>5. \A a \in Admission : \A i \in 1 .. LastTurn : step[<<a, i>>] = Rename(a, changes(i))
  <2> HIDE DEF changes
  <2> QED
    OBVIOUS
<1>6. PICK v \in [0 .. LastTurn -> Admission] :
          v[0] = base /\ \A i \in 1 .. LastTurn : v[i] = step[<<v[i - 1], i>>]
  <2> HIDE DEF base, step
  <2>1. RunsOf(Admission, LastTurn, base, step) # {}
    BY <1>1, <1>2, <1>4, RunExists
  <2> QED
    BY <2>1 DEF RunsOf
<1>7. \A i \in 1 .. LastTurn : i - 1 \in 0 .. LastTurn /\ v[i - 1] \in Admission
  BY <1>1
<1>8. \A i \in 1 .. LastTurn : v[i] = Rename(v[i - 1], changes(i))
  <2> HIDE DEF changes, step
  <2> QED
    BY <1>5, <1>6, <1>7
<1>9. Run(v)
  <2> HIDE DEF changes, base
  <2>1. \A i \in 0 .. LastTurn : v[i] = IF i = 0 THEN base ELSE Rename(v[i - 1], changes(i))
    <3> SUFFICES ASSUME NEW i \in 0 .. LastTurn
                 PROVE  v[i] = IF i = 0 THEN base ELSE Rename(v[i - 1], changes(i))
      OBVIOUS
    <3>1. i = 0 \/ i \in 1 .. LastTurn
      BY <1>1
    <3> QED
      BY <1>6, <1>8, <3>1
  <2> QED
    BY <2>1
<1> DEFINE u == CHOOSE x : Run(x)
<1>10. Run(u)
  <2> HIDE DEF Run
  <2> QED
    BY <1>9, Zenon
<1>11. Renamed(d) = u[LastTurn]
  BY DEF Renamed
<1>12. \A i \in 0 .. LastTurn : u[i] = IF i = 0 THEN base ELSE Rename(u[i - 1], changes(i))
  <2> HIDE DEF u, changes, base
  <2> QED
    BY <1>10
<1>13. u[0] = base /\ \A i \in 1 .. LastTurn : u[i] = Rename(u[i - 1], changes(i))
  <2> HIDE DEF u, changes, base, Run
  <2> QED
    BY <1>1, <1>12
<1>14. \A i \in 0 .. LastTurn : u[i] \in Admission
  <2> DEFINE I == {i \in 0 .. LastTurn : u[i] \in Admission}
  <2> HIDE DEF u, changes, base, Run
  <2>1. 0 \in I
    BY <1>1, <1>2, <1>13
  <2>2. ASSUME NEW i \in 1 .. LastTurn, i - 1 \in I PROVE i \in I
    BY <1>3, <1>13, <2>2
  <2> HIDE DEF I
  <2>3. \A i \in 0 .. LastTurn : i \in I
    BY <1>1, <2>1, <2>2, UpTo
  <2> QED
    BY <2>3 DEF I
<1>15. u \in [0 .. LastTurn -> Admission]
  <2>1. u = [i \in 0 .. LastTurn |-> IF i = 0 THEN base ELSE Rename(u[i - 1], changes(i))]
    <3> HIDE DEF u, changes, base
    <3> QED
      BY <1>10
  <2>2. u = [i \in 0 .. LastTurn |-> u[i]]
    <3> HIDE DEF u, changes, base
    <3> QED
      BY <2>1
  <2> HIDE DEF u, changes, base
  <2> QED
    BY <1>14, <2>2
<1> HIDE DEF u, Run
<1> QED
  BY <1>11, <1>13, <1>15

\* prepare_universe only drops tickers and takes in renames.
LEMMA RenamedType ==
    ASSUME history \in Histories, NEW d \in Days
    PROVE  /\ Renamed(d).admitted \subseteq Symbols(d) /\ Renamed(d).admitted \subseteq Tickers
           /\ Renamed(d).legs \subseteq Renames(d)
<1>1. PICK u \in [0 .. LastTurn -> Admission] :
          /\ u[0] = [admitted |-> Symbols(d), legs |-> {}]
          /\ \A i \in 1 .. LastTurn : u[i] = Rename(u[i - 1], {c \in Renames(d) : Turn(c) = i})
          /\ Renamed(d) = u[LastTurn]
  BY RenamedRun
<1>2. LastTurn \in Nat
  BY LastTurnType
<1> DEFINE I == {i \in 0 .. LastTurn : u[i].admitted \subseteq Symbols(d) /\ u[i].legs \subseteq Renames(d)}
<1>3. 0 \in I
  BY <1>1, <1>2
<1>4. ASSUME NEW i \in 1 .. LastTurn, i - 1 \in I PROVE i \in I
  <2>1. u[i] = Rename(u[i - 1], {c \in Renames(d) : Turn(c) = i})
    BY <1>1
  <2>2. u[i].admitted \subseteq u[i - 1].admitted
    BY <2>1 DEF Rename
  <2>3. u[i].legs \subseteq (u[i - 1].legs \cup Renames(d))
    BY <2>1 DEF Rename
  <2> QED
    BY <1>4, <2>2, <2>3
<1>5. \A i \in 0 .. LastTurn : i \in I
  <2> HIDE DEF I
  <2> QED
    BY <1>2, <1>3, <1>4, UpTo
<1>6. u[LastTurn].admitted \subseteq Symbols(d) /\ u[LastTurn].legs \subseteq Renames(d)
  BY <1>2, <1>5
<1> QED
  BY <1>1, <1>6, MergedType

\* Of a security that is alone the last ticker is admitted, with all the renames
\* into it.
LEMMA RenamedOf ==
    ASSUME history \in Histories, NEW s \in Sec, Alone(history, s), NEW d \in Days,
           NEW x \in 1 .. d, NEW y \in 1 .. d, Episode(history, s, d, x, y)
    PROVE  /\ history[s][y] \in Renamed(d).admitted
           /\ \A c \in Renames(d) : c.new = history[s][y] => c \in Renamed(d).legs
<1>1. PICK u \in [0 .. LastTurn -> Admission] :
          /\ u[0] = [admitted |-> Symbols(d), legs |-> {}]
          /\ \A i \in 1 .. LastTurn : u[i] = Rename(u[i - 1], {c \in Renames(d) : Turn(c) = i})
          /\ Renamed(d) = u[LastTurn]
  BY RenamedRun
<1>2. LastTurn \in Nat
  BY LastTurnType
<1> DEFINE k == history[s][y]
<1>3. /\ k \in Tick(history, s)
      /\ \A t \in Symbols(d) : t \in Tick(history, s) => t = k
      /\ k \in Symbols(d)
  BY SymbolsOf
<1>4. \A c \in Renames(d) : Turn(c) \in 1 .. LastTurn
  BY RenamesAre, Turns
<1>5. ASSUME NEW c \in Renames(d), c.new \in Symbols(d)
      PROVE  c.old # k
  <2> SUFFICES ASSUME c.old = k PROVE FALSE
    OBVIOUS
  <2>1. c.new \in Tick(history, s) /\ c.old # c.new
    BY <1>3, ChangesOf
  <2> QED
    BY <1>3, <1>5, <2>1
<1> HIDE DEF k
<1> DEFINE I == {i \in 0 .. LastTurn :
                    /\ u[i].admitted \subseteq Symbols(d) /\ k \in u[i].admitted
                    /\ \A c \in Renames(d) : c.new = k /\ Turn(c) <= i => c \in u[i].legs}
<1>6. 0 \in I
  <2>1. u[0].admitted = Symbols(d)
    BY <1>1
  <2>2. \A c \in Renames(d) : ~(Turn(c) <= 0)
    BY <1>4
  <2> QED
    BY <1>2, <1>3, <2>1, <2>2
<1>7. ASSUME NEW i \in 1 .. LastTurn, i - 1 \in I PROVE i \in I
  <2> DEFINE taken == {c \in {c \in Renames(d) : Turn(c) = i} : c.new \in u[i - 1].admitted}
  <2>1. u[i] = Rename(u[i - 1], {c \in Renames(d) : Turn(c) = i})
    BY <1>1
  <2>2. u[i].admitted = u[i - 1].admitted \ {c.old : c \in taken}
    BY <2>1 DEF Rename
  <2>3. u[i].legs = u[i - 1].legs \cup taken
    BY <2>1 DEF Rename
  <2>4. /\ u[i - 1].admitted \subseteq Symbols(d) /\ k \in u[i - 1].admitted
        /\ \A c \in Renames(d) : c.new = k /\ Turn(c) <= i - 1 => c \in u[i - 1].legs
    BY <1>7
  <2>5. \A c \in taken : c.old # k
    BY <1>5, <2>4
  <2>6. u[i].admitted \subseteq Symbols(d) /\ k \in u[i].admitted
    <3> HIDE DEF taken
    <3> QED
      BY <2>2, <2>4, <2>5
  <2>7. ASSUME NEW c \in Renames(d), c.new = k, Turn(c) <= i
        PROVE  c \in u[i].legs
    <3>1. CASE Turn(c) = i
      <4>1. c \in taken
        BY <2>4, <2>7, <3>1
      <4> QED
        BY <2>3, <4>1
    <3>2. CASE Turn(c) # i
      <4>1. Turn(c) <= i - 1
        BY <1>2, <1>4, <2>7, <3>2
      <4>2. c \in u[i - 1].legs
        BY <2>4, <2>7, <4>1
      <4> HIDE DEF taken
      <4> QED
        BY <2>3, <4>2
    <3> QED
      BY <3>1, <3>2
  <2> QED
    BY <2>6, <2>7
<1>8. \A i \in 0 .. LastTurn : i \in I
  <2> HIDE DEF I
  <2> QED
    BY <1>2, <1>6, <1>7, UpTo
<1>9. LastTurn \in I
  BY <1>2, <1>8
<1>10. k \in u[LastTurn].admitted /\ \A c \in Renames(d) : c.new = k => c \in u[LastTurn].legs
  <2>1. \A c \in Renames(d) : Turn(c) <= LastTurn
    BY <1>2, <1>4
  <2> QED
    BY <1>9, <2>1
<1> QED
  BY <1>1, <1>10 DEF k

-----------------------------------------------------------------------------
(* The candidates of a universe.                                           *)

\* The dates of an identifier candidate.
Row == [from : 0 .. NumDays, to : 0 .. Open]

\* The candidates of a key: its ticker and the tickers renamed into it.
LEMMA UniverseIs ==
    ASSUME NEW d \in Days
    PROVE  /\ DOMAIN Universe(d) = Renamed(d).admitted
           /\ \A k \in Renamed(d).admitted :
                  LET legs == {c \in Renamed(d).legs : c.new = k}
                  IN  /\ DOMAIN Universe(d)[k] = {k} \cup {c.old : c \in legs}
                      /\ Universe(d)[k][k] = [from |-> Max({Merged(k, d).from} \cup {c.on : c \in legs}),
                                              to |-> Merged(k, d).to]
                      /\ \A o \in {c.old : c \in legs} : o # k =>
                             Universe(d)[k][o] =
                                 [from |-> DateMin, to |-> Max({c.on : c \in {c \in legs : c.old = o}}) - 1]
BY DEF Universe, RowsOf, LegsOf

\* The candidates are well-typed, and only the key's own ticker is open.
LEMMA UniverseType ==
    ASSUME history \in Histories, NEW d \in Days, NEW k \in DOMAIN Universe(d)
    PROVE  /\ k \in Tickers /\ DOMAIN Universe(d)[k] \subseteq Tickers /\ k \in DOMAIN Universe(d)[k]
           /\ \A t \in DOMAIN Universe(d)[k] :
                  /\ Universe(d)[k][t] \in Row
                  /\ Universe(d)[k][t].to = Open => t = k /\ Universe(d)[k][t].from # DateMin
<1> DEFINE legs == {c \in Renamed(d).legs : c.new = k}
           own == Universe(d)[k]
<1>1. k \in Renamed(d).admitted /\ k \in Symbols(d) /\ k \in Tickers
  BY RenamedType, UniverseIs
<1>2. \A c \in legs : c \in Renames(d) /\ c.old \in Tickers /\ c.on \in 2 .. NumDays
  <2> SUFFICES ASSUME NEW c \in legs
               PROVE  c \in Renames(d) /\ c.old \in Tickers /\ c.on \in 2 .. NumDays
    OBVIOUS
  <2>1. c \in Renames(d) /\ c \in Change
    BY RenamedType, RenamesAre
  <2>2. PICK r \in Sec : \E e \in Moves(history, r) :
            e <= d /\ c = [old |-> history[r][e - 1], new |-> history[r][e], on |-> e]
    BY <2>1, RenamesAre
  <2>3. c.on \in Moves(history, r)
    BY <2>2
  <2> QED
    BY <2>1, <2>3 DEF Moves, Change
<1>3. /\ DOMAIN own = {k} \cup {c.old : c \in legs}
      /\ own[k] = [from |-> Max({Merged(k, d).from} \cup {c.on : c \in legs}), to |-> Merged(k, d).to]
      /\ \A o \in {c.old : c \in legs} : o # k =>
             own[o] = [from |-> DateMin, to |-> Max({c.on : c \in {c \in legs : c.old = o}}) - 1]
  BY <1>1, UniverseIs
<1> HIDE DEF own, legs
<1>4. NumDays \in Nat /\ Open = NumDays + 1 /\ DateMin = 0 /\ Days = 1 .. NumDays
  BY FmpAssumption DEF Open, DateMin, Days
<1>5. Merged(k, d).from \in Days /\ Merged(k, d).to \in Days \cup {Open}
  <2>1. Merged(k, d) \in [from : Days, to : Days \cup {Open}]
    BY <1>1, MergedType
  <2> QED
    BY <2>1
<1>6. own[k] \in Row /\ own[k].from # DateMin
  <2> DEFINE T == {Merged(k, d).from} \cup {c.on : c \in legs}
  <2>1. T \subseteq 0 .. NumDays /\ T # {} /\ \A t \in T : t # 0
    BY <1>2, <1>4, <1>5
  <2> HIDE DEF T
  <2>2. Max(T) \in 0 .. NumDays /\ Max(T) # 0
    BY <1>4, <2>1, MaxOf
  <2>3. own[k] = [from |-> Max(T), to |-> Merged(k, d).to]
    BY <1>3 DEF T
  <2> QED
    BY <1>4, <1>5, <2>2, <2>3 DEF Row
<1>7. ASSUME NEW o \in {c.old : c \in legs}, o # k
      PROVE  own[o] \in Row /\ own[o].to # Open
  <2> DEFINE T == {c.on : c \in {c \in legs : c.old = o}}
  <2>1. T \subseteq 0 .. NumDays /\ T # {} /\ \A t \in T : t # 0
    BY <1>2, <1>4
  <2> HIDE DEF T
  <2>2. Max(T) \in 0 .. NumDays /\ Max(T) # 0
    BY <1>4, <2>1, MaxOf
  <2>3. own[o] = [from |-> DateMin, to |-> Max(T) - 1]
    BY <1>3, <1>7 DEF T
  <2>4. Max(T) - 1 \in 0 .. NumDays /\ Max(T) - 1 # Open
    BY <1>4, <2>2
  <2> QED
    BY <1>4, <2>3, <2>4 DEF Row
<1>8. DOMAIN own \subseteq Tickers
  BY <1>1, <1>2, <1>3
<1>9. \A t \in DOMAIN own : t = k \/ t \in {c.old : c \in legs}
  BY <1>3
<1>10. \A t \in DOMAIN own : own[t] \in Row /\ (own[t].to = Open => t = k /\ own[t].from # DateMin)
  BY <1>6, <1>7, <1>9
<1> QED
  BY <1>1, <1>3, <1>8, <1>10 DEF own

\* The tickers of a key are all of the security that is alone, or none is.
LEMMA UniverseSplit ==
    ASSUME history \in Histories, NEW s \in Sec, Alone(history, s), NEW d \in Days,
           NEW k \in DOMAIN Universe(d), NEW t \in DOMAIN Universe(d)[k]
    PROVE  t \in Tick(history, s) <=> k \in Tick(history, s)
<1> DEFINE legs == {c \in Renamed(d).legs : c.new = k}
<1>1. DOMAIN Universe(d)[k] = {k} \cup {c.old : c \in legs}
  BY UniverseIs
<1>2. \A c \in legs : c \in Renames(d) /\ c.new = k
  BY RenamedType
<1> HIDE DEF legs
<1>3. t = k \/ \E c \in legs : t = c.old
  BY <1>1
<1> QED
  BY <1>2, <1>3, ChangesOf

\* Before it is first listed nothing is shown of it.
LEMMA UniverseUnknown ==
    ASSUME history \in Histories, NEW s \in Sec, Alone(history, s), NEW d \in Days,
           ~ Known(history, s, d), NEW k \in DOMAIN Universe(d)
    PROVE  k \notin Tick(history, s)
BY RenamedType, UniverseIs, SymbolsOf

\* Afterwards its last ticker is the one key, and the candidates of that key are
\* those of the last ticker and of each ticker it was renamed from into it.
LEMMA UniverseOf ==
    ASSUME history \in Histories, NEW s \in Sec, Alone(history, s), NEW d \in Days,
           NEW x \in 1 .. d, NEW y \in 1 .. d, Episode(history, s, d, x, y)
    PROVE  LET k == history[s][y]
               own == Universe(d)[k]
           IN  /\ k \in DOMAIN Universe(d) /\ k \in Tick(history, s)
               /\ \A j \in DOMAIN Universe(d) : j \in Tick(history, s) => j = k
               /\ own[k] = [from |-> x, to |-> Ending(history, s, d, y)]
               /\ \A e \in Moves(history, s) :
                      e <= d /\ history[s][e] = k => history[s][e - 1] \in DOMAIN own
               /\ \A o \in DOMAIN own : o # k => \E e \in Moves(history, s) :
                      /\ e <= d /\ history[s][e] = k /\ history[s][e - 1] = o
                      /\ own[o] = [from |-> DateMin, to |-> e - 1]
                      /\ \A f \in Moves(history, s) :
                             f <= d /\ history[s][f] = k /\ history[s][f - 1] = o => f <= e
<1> DEFINE k == history[s][y]
           own == Universe(d)[k]
           legs == {c \in Renamed(d).legs : c.new = k}
<1>1. k \in Renamed(d).admitted /\ k \in DOMAIN Universe(d)
  BY RenamedOf, UniverseIs
<1>2. k \in Tick(history, s)
  BY SymbolsOf
<1>3. ASSUME NEW j \in DOMAIN Universe(d), j \in Tick(history, s)
      PROVE  j = k
  BY <1>3, RenamedType, UniverseIs, SymbolsOf
<1>4. ASSUME NEW e \in Moves(history, s), e <= d, history[s][e] = k
      PROVE  \E c \in legs : c.old = history[s][e - 1] /\ c.on = e
  <2> DEFINE c == [old |-> history[s][e - 1], new |-> history[s][e], on |-> e]
  <2>1. c \in Renames(d)
    BY <1>4, RenamesAre
  <2>2. c.new = k /\ c.old = history[s][e - 1] /\ c.on = e
    BY <1>4
  <2>3. c \in legs
    BY <2>1, <2>2, RenamedOf
  <2> QED
    BY <2>2, <2>3
<1>5. ASSUME NEW c \in legs
      PROVE  c.on \in Moves(history, s) /\ c.on <= d /\ c.old = history[s][c.on - 1]
             /\ history[s][c.on] = k
  <2>1. c \in Renames(d) /\ c.new = k
    BY RenamedType
  <2> QED
    BY <1>2, <2>1, ChangesOf
<1>6. /\ DOMAIN own = {k} \cup {c.old : c \in legs}
      /\ own[k] = [from |-> Max({Merged(k, d).from} \cup {c.on : c \in legs}), to |-> Merged(k, d).to]
      /\ \A o \in {c.old : c \in legs} : o # k =>
             own[o] = [from |-> DateMin, to |-> Max({c.on : c \in {c \in legs : c.old = o}}) - 1]
  BY <1>1, UniverseIs
<1>7. Merged(k, d).from = FirstDay(s) /\ Merged(k, d).to = Ending(history, s, d, y)
  <2>1. Merged(k, d) = [from |-> FirstDay(s), to |-> Ending(history, s, d, y)]
    BY MergedOf
  <2> QED
    BY <2>1
<1>8. /\ FirstDay(s) \in Days /\ FirstDay(s) <= x /\ x \in Days
      /\ FirstDay(s) = x \/ x \in Moves(history, s)
      /\ history[s][x] = k
  BY EpisodeDates
<1>9. NumDays \in Nat /\ Days = 1 .. NumDays /\ Moves(history, s) \subseteq 2 .. NumDays
      /\ d \in Days
  BY FmpAssumption DEF Days, Moves
<1> HIDE DEF own, legs, k
<1>10. Max({Merged(k, d).from} \cup {c.on : c \in legs}) = x
  <2> DEFINE T == {Merged(k, d).from} \cup {c.on : c \in legs}
  <2>1. T \subseteq 0 .. NumDays /\ T # {}
    BY <1>5, <1>7, <1>8, <1>9
  <2>2. x \in T
    <3>1. CASE FirstDay(s) = x
      BY <1>7, <3>1
    <3>2. CASE x \in Moves(history, s)
      <4>1. x <= d
        BY <1>9
      <4>2. PICK c \in legs : c.on = x
        BY <1>4, <1>8, <3>2, <4>1
      <4> QED
        BY <4>2
    <3> QED
      BY <1>8, <3>1, <3>2
  <2>3. \A t \in T : t <= x
    BY <1>5, <1>7, <1>8, MovesBefore
  <2> HIDE DEF T
  <2>4. Max(T) \in T /\ Max(T) \in 0 .. NumDays /\ x <= Max(T)
    BY <1>9, <2>1, <2>2, MaxOf
  <2>5. Max(T) = x
    BY <1>8, <1>9, <2>3, <2>4
  <2> QED
    BY <2>5 DEF T
<1>11. ASSUME NEW o \in DOMAIN own, o # k
       PROVE  \E e \in Moves(history, s) :
                  /\ e <= d /\ history[s][e] = k /\ history[s][e - 1] = o
                  /\ own[o] = [from |-> DateMin, to |-> e - 1]
                  /\ \A f \in Moves(history, s) :
                         f <= d /\ history[s][f] = k /\ history[s][f - 1] = o => f <= e
  <2> DEFINE T == {c.on : c \in {c \in legs : c.old = o}}
  <2>1. o \in {c.old : c \in legs}
    BY <1>6, <1>11
  <2>2. T \subseteq 0 .. NumDays /\ T # {}
    BY <1>5, <1>9, <2>1
  <2>3. \A t \in T : t \in Moves(history, s) /\ t <= d /\ history[s][t] = k /\ history[s][t - 1] = o
    BY <1>5
  <2>4. \A f \in Moves(history, s) : f <= d /\ history[s][f] = k /\ history[s][f - 1] = o => f \in T
    BY <1>4
  <2>5. own[o] = [from |-> DateMin, to |-> Max(T) - 1]
    BY <1>6, <1>11, <2>1
  <2> HIDE DEF T
  <2>6. Max(T) \in T /\ \A t \in T : t <= Max(T)
    BY <1>9, <2>2, MaxOf
  <2>7. /\ Max(T) \in Moves(history, s) /\ Max(T) <= d /\ history[s][Max(T)] = k
        /\ history[s][Max(T) - 1] = o
        /\ \A f \in Moves(history, s) :
               f <= d /\ history[s][f] = k /\ history[s][f - 1] = o => f <= Max(T)
    BY <2>3, <2>4, <2>6
  <2> QED
    BY <2>5, <2>7
<1>12. \A e \in Moves(history, s) : e <= d /\ history[s][e] = k => history[s][e - 1] \in DOMAIN own
  BY <1>4, <1>6
<1> QED
  BY <1>1, <1>2, <1>3, <1>6, <1>7, <1>10, <1>11, <1>12 DEF k, own

-----------------------------------------------------------------------------
(* The asset of a key.                                                     *)

\* The frame of candidates: of a key only its own ticker may be open.
Frame(rows) ==
    \A k \in DOMAIN rows :
        /\ k \in Tickers /\ k \in DOMAIN rows[k] /\ DOMAIN rows[k] \subseteq Tickers
        /\ \A t \in DOMAIN rows[k] :
               rows[k][t] \in Row /\ (rows[k][t].to = Open => t = k /\ rows[k][t].from # DateMin)

\* The universe of a day is such a frame.
LEMMA UniverseFrame ==
    ASSUME history \in Histories, NEW d \in Days
    PROVE  Frame(Universe(d))
BY UniverseType DEF Frame

\* The tickers of a key that lead to a stored asset.
Reach(rows, k, db) ==
    {t \in DOMAIN rows[k] :
        \/ OpenRows(db, t) # {}
        \/ /\ rows[k][t].to # Open
           /\ \E i \in db : i.ticker = t /\ i.from = rows[k][t].from /\ i.to = rows[k][t].to}

\* A key that reaches a stored identifier takes the asset of one, any other is new.
LEMMA AssetOfKeyIs ==
    ASSUME NEW rows, Frame(rows), NEW db, db \subseteq Identifier, NEW k \in DOMAIN rows
    PROVE  /\ Reach(rows, k, db) = {} => AssetOfKey(rows, k, db) = 0
           /\ Reach(rows, k, db) # {} =>
                  \E i \in db : i.ticker \in DOMAIN rows[k] /\ AssetOfKey(rows, k, db) = i.asset
<1> DEFINE own == rows[k]
           same(t) == {i \in db : i.ticker = t /\ i.from = own[t].from /\ i.to = own[t].to}
           bounded == {t \in DOMAIN own : own[t].to # Open}
           bridges == {t \in bounded : same(t) = {} /\ OpenRows(db, t) # {}}
           current == {t \in DOMAIN own \ bounded : OpenRows(db, t) # {}}
           earlier == {t \in bounded : same(t) # {}}
           first(S) == CHOOSE t \in S : \A o \in S : o = k \/ (t # k /\ own[t].to <= own[o].to)
<1>1. AssetOfKey(rows, k, db) =
          IF bridges # {} THEN AnAsset(OpenRows(db, first(bridges)))
          ELSE IF current # {} THEN AnAsset(OpenRows(db, first(current)))
          ELSE IF earlier # {} THEN AnAsset(same(first(earlier)))
          ELSE 0
  BY DEF AssetOfKey
<1>2. ASSUME NEW S, S \subseteq DOMAIN own, S # {}
      PROVE  first(S) \in S
  <2> SUFFICES \E t \in S : \A o \in S : o = k \/ (t # k /\ own[t].to <= own[o].to)
    OBVIOUS
  <2>1. CASE S \subseteq {k}
    BY <1>2, <2>1
  <2>2. CASE ~(S \subseteq {k})
    <3> DEFINE L == {own[t].to : t \in S \ {k}}
    <3>1. \A t \in S : own[t].to \in 0 .. Open
      BY <1>2 DEF Frame, Row
    <3>2. L \subseteq Nat /\ L # {}
      BY <2>2, <3>1
    <3>3. PICK m \in L : \A l \in L : m <= l
      <4> HIDE DEF L
      <4> QED
        BY <3>2, Least
    <3>4. PICK t \in S \ {k} : m = own[t].to
      OBVIOUS
    <3>5. \A o \in S : o = k \/ own[t].to <= own[o].to
      BY <3>3, <3>4
    <3> QED
      BY <3>4, <3>5
  <2> QED
    BY <2>1, <2>2
<1>3. Reach(rows, k, db) = bridges \cup current \cup earlier
  <2>1. \A t \in DOMAIN own :
            t \in Reach(rows, k, db) <=> t \in bridges \/ t \in current \/ t \in earlier
    BY DEF Reach
  <2>2. Reach(rows, k, db) \subseteq DOMAIN own
    BY DEF Reach
  <2> QED
    BY <2>1, <2>2
<1>4. ASSUME NEW t \in DOMAIN own, OpenRows(db, t) # {}
      PROVE  \E i \in db : i.ticker \in DOMAIN own /\ AnAsset(OpenRows(db, t)) = i.asset
  BY <1>4 DEF AnAsset, OpenRows
<1>5. ASSUME NEW t \in DOMAIN own, same(t) # {}
      PROVE  \E i \in db : i.ticker \in DOMAIN own /\ AnAsset(same(t)) = i.asset
  BY <1>5 DEF AnAsset
<1>6. bridges # {} => first(bridges) \in bridges
  <2>1. bridges \subseteq DOMAIN own
    OBVIOUS
  <2> HIDE DEF bridges, first
  <2> QED
    BY <1>2, <2>1
<1>7. current # {} => first(current) \in current
  <2>1. current \subseteq DOMAIN own
    OBVIOUS
  <2> HIDE DEF current, first
  <2> QED
    BY <1>2, <2>1
<1>8. earlier # {} => first(earlier) \in earlier
  <2>1. earlier \subseteq DOMAIN own
    OBVIOUS
  <2> HIDE DEF earlier, first
  <2> QED
    BY <1>2, <2>1
<1>9. bridges # {} => \E i \in db : i.ticker \in DOMAIN own /\ AnAsset(OpenRows(db, first(bridges))) = i.asset
  <2> HIDE DEF first, same
  <2> QED
    BY <1>4, <1>6
<1>10. current # {} => \E i \in db : i.ticker \in DOMAIN own /\ AnAsset(OpenRows(db, first(current))) = i.asset
  <2> HIDE DEF first, same
  <2> QED
    BY <1>4, <1>7
<1>11. earlier # {} => \E i \in db : i.ticker \in DOMAIN own /\ AnAsset(same(first(earlier))) = i.asset
  <2> HIDE DEF first, same
  <2> QED
    BY <1>5, <1>8
<1> HIDE DEF bridges, current, earlier, first, same, bounded
<1> QED
  BY <1>1, <1>3, <1>9, <1>10, <1>11

\* The new keys are finitely many.
LEMMA NewKeysAre ==
    ASSUME NEW rows, Frame(rows), NEW db
    PROVE  /\ NewKeys(rows, db) \subseteq DOMAIN rows
           /\ IsFiniteSet(NewKeys(rows, db)) /\ Cardinality(NewKeys(rows, db)) \in Nat
           /\ \A T \in SUBSET NewKeys(rows, db) : IsFiniteSet(T) /\ Cardinality(T) \in Nat
<1>1. NewKeys(rows, db) \subseteq DOMAIN rows
  BY DEF NewKeys, Keys
<1>2. NewKeys(rows, db) \subseteq 1 .. NumTickers
  BY <1>1 DEF Frame, Tickers
<1>3. IsFiniteSet(1 .. NumTickers)
  BY FmpAssumption, FS_Interval
<1>4. IsFiniteSet(NewKeys(rows, db))
  BY <1>2, <1>3, FS_Subset
<1> QED
  BY <1>1, <1>4, FS_Subset, FS_CardinalityType

\* New assets take numbers of their own.
LEMMA NaturalToIdIs ==
    ASSUME NEW rows, Frame(rows), NEW db, db \subseteq Identifier, NEW n \in Nat
    PROVE  /\ DOMAIN NaturalToId(rows, db, n) = DOMAIN rows
           /\ \A k \in DOMAIN rows : k \notin NewKeys(rows, db) =>
                  /\ \E i \in db : i.ticker \in DOMAIN rows[k] /\ NaturalToId(rows, db, n)[k] = i.asset
                  /\ NaturalToId(rows, db, n)[k] # 0
           /\ \A k \in NewKeys(rows, db) :
                  NaturalToId(rows, db, n)[k] \in n .. n + Cardinality(NewKeys(rows, db)) - 1
           /\ \A j, k \in NewKeys(rows, db) :
                  NaturalToId(rows, db, n)[j] = NaturalToId(rows, db, n)[k] => j = k
           /\ \A k \in DOMAIN rows : NaturalToId(rows, db, n)[k] \in Nat
<1> DEFINE map == NaturalToId(rows, db, n)
           new == NewKeys(rows, db)
           below(k) == {j \in new : j < k}
<1>1. /\ DOMAIN map = DOMAIN rows
      /\ \A k \in DOMAIN rows : map[k] = IF AssetOfKey(rows, k, db) # 0 THEN AssetOfKey(rows, k, db)
                                         ELSE n + Cardinality(below(k))
  BY DEF NaturalToId, Keys
<1>2. \A k \in DOMAIN rows : k \in new <=> AssetOfKey(rows, k, db) = 0
  BY DEF NewKeys, Keys
<1>3. /\ new \subseteq DOMAIN rows /\ IsFiniteSet(new) /\ Cardinality(new) \in Nat
      /\ \A T \in SUBSET new : IsFiniteSet(T) /\ Cardinality(T) \in Nat
  BY NewKeysAre
<1>4. new \subseteq Nat
  BY <1>3, FmpAssumption DEF Frame, Tickers
<1> HIDE DEF map, new
<1>5. ASSUME NEW k \in DOMAIN rows, k \notin new
      PROVE  (\E i \in db : i.ticker \in DOMAIN rows[k] /\ map[k] = i.asset) /\ map[k] # 0
  <2>1. AssetOfKey(rows, k, db) # 0 /\ map[k] = AssetOfKey(rows, k, db)
    BY <1>1, <1>2, <1>5
  <2> QED
    BY <2>1, AssetOfKeyIs
<1>6. \A k \in new : map[k] = n + Cardinality(below(k)) /\ below(k) \in SUBSET new
  BY <1>1, <1>2, <1>3
<1>7. ASSUME NEW k \in new
      PROVE  map[k] \in n .. n + Cardinality(new) - 1
  <2>1. below(k) # new
    BY <1>4
  <2>2. /\ Cardinality(below(k)) <= Cardinality(new) /\ Cardinality(below(k)) # Cardinality(new)
        /\ Cardinality(below(k)) \in Nat
    <3> HIDE DEF below
    <3> QED
      BY <1>3, <1>6, <2>1, FS_Subset
  <2> HIDE DEF below
  <2> QED
    BY <1>3, <1>6, <2>2
<1>8. ASSUME NEW j \in new, NEW k \in new, j < k
      PROVE  map[j] # map[k]
  <2>a. j \in Nat /\ k \in Nat /\ ~(j < j) /\ \A i \in new : i \in Nat /\ (i < j => i < k)
    BY <1>4, <1>8
  <2>b. j \in below(k) /\ j \notin below(j)
    BY <1>8, <2>a
  <2>c. below(j) \subseteq below(k)
    BY <2>a
  <2>1. below(j) \subseteq below(k) /\ below(j) # below(k)
    <3> HIDE DEF below
    <3> QED
      BY <2>b, <2>c
  <2>2. /\ IsFiniteSet(below(k)) /\ Cardinality(below(k)) \in Nat /\ Cardinality(below(j)) \in Nat
    <3> HIDE DEF below
    <3> QED
      BY <1>3, <1>6
  <2>3. Cardinality(below(j)) # Cardinality(below(k))
    <3> HIDE DEF below
    <3> QED
      BY <2>1, <2>2, FS_Subset
  <2> HIDE DEF below
  <2> QED
    BY <1>6, <2>2, <2>3
<1>9. ASSUME NEW j \in new, NEW k \in new, map[j] = map[k]
      PROVE  j = k
  <2>1. j < k \/ k < j \/ j = k
    BY <1>4
  <2> QED
    BY <1>8, <1>9, <2>1
<1>10. ASSUME NEW k \in DOMAIN rows
       PROVE  map[k] \in Nat
  <2>1. CASE k \in new
    BY <1>3, <1>7, <2>1
  <2>2. CASE k \notin new
    <3>1. PICK i \in db : map[k] = i.asset
      BY <1>5, <2>2
    <3> QED
      BY <3>1 DEF Identifier
  <2> QED
    BY <2>1, <2>2
<1> QED
  BY <1>1, <1>5, <1>7, <1>9, <1>10 DEF map, new

-----------------------------------------------------------------------------
(* Publishing the candidates of one key.                                   *)

\* The identifiers of a ticker.
Of(db, t) == {i \in db : i.ticker = t}

\* The fields of an identifier.
LEMMA IdentifierIs ==
    ASSUME NEW a, NEW t, NEW f, NEW e
    PROVE  /\ [asset |-> a, ticker |-> t, from |-> f, to |-> e].asset = a
           /\ [asset |-> a, ticker |-> t, from |-> f, to |-> e].ticker = t
           /\ [asset |-> a, ticker |-> t, from |-> f, to |-> e].from = f
           /\ [asset |-> a, ticker |-> t, from |-> f, to |-> e].to = e
           /\ a \in Nat /\ t \in Tickers /\ f \in 0 .. NumDays /\ e \in 0 .. Open
                  => [asset |-> a, ticker |-> t, from |-> f, to |-> e] \in Identifier
BY DEF Identifier

\* Closing an identifier changes its valid_to alone.
LEMMA CloseIs ==
    ASSUME NEW i \in Identifier, NEW e \in 0 .. Open
    PROVE  /\ [i EXCEPT !.to = e] \in Identifier
           /\ [i EXCEPT !.to = e].asset = i.asset /\ [i EXCEPT !.to = e].ticker = i.ticker
           /\ [i EXCEPT !.to = e].from = i.from /\ [i EXCEPT !.to = e].to = e
BY DEF Identifier

\* What a candidate r of asset a makes of the stored identifiers db of its ticker t.
Outcome(db, t, r, a, result) ==
    LET new == [asset |-> a, ticker |-> t, from |-> r.from, to |-> r.to]
    IN  \/ OpenRows(db, t) = {} /\ result = Upsert(db, new)
        \/ \E x \in OpenRows(db, t) :
               r.to # Open /\ x.asset = a /\ result = (db \ {x}) \cup {[x EXCEPT !.to = r.to]}
        \/ \E x \in OpenRows(db, t) : r.to = Open /\ x.asset = a /\ result = db
        \/ \E x \in OpenRows(db, t) :
               /\ r.to = Open /\ x.asset # a /\ r.from - 1 \in 0 .. Open
               /\ result = Upsert((db \ {x}) \cup {[x EXCEPT !.to = r.from - 1]}, new)

\* Identify has no other outcome.
LEMMA IdentifyCases ==
    ASSUME NEW t \in Tickers, NEW db, db \subseteq Identifier, \A i \in db : i.ticker = t,
           NEW r \in Row, r.to = Open => r.from # DateMin, NEW a \in Nat, ~ Conflict(db, t, r, a)
    PROVE  Outcome(db, t, r, a, Identify(db, t, r, a))
<1> DEFINE open == OpenRows(db, t)
           x == CHOOSE i \in open : TRUE
           new == [asset |-> a, ticker |-> t, from |-> r.from, to |-> r.to]
<1>1. CASE open = {}
  <2>1. Identify(db, t, r, a) = Upsert(db, new)
    BY <1>1 DEF Identify
  <2> QED
    BY <1>1, <2>1 DEF Outcome
<1>2. CASE open # {}
  <2>1. x \in open
    BY <1>2
  <2>2. ~(IF r.to # Open THEN x.asset # a \/ x.from > r.to
          ELSE x.asset # a /\ (r.from = DateMin \/ x.from > r.from - 1))
    BY <1>2 DEF Conflict
  <2>3. CASE r.to # Open
    <3>1. Identify(db, t, r, a) = CloseAt(db, x, r.to)
      BY <1>2, <2>3 DEF Identify
    <3> HIDE DEF x, open
    <3>2. x.asset = a
      BY <2>2, <2>3
    <3>3. x \in OpenRows(db, t)
      BY <2>1 DEF open
    <3> QED
      BY <2>3, <3>1, <3>2, <3>3 DEF CloseAt, Outcome
  <2>4. CASE r.to = Open /\ x.asset = a
    <3>1. Identify(db, t, r, a) = db
      BY <1>2, <2>4 DEF Identify
    <3> HIDE DEF x
    <3> QED
      BY <2>1, <2>4, <3>1 DEF Outcome
  <2>5. CASE r.to = Open /\ x.asset # a
    <3>1. Identify(db, t, r, a) = Upsert(CloseAt(db, x, r.from - 1), new)
      BY <1>2, <2>5 DEF Identify
    <3>2. r.from \in 0 .. NumDays /\ r.from # 0 /\ NumDays \in Nat /\ Open = NumDays + 1
      BY <2>5, FmpAssumption DEF Row, DateMin, Open
    <3>3. r.from - 1 \in 0 .. Open
      BY <3>2
    <3> HIDE DEF x
    <3> QED
      BY <2>1, <2>5, <3>1, <3>3 DEF CloseAt, Outcome
  <2> QED
    BY <2>3, <2>4, <2>5
<1> QED
  BY <1>1, <1>2

\* Identify loses no asset of the ticker and adds that of the candidate alone.
LEMMA IdentifyIs ==
    ASSUME NEW t \in Tickers, NEW db, db \subseteq Identifier, \A i \in db : i.ticker = t,
           NEW r \in Row, r.to = Open => r.from # DateMin, NEW a \in Nat, ~ Conflict(db, t, r, a)
    PROVE  LET result == Identify(db, t, r, a)
           IN  /\ result \subseteq Identifier /\ \A i \in result : i.ticker = t
               /\ \A i \in result : i.asset = a \/ \E j \in db : j.asset = i.asset
               /\ \A j \in db : \E i \in result : i.asset = j.asset
               /\ \E i \in result : i.asset = a
<1> DEFINE result == Identify(db, t, r, a)
           new == [asset |-> a, ticker |-> t, from |-> r.from, to |-> r.to]
<1>1. r.from \in 0 .. NumDays /\ r.to \in 0 .. Open
  BY DEF Row
<1>2. new \in Identifier /\ new.asset = a /\ new.ticker = t
  BY <1>1, IdentifierIs
<1>3. ASSUME NEW S, S \subseteq Identifier, \A i \in S : i.ticker = t
      PROVE  /\ Upsert(S, new) \subseteq Identifier /\ \A i \in Upsert(S, new) : i.ticker = t
             /\ \A i \in Upsert(S, new) : i.asset = a \/ \E j \in S : j.asset = i.asset
             /\ \A j \in S : \E i \in Upsert(S, new) : i.asset = j.asset
             /\ \E i \in Upsert(S, new) : i.asset = a
  <2> HIDE DEF new
  <2>1. new \in Upsert(S, new) /\ \A i \in Upsert(S, new) : i = new \/ i \in S
    BY DEF Upsert
  <2>2. \A j \in S : j \in Upsert(S, new) \/ j.asset = new.asset
    BY DEF Upsert
  <2> QED
    BY <1>2, <1>3, <2>1, <2>2
<1>4. ASSUME NEW x \in OpenRows(db, t), NEW e \in 0 .. Open
      PROVE  LET S == (db \ {x}) \cup {[x EXCEPT !.to = e]}
             IN  /\ S \subseteq Identifier /\ \A i \in S : i.ticker = t
                 /\ \A i \in S : \E j \in db : j.asset = i.asset
                 /\ \A j \in db : \E i \in S : i.asset = j.asset
  <2> DEFINE c == [x EXCEPT !.to = e]
  <2>1. x \in db /\ x \in Identifier
    BY DEF OpenRows
  <2>2. c \in Identifier /\ c.asset = x.asset /\ c.ticker = t
    BY <2>1, CloseIs
  <2> HIDE DEF c
  <2> DEFINE S == (db \ {x}) \cup {c}
  <2>3. S \subseteq Identifier /\ \A i \in S : i.ticker = t
    BY <2>2
  <2>4. \A i \in S : \E j \in db : j.asset = i.asset
    BY <2>1, <2>2
  <2>5. \A j \in db : \E i \in S : i.asset = j.asset
    BY <2>2
  <2> QED
    BY <2>3, <2>4, <2>5 DEF c
<1>5. CASE result = Upsert(db, new)
  <2> HIDE DEF result, new
  <2> QED
    BY <1>3, <1>5 DEF result
<1>6. CASE \E x \in OpenRows(db, t) :
               r.to # Open /\ x.asset = a /\ result = (db \ {x}) \cup {[x EXCEPT !.to = r.to]}
  <2>1. PICK x \in OpenRows(db, t) : x.asset = a /\ result = (db \ {x}) \cup {[x EXCEPT !.to = r.to]}
    BY <1>6
  <2>2. x \in db
    BY DEF OpenRows
  <2> HIDE DEF result
  <2>3. /\ result \subseteq Identifier /\ \A i \in result : i.ticker = t
        /\ \A i \in result : \E j \in db : j.asset = i.asset
        /\ \A j \in db : \E i \in result : i.asset = j.asset
    BY <1>1, <1>4, <2>1
  <2> QED
    BY <2>1, <2>2, <2>3 DEF result
<1>7. CASE \E x \in OpenRows(db, t) : r.to = Open /\ x.asset = a /\ result = db
  <2>1. PICK x \in OpenRows(db, t) : x.asset = a /\ result = db
    BY <1>7
  <2>2. x \in db
    BY DEF OpenRows
  <2> HIDE DEF result
  <2> QED
    BY <2>1, <2>2 DEF result
<1>8. CASE \E x \in OpenRows(db, t) :
               /\ r.to = Open /\ x.asset # a /\ r.from - 1 \in 0 .. Open
               /\ result = Upsert((db \ {x}) \cup {[x EXCEPT !.to = r.from - 1]}, new)
  <2>1. PICK x \in OpenRows(db, t) :
            /\ r.from - 1 \in 0 .. Open
            /\ result = Upsert((db \ {x}) \cup {[x EXCEPT !.to = r.from - 1]}, new)
    BY <1>8
  <2> DEFINE S == (db \ {x}) \cup {[x EXCEPT !.to = r.from - 1]}
  <2>2. /\ S \subseteq Identifier /\ \A i \in S : i.ticker = t
        /\ \A i \in S : \E j \in db : j.asset = i.asset
        /\ \A j \in db : \E i \in S : i.asset = j.asset
    BY <1>4, <2>1
  <2> HIDE DEF result, new, S
  <2>3. result = Upsert(S, new)
    BY <2>1 DEF S
  <2>4. /\ Upsert(S, new) \subseteq Identifier /\ \A i \in Upsert(S, new) : i.ticker = t
        /\ \A i \in Upsert(S, new) : i.asset = a \/ \E j \in S : j.asset = i.asset
        /\ \A j \in S : \E i \in Upsert(S, new) : i.asset = j.asset
        /\ \E i \in Upsert(S, new) : i.asset = a
    BY <1>3, <2>2
  <2> QED
    BY <2>2, <2>3, <2>4 DEF result
<1>9. Outcome(db, t, r, a, result)
  BY IdentifyCases
<1> HIDE DEF result
<1> QED
  BY <1>5, <1>6, <1>7, <1>8, <1>9 DEF Outcome, result

\* The state of publish_assets between two keys.
Publication == [ids : SUBSET Identifier, ok : BOOLEAN]
\* The candidates of one key.
Candidates(own) ==
    /\ DOMAIN own \subseteq Tickers
    /\ \A t \in DOMAIN own : own[t] \in Row /\ (own[t].to = Open => own[t].from # DateMin)

\* Publishing a key touches its tickers alone.
LEMMA PublishKeyIs ==
    ASSUME NEW p \in Publication, NEW own, Candidates(own), NEW a \in Nat
    PROVE  LET q == PublishKey(p, own, a)
           IN  /\ q \in Publication /\ (q.ok => p.ok)
               /\ q.ok => \A t \in Tickers :
                      IF t \in DOMAIN own
                      THEN ~ Conflict(Of(p.ids, t), t, own[t], a)
                           /\ Of(q.ids, t) = Identify(Of(p.ids, t), t, own[t], a)
                      ELSE Of(q.ids, t) = Of(p.ids, t)
<1> DEFINE q == PublishKey(p, own, a)
           bad == \E t \in DOMAIN own : Conflict(Of(p.ids, t), t, own[t], a)
           new == {i \in p.ids : i.ticker \notin DOMAIN own}
                  \cup UNION {Identify(Of(p.ids, t), t, own[t], a) : t \in DOMAIN own}
<1>1. p.ids \subseteq Identifier /\ p.ok \in BOOLEAN /\ p = [ids |-> p.ids, ok |-> p.ok]
  BY DEF Publication
<1>2. q = IF bad THEN [p EXCEPT !.ok = FALSE] ELSE [p EXCEPT !.ids = new]
  BY DEF PublishKey, Of
<1>3. CASE bad
  <2> HIDE DEF bad, new
  <2>1. q = [p EXCEPT !.ok = FALSE]
    BY <1>2, <1>3
  <2> HIDE DEF q
  <2>2. q \in Publication /\ q.ok = FALSE
    BY <1>1, <2>1 DEF Publication
  <2> QED
    BY <2>2 DEF q
<1>4. CASE ~ bad
  <2>1. ASSUME NEW t \in DOMAIN own
        PROVE  /\ ~ Conflict(Of(p.ids, t), t, own[t], a)
               /\ Identify(Of(p.ids, t), t, own[t], a) \subseteq Identifier
               /\ \A i \in Identify(Of(p.ids, t), t, own[t], a) : i.ticker = t
    <3>1. ~ Conflict(Of(p.ids, t), t, own[t], a)
      BY <1>4
    <3>2. Of(p.ids, t) \subseteq Identifier /\ \A i \in Of(p.ids, t) : i.ticker = t
      BY <1>1 DEF Of
    <3>3. t \in Tickers /\ own[t] \in Row /\ (own[t].to = Open => own[t].from # DateMin)
      BY DEF Candidates
    <3> QED
      BY <3>1, <3>2, <3>3, IdentifyIs
  <2>2. new \subseteq Identifier
    BY <1>1, <2>1
  <2>3. ASSUME NEW t \in DOMAIN own
        PROVE  Of(new, t) = Identify(Of(p.ids, t), t, own[t], a)
    <3> DEFINE G == {Identify(Of(p.ids, o), o, own[o], a) : o \in DOMAIN own}
    <3>1. ASSUME NEW i \in new, i.ticker = t
          PROVE  i \in Identify(Of(p.ids, t), t, own[t], a)
      <4>1. i \notin {j \in p.ids : j.ticker \notin DOMAIN own}
        BY <3>1
      <4>2. i \in UNION G
        BY <4>1
      <4>3. PICK o \in DOMAIN own : i \in Identify(Of(p.ids, o), o, own[o], a)
        BY <4>2
      <4>4. i.ticker = o
        BY <2>1, <4>3
      <4> QED
        BY <3>1, <4>3, <4>4
    <3>2. ASSUME NEW i \in Identify(Of(p.ids, t), t, own[t], a)
          PROVE  i \in new /\ i.ticker = t
      <4>1. i \in UNION G
        OBVIOUS
      <4> QED
        BY <2>1, <4>1
    <3> HIDE DEF new
    <3> QED
      BY <3>1, <3>2 DEF Of
  <2>4. ASSUME NEW t \in Tickers, t \notin DOMAIN own
        PROVE  Of(new, t) = Of(p.ids, t)
    <3>1. \A i \in new : i.ticker = t => i \in p.ids
      BY <2>1, <2>4
    <3>2. \A i \in p.ids : i.ticker = t => i \in new
      BY <2>4
    <3> HIDE DEF new
    <3> QED
      BY <3>1, <3>2 DEF Of
  <2>5. q = [p EXCEPT !.ids = new]
    BY <1>2, <1>4
  <2> HIDE DEF q, new, bad
  <2>6. q \in Publication /\ q.ids = new /\ q.ok = p.ok
    BY <1>1, <2>2, <2>5 DEF Publication
  <2> QED
    BY <2>1, <2>3, <2>4, <2>6 DEF q
<1> QED
  BY <1>3, <1>4

\* The candidates of each key of a frame.
LEMMA FrameCandidates ==
    ASSUME NEW rows, Frame(rows), NEW k \in DOMAIN rows
    PROVE  Candidates(rows[k])
BY DEF Frame, Candidates

\* PublishAssets is the end of a run of PublishKey over the keys.
LEMMA PublishRun ==
    ASSUME NEW rows, Frame(rows), NEW db, db \subseteq Identifier, NEW n \in Nat
    PROVE  \E p \in [0 .. NumTickers -> Publication] :
               /\ p[0] = [ids |-> db, ok |-> TRUE]
               /\ \A k \in 1 .. NumTickers :
                      p[k] = IF k \in DOMAIN rows
                             THEN PublishKey(p[k - 1], rows[k], NaturalToId(rows, db, n)[k])
                             ELSE p[k - 1]
               /\ PublishAssets(rows, db, n) = p[NumTickers]
<1> DEFINE map == NaturalToId(rows, db, n)
           base == [ids |-> db, ok |-> TRUE]
           Step(p, k) == IF k \in DOMAIN rows THEN PublishKey(p, rows[k], map[k]) ELSE p
           step == [x \in Publication \X (1 .. NumTickers) |-> Step(x[1], x[2])]
           Run(p) == p = [k \in 0 .. NumTickers |-> IF k = 0 THEN base ELSE Step(p[k - 1], k)]
<1>1. NumTickers \in Nat
  BY FmpAssumption
<1>2. base \in Publication
  BY DEF Publication
<1>3. \A k \in DOMAIN rows : map[k] \in Nat
  BY NaturalToIdIs
<1> HIDE DEF map
<1>4. ASSUME NEW p \in Publication, NEW k
      PROVE  Step(p, k) \in Publication
  BY <1>3, FrameCandidates, PublishKeyIs
<1>5. step \in Stepping(Publication, NumTickers)
  <2> HIDE DEF Step
  <2> QED
    BY <1>4 DEF Stepping
<1>6. \A p \in Publication : \A k \in 1 .. NumTickers : step[<<p, k>>] = Step(p, k)
  <2> HIDE DEF Step
  <2> QED
    OBVIOUS
<1>7. PICK v \in [0 .. NumTickers -> Publication] :
          v[0] = base /\ \A k \in 1 .. NumTickers : v[k] = step[<<v[k - 1], k>>]
  <2> HIDE DEF base, step
  <2>1. RunsOf(Publication, NumTickers, base, step) # {}
    BY <1>1, <1>2, <1>5, RunExists
  <2> QED
    BY <2>1 DEF RunsOf
<1>8. \A k \in 1 .. NumTickers : v[k] = Step(v[k - 1], k)
  <2>1. \A k \in 1 .. NumTickers : k - 1 \in 0 .. NumTickers /\ v[k - 1] \in Publication
    BY <1>1
  <2> HIDE DEF Step, step
  <2> QED
    BY <1>6, <1>7, <2>1
<1>9. Run(v)
  <2> HIDE DEF Step, base
  <2>1. \A k \in 0 .. NumTickers : v[k] = IF k = 0 THEN base ELSE Step(v[k - 1], k)
    <3> SUFFICES ASSUME NEW k \in 0 .. NumTickers
                 PROVE  v[k] = IF k = 0 THEN base ELSE Step(v[k - 1], k)
      OBVIOUS
    <3>1. k = 0 \/ k \in 1 .. NumTickers
      BY <1>1
    <3> QED
      BY <1>7, <1>8, <3>1
  <2> QED
    BY <2>1
<1> DEFINE p == CHOOSE x : Run(x)
<1>10. Run(p)
  <2> HIDE DEF Run
  <2> QED
    BY <1>9, Zenon
<1>11. PublishAssets(rows, db, n) = p[NumTickers]
  BY DEF PublishAssets, Keys, map
<1> HIDE DEF p
<1>12. \A k \in 0 .. NumTickers : p[k] = IF k = 0 THEN base ELSE Step(p[k - 1], k)
  <2> HIDE DEF Step, base
  <2> QED
    BY <1>10
<1>13. p[0] = base /\ \A k \in 1 .. NumTickers : p[k] = Step(p[k - 1], k)
  <2> HIDE DEF Step, base, Run
  <2> QED
    BY <1>1, <1>12
<1>14. \A k \in 0 .. NumTickers : p[k] \in Publication
  <2> DEFINE I == {k \in 0 .. NumTickers : p[k] \in Publication}
  <2> HIDE DEF Step, base, Run
  <2>1. 0 \in I
    BY <1>1, <1>2, <1>13
  <2>2. ASSUME NEW k \in 1 .. NumTickers, k - 1 \in I PROVE k \in I
    BY <1>4, <1>13, <2>2
  <2> HIDE DEF I
  <2>3. \A k \in 0 .. NumTickers : k \in I
    BY <1>1, <2>1, <2>2, UpTo
  <2> QED
    BY <2>3 DEF I
<1>15. p \in [0 .. NumTickers -> Publication]
  <2>1. p = [k \in 0 .. NumTickers |-> IF k = 0 THEN base ELSE Step(p[k - 1], k)]
    <3> HIDE DEF Step, base
    <3> QED
      BY <1>10
  <2>2. p = [k \in 0 .. NumTickers |-> p[k]]
    <3> HIDE DEF Step, base
    <3> QED
      BY <2>1
  <2> HIDE DEF Step, base, Run
  <2> QED
    BY <1>14, <2>2
<1> HIDE DEF Run
<1> QED
  BY <1>11, <1>13, <1>15 DEF map

\* What a publication without a conflict leaves: every identifier is one of the
\* stored ones or of a key, no asset loses a ticker, every key has one, and the
\* ticker of one key is published by it alone.
Published(rows, db, map, result) ==
    /\ \A i \in result :
           \/ \E j \in db : j.asset = i.asset /\ j.ticker = i.ticker
           \/ \E k \in DOMAIN rows : i.asset = map[k] /\ i.ticker \in DOMAIN rows[k]
    /\ \A j \in db : \E i \in result : i.asset = j.asset /\ i.ticker = j.ticker
    /\ \A k \in DOMAIN rows : \E i \in result : i.asset = map[k] /\ i.ticker = k
    /\ \A t \in Tickers : (\A j \in DOMAIN rows : t \notin DOMAIN rows[j]) => Of(result, t) = Of(db, t)
    /\ \A k \in DOMAIN rows : \A t \in DOMAIN rows[k] :
           (\A j \in DOMAIN rows : t \in DOMAIN rows[j] => j = k) =>
               /\ ~ Conflict(Of(db, t), t, rows[k][t], map[k])
               /\ Of(result, t) = Identify(Of(db, t), t, rows[k][t], map[k])

\* publish_assets without a conflict.
LEMMA PublishAssetsIs ==
    ASSUME NEW rows, Frame(rows), NEW db, db \subseteq Identifier, NEW n \in Nat
    PROVE  /\ PublishAssets(rows, db, n) \in Publication
           /\ PublishAssets(rows, db, n).ok =>
                  Published(rows, db, NaturalToId(rows, db, n), PublishAssets(rows, db, n).ids)
<1> DEFINE map == NaturalToId(rows, db, n)
<1>1. PICK p \in [0 .. NumTickers -> Publication] :
          /\ p[0] = [ids |-> db, ok |-> TRUE]
          /\ \A k \in 1 .. NumTickers :
                 p[k] = IF k \in DOMAIN rows THEN PublishKey(p[k - 1], rows[k], map[k]) ELSE p[k - 1]
          /\ PublishAssets(rows, db, n) = p[NumTickers]
  BY PublishRun
<1>2. NumTickers \in Nat /\ Tickers = 1 .. NumTickers
  BY FmpAssumption DEF Tickers
<1>3. \A k \in DOMAIN rows : map[k] \in Nat
  BY NaturalToIdIs
<1>4. \A k \in DOMAIN rows : k \in Tickers /\ k \in DOMAIN rows[k] /\ DOMAIN rows[k] \subseteq Tickers
          /\ Candidates(rows[k])
          /\ \A t \in DOMAIN rows[k] :
                 rows[k][t] \in Row /\ (rows[k][t].to = Open => rows[k][t].from # DateMin)
  BY FrameCandidates DEF Frame
<1> HIDE DEF map
<1> DEFINE Origin(k) == \A i \in p[k].ids :
               \/ \E j \in db : j.asset = i.asset /\ j.ticker = i.ticker
               \/ \E q \in DOMAIN rows : i.asset = map[q] /\ i.ticker \in DOMAIN rows[q]
           Keeps(k) == \A j \in db : \E i \in p[k].ids : i.asset = j.asset /\ i.ticker = j.ticker
           Has(k) == \A q \in DOMAIN rows : q <= k => \E i \in p[k].ids : i.asset = map[q] /\ i.ticker = q
           Before(k, t) == (\A q \in DOMAIN rows : t \in DOMAIN rows[q] => ~(q <= k))
                               => Of(p[k].ids, t) = Of(db, t)
           After(k) == \A q \in DOMAIN rows : \A t \in DOMAIN rows[q] :
               q <= k /\ (\A j \in DOMAIN rows : t \in DOMAIN rows[j] => j = q) =>
                   /\ ~ Conflict(Of(db, t), t, rows[q][t], map[q])
                   /\ Of(p[k].ids, t) = Identify(Of(db, t), t, rows[q][t], map[q])
           Good(k) == /\ Origin(k) /\ Keeps(k) /\ Has(k)
                      /\ \A t \in Tickers : Before(k, t)
                      /\ After(k)
           I == {k \in 0 .. NumTickers : p[k].ok => Good(k)}
<1>5. 0 \in I
  <2>1. p[0].ids = db
    BY <1>1
  <2>2. Origin(0) /\ Keeps(0)
    BY <2>1
  <2>3. \A q \in DOMAIN rows : ~(q <= 0)
    BY <1>2, <1>4
  <2>4. Has(0) /\ After(0) /\ \A t \in Tickers : Before(0, t)
    BY <2>1, <2>3
  <2>5. 0 \in 0 .. NumTickers
    BY <1>2
  <2> HIDE DEF Origin, Keeps, Has, Before, After
  <2> QED
    BY <2>2, <2>4, <2>5
<1>6. ASSUME NEW k \in 1 .. NumTickers, k - 1 \in I PROVE k \in I
  <2>1. k \in 0 .. NumTickers /\ k - 1 \in 0 .. NumTickers /\ k \in Tickers
    BY <1>2
  <2>2. p[k - 1] \in Publication /\ p[k] \in Publication
    BY <2>1
  <2>3. p[k - 1].ids \subseteq Identifier
    BY <2>2 DEF Publication
  <2>4. \A q \in DOMAIN rows : q <= k <=> q <= k - 1 \/ q = k
    BY <1>2, <1>4
  <2>5. p[k] = IF k \in DOMAIN rows THEN PublishKey(p[k - 1], rows[k], map[k]) ELSE p[k - 1]
    BY <1>1
  <2>6. CASE k \notin DOMAIN rows
    <3>1. p[k] = p[k - 1]
      BY <2>5, <2>6
    <3>2. \A q \in DOMAIN rows : q <= k <=> q <= k - 1
      BY <2>4, <2>6
    <3> SUFFICES ASSUME p[k].ok PROVE Good(k)
      BY <2>1
    <3>3. Good(k - 1)
      BY <1>6, <3>1
    <3>4. Origin(k) /\ Keeps(k)
      BY <3>1, <3>3
    <3>5. Has(k) /\ \A t \in Tickers : Before(k, t)
      BY <3>1, <3>2, <3>3
    <3>6. After(k)
      BY <3>1, <3>2, <3>3
    <3> HIDE DEF Origin, Keeps, Has, Before, After
    <3> QED
      BY <3>4, <3>5, <3>6
  <2>7. CASE k \in DOMAIN rows
    <3> SUFFICES ASSUME p[k].ok PROVE Good(k)
      BY <2>1
    <3>1. p[k] = PublishKey(p[k - 1], rows[k], map[k])
      BY <2>5, <2>7
    <3>2. p[k - 1].ok /\ \A t \in Tickers :
              IF t \in DOMAIN rows[k]
              THEN ~ Conflict(Of(p[k - 1].ids, t), t, rows[k][t], map[k])
                   /\ Of(p[k].ids, t) = Identify(Of(p[k - 1].ids, t), t, rows[k][t], map[k])
              ELSE Of(p[k].ids, t) = Of(p[k - 1].ids, t)
      <4>1. Candidates(rows[k]) /\ map[k] \in Nat
        BY <1>3, <1>4, <2>7
      <4> QED
        BY <2>2, <3>1, <4>1, PublishKeyIs
    <3>3. Good(k - 1)
      BY <1>6, <3>2
    <3>4. ASSUME NEW t \in DOMAIN rows[k]
          PROVE  /\ t \in Tickers /\ Of(p[k].ids, t) = Identify(Of(p[k - 1].ids, t), t, rows[k][t], map[k])
                 /\ \A i \in Of(p[k].ids, t) : i.asset = map[k] \/ \E j \in Of(p[k - 1].ids, t) : j.asset = i.asset
                 /\ \A j \in Of(p[k - 1].ids, t) : \E i \in Of(p[k].ids, t) : i.asset = j.asset
                 /\ \E i \in Of(p[k].ids, t) : i.asset = map[k]
      <4>1. t \in Tickers /\ rows[k][t] \in Row /\ (rows[k][t].to = Open => rows[k][t].from # DateMin)
        BY <1>4, <2>7
      <4>2. /\ ~ Conflict(Of(p[k - 1].ids, t), t, rows[k][t], map[k])
            /\ Of(p[k].ids, t) = Identify(Of(p[k - 1].ids, t), t, rows[k][t], map[k])
        BY <3>2, <4>1
      <4>3. Of(p[k - 1].ids, t) \subseteq Identifier /\ \A i \in Of(p[k - 1].ids, t) : i.ticker = t
        BY <2>3 DEF Of
      <4>4. map[k] \in Nat
        BY <1>3, <2>7
      <4> QED
        BY <4>1, <4>2, <4>3, <4>4, IdentifyIs
    <3>5. \A i \in p[k].ids : i.ticker \in Tickers /\ i \in Of(p[k].ids, i.ticker)
      BY <2>2 DEF Publication, Identifier, Of
    <3>6. \A i \in p[k - 1].ids : i.ticker \in Tickers /\ i \in Of(p[k - 1].ids, i.ticker)
      BY <2>3 DEF Identifier, Of
    <3>7. \A t : \A i : i \in Of(p[k].ids, t) => i \in p[k].ids /\ i.ticker = t
      BY DEF Of
    <3>8. \A t : \A i : i \in Of(p[k - 1].ids, t) => i \in p[k - 1].ids /\ i.ticker = t
      BY DEF Of
    <3>9. Origin(k)
      <4> SUFFICES ASSUME NEW i \in p[k].ids
                   PROVE  \/ \E j \in db : j.asset = i.asset /\ j.ticker = i.ticker
                          \/ \E q \in DOMAIN rows : i.asset = map[q] /\ i.ticker \in DOMAIN rows[q]
        OBVIOUS
      <4>1. CASE i.ticker \notin DOMAIN rows[k]
        <5>1. i \in p[k - 1].ids
          BY <3>2, <3>5, <3>8, <4>1
        <5> QED
          BY <3>3, <5>1
      <4>2. CASE i.ticker \in DOMAIN rows[k] /\ i.asset = map[k]
        BY <2>7, <4>2
      <4>3. CASE i.ticker \in DOMAIN rows[k] /\ i.asset # map[k]
        <5>1. PICK j \in Of(p[k - 1].ids, i.ticker) : j.asset = i.asset
          BY <3>4, <3>5, <4>3
        <5>2. j \in p[k - 1].ids /\ j.ticker = i.ticker
          BY <3>8
        <5> QED
          BY <3>3, <5>1, <5>2
      <4> QED
        BY <4>1, <4>2, <4>3
    <3>10. ASSUME NEW j \in p[k - 1].ids
           PROVE  \E i \in p[k].ids : i.asset = j.asset /\ i.ticker = j.ticker
      <4>1. CASE j.ticker \notin DOMAIN rows[k]
        BY <3>2, <3>6, <3>7, <4>1
      <4>2. CASE j.ticker \in DOMAIN rows[k]
        BY <3>4, <3>6, <3>7, <4>2
      <4> QED
        BY <4>1, <4>2
    <3>11. Keeps(k)
      BY <3>3, <3>10
    <3>12. Has(k)
      <4> SUFFICES ASSUME NEW q \in DOMAIN rows, q <= k
                   PROVE  \E i \in p[k].ids : i.asset = map[q] /\ i.ticker = q
        OBVIOUS
      <4>1. CASE q = k
        BY <1>4, <2>7, <3>4, <3>7, <4>1
      <4>2. CASE q # k
        <5>1. q <= k - 1
          BY <2>4, <4>2
        <5>2. \E j \in p[k - 1].ids : j.asset = map[q] /\ j.ticker = q
          BY <3>3, <5>1
        <5> QED
          BY <3>10, <5>2
      <4> QED
        BY <4>1, <4>2
    <3>13. \A t \in Tickers : Before(k, t)
      <4> SUFFICES ASSUME NEW t \in Tickers, \A q \in DOMAIN rows : t \in DOMAIN rows[q] => ~(q <= k)
                   PROVE  Of(p[k].ids, t) = Of(db, t)
        OBVIOUS
      <4>1. t \notin DOMAIN rows[k]
        BY <2>4, <2>7
      <4>2. \A q \in DOMAIN rows : t \in DOMAIN rows[q] => ~(q <= k - 1)
        BY <2>4
      <4>3. Of(p[k - 1].ids, t) = Of(db, t)
        BY <3>3, <4>2
      <4> QED
        BY <3>2, <4>1, <4>3
    <3>14. After(k)
      <4> SUFFICES ASSUME NEW q \in DOMAIN rows, NEW t \in DOMAIN rows[q], q <= k,
                          \A j \in DOMAIN rows : t \in DOMAIN rows[j] => j = q
                   PROVE  /\ ~ Conflict(Of(db, t), t, rows[q][t], map[q])
                          /\ Of(p[k].ids, t) = Identify(Of(db, t), t, rows[q][t], map[q])
        OBVIOUS
      <4>1. t \in Tickers
        BY <1>4
      <4>2. CASE q = k
        <5>1. \A j \in DOMAIN rows : t \in DOMAIN rows[j] => ~(j <= k - 1)
          BY <1>2, <4>2
        <5>2. Of(p[k - 1].ids, t) = Of(db, t)
          BY <3>3, <4>1, <5>1
        <5> QED
          BY <3>2, <4>1, <4>2, <5>2
      <4>3. CASE q # k
        <5>1. t \notin DOMAIN rows[k] /\ q <= k - 1
          BY <2>4, <2>7, <4>3
        <5> QED
          BY <3>2, <3>3, <4>1, <5>1
      <4> QED
        BY <4>2, <4>3
    <3> HIDE DEF Origin, Keeps, Has, Before, After
    <3> QED
      BY <3>9, <3>11, <3>12, <3>13, <3>14
  <2> QED
    BY <2>6, <2>7
<1>7. \A k \in 0 .. NumTickers : k \in I
  <2> HIDE DEF I
  <2> QED
    BY <1>2, <1>5, <1>6, UpTo
<1> DEFINE N == NumTickers
<1>8. N \in 0 .. NumTickers /\ (p[N].ok => Good(N))
  <2> HIDE DEF Good
  <2>1. NumTickers \in I
    BY <1>2, <1>7
  <2> QED
    BY <2>1
<1>9. \A q \in DOMAIN rows : q <= N
  BY <1>2, <1>4
<1>10. ASSUME p[N].ok PROVE Published(rows, db, map, p[N].ids)
  <2>1. Good(N)
    BY <1>8, <1>10
  <2>2. Origin(N) /\ Keeps(N)
    BY <2>1
  <2>3. \A k \in DOMAIN rows : \E i \in p[N].ids : i.asset = map[k] /\ i.ticker = k
    BY <1>9, <2>1
  <2>4. \A t \in Tickers : (\A j \in DOMAIN rows : t \notin DOMAIN rows[j]) => Of(p[N].ids, t) = Of(db, t)
    BY <2>1
  <2>5. \A k \in DOMAIN rows : \A t \in DOMAIN rows[k] :
            (\A j \in DOMAIN rows : t \in DOMAIN rows[j] => j = k) =>
                /\ ~ Conflict(Of(db, t), t, rows[k][t], map[k])
                /\ Of(p[N].ids, t) = Identify(Of(db, t), t, rows[k][t], map[k])
    BY <1>9, <2>1
  <2> HIDE DEF N
  <2> QED
    BY <2>2, <2>3, <2>4, <2>5 DEF Published
<1>11. p[N] \in Publication
  BY <1>8
<1> QED
  BY <1>1, <1>10, <1>11 DEF map

-----------------------------------------------------------------------------
(* From one day to a later one.                                            *)

\* At most one rename lies between the days D and d.
OneMove(h, s, D, d) == \A e, f \in Moves(h, s) : D < e /\ e < f => ~(f <= d)

\* An episode has one first day.
LEMMA StartUnique ==
    ASSUME NEW h, NEW s, NEW y \in Nat, NEW x \in 1 .. y, NEW z \in 1 .. y,
           \A e \in x .. y : h[s][e] = h[s][y], x = 1 \/ h[s][x - 1] # h[s][y],
           \A e \in z .. y : h[s][e] = h[s][y], z = 1 \/ h[s][z - 1] # h[s][y]
    PROVE  x = z
<1>1. CASE x < z
  <2>1. z - 1 \in x .. y /\ z # 1
    BY <1>1
  <2> QED
    BY <2>1
<1>2. CASE z < x
  <2>1. x - 1 \in z .. y /\ x # 1
    BY <1>2
  <2> QED
    BY <2>1
<1> QED
  BY <1>1, <1>2

\* As of a day a security has one last episode.
LEMMA EpisodeUnique ==
    ASSUME NEW h, NEW s, NEW d \in Days, NEW x \in 1 .. d, NEW y \in 1 .. d, NEW v \in 1 .. d,
           NEW w \in 1 .. d, Episode(h, s, d, x, y), Episode(h, s, d, v, w)
    PROVE  x = v /\ y = w
<1>1. d \in Nat
  BY DEF Days
<1>2. /\ x <= y /\ h[s][y] # 0 /\ \A z \in y + 1 .. d : h[s][z] = 0
      /\ v <= w /\ h[s][w] # 0 /\ \A z \in w + 1 .. d : h[s][z] = 0
  BY <1>1 DEF Episode
<1>3. y = w
  <2>1. ~(w \in y + 1 .. d) /\ ~(y \in w + 1 .. d)
    BY <1>2
  <2> QED
    BY <1>1, <2>1
<1>4. x \in 1 .. y /\ v \in 1 .. y /\ y \in Nat
  BY <1>1, <1>2, <1>3
<1>5. /\ \A e \in x .. y : h[s][e] = h[s][y]
      /\ x = 1 \/ h[s][x - 1] # h[s][y]
      /\ \A e \in v .. y : h[s][e] = h[s][y]
      /\ v = 1 \/ h[s][v - 1] # h[s][y]
  BY <1>3 DEF Episode
<1> QED
  BY <1>3, <1>4, <1>5, StartUnique

\* What an episode says of the days before d.
LEMMA EpisodeKnown ==
    ASSUME NEW h, NEW s, NEW d \in Days, NEW x \in 1 .. d, NEW y \in 1 .. d, Episode(h, s, d, x, y)
    PROVE  /\ Known(h, s, d) /\ h[s][y] # 0 /\ h[s][x] = h[s][y] /\ x <= y
           /\ \A z \in x .. y : h[s][z] = h[s][y]
           /\ \A z \in 1 .. d : h[s][z] # 0 => z <= y
           /\ h[s][d] # 0 => y = d
<1>1. d \in Nat
  BY DEF Days
<1>2. /\ x <= y /\ (\A z \in x .. y : h[s][z] = h[s][y] /\ h[s][z] # 0)
      /\ \A z \in y + 1 .. d : h[s][z] = 0
  BY <1>1 DEF Episode
<1>3. h[s][y] # 0 /\ h[s][x] = h[s][y] /\ \A z \in x .. y : h[s][z] = h[s][y]
  BY <1>1, <1>2
<1>4. \A z \in 1 .. d : h[s][z] # 0 => z <= y
  BY <1>1, <1>2
<1>5. h[s][d] # 0 => y = d
  BY <1>1, <1>4
<1> QED
  BY <1>2, <1>3, <1>4, <1>5 DEF Known

\* With one rename at most the last ticker stays, or was renamed into the next.
LEMMA EpisodeStep ==
    ASSUME NEW h \in Histories, NEW s \in Sec, NEW D \in Days, NEW d \in Days, D <= d,
           OneMove(h, s, D, d),
           NEW v \in 1 .. D, NEW w \in 1 .. D, Episode(h, s, D, v, w),
           NEW x \in 1 .. d, NEW y \in 1 .. d, Episode(h, s, d, x, y)
    PROVE  \/ h[s][w] = h[s][y] /\ v = x /\ (h[s][D] = 0 => w = y /\ h[s][d] = 0)
           \/ /\ h[s][D] # 0 /\ h[s][w] # h[s][y] /\ x \in Moves(h, s) /\ D < x
              /\ h[s][x] = h[s][y] /\ h[s][x - 1] = h[s][w]
<1>1. /\ D \in Nat /\ d \in Nat /\ NumDays \in Nat /\ 1 .. D \subseteq 1 .. d /\ 1 .. d \subseteq Days
  BY FmpAssumption DEF Days
<1>2. /\ h[s][w] # 0 /\ h[s][v] = h[s][w] /\ v <= w
      /\ \A z \in v .. w : h[s][z] = h[s][w]
      /\ \A z \in 1 .. D : h[s][z] # 0 => z <= w
      /\ h[s][D] # 0 => w = D
      /\ v = 1 \/ h[s][v - 1] # h[s][w]
  BY EpisodeKnown DEF Episode
<1>3. /\ h[s][y] # 0 /\ h[s][x] = h[s][y] /\ x <= y
      /\ \A z \in x .. y : h[s][z] = h[s][y]
      /\ \A z \in 1 .. d : h[s][z] # 0 => z <= y
      /\ h[s][d] # 0 => y = d
      /\ x = 1 \/ h[s][x - 1] # h[s][y]
  BY EpisodeKnown DEF Episode
<1>4. w \in 1 .. d /\ w <= y
  BY <1>1, <1>2, <1>3
<1>5. CASE h[s][D] = 0
  <2>1. w < D
    BY <1>1, <1>2, <1>5
  <2>2. ASSUME NEW z \in 1 .. d, D < z PROVE h[s][z] = 0
    <3> SUFFICES ASSUME h[s][z] # 0 PROVE FALSE
      OBVIOUS
    <3>1. D \in w .. z /\ w \in Days /\ z \in Days
      BY <1>1, <2>1, <2>2
    <3> QED
      BY <1>2, <1>5, <3>1, Between
  <2>3. y <= D
    BY <1>1, <1>3, <2>2
  <2>4. y \in 1 .. D /\ y = w
    BY <1>1, <1>2, <1>3, <1>4, <2>3
  <2>5. h[s][d] = 0
    <3>1. d = D \/ D < d
      BY <1>1
    <3>2. d \in 1 .. d
      BY <1>1 DEF Days
    <3> QED
      BY <1>5, <2>2, <3>1, <3>2
  <2>6. v = x
    <3>1. y \in Nat /\ x \in 1 .. y /\ v \in 1 .. y
      BY <1>1, <1>2, <1>3, <2>4
    <3> QED
      BY <1>2, <1>3, <2>4, <3>1, StartUnique
  <2> QED
    BY <2>4, <2>5, <2>6
<1>6. CASE h[s][D] # 0 /\ \A e \in Moves(h, s) : ~(D < e /\ e <= d)
  <2>1. w = D /\ D <= y /\ y \in Days /\ y <= d
    BY <1>1, <1>2, <1>4, <1>6
  <2>2. \A e \in Moves(h, s) : ~(D < e /\ e <= y)
    <3>1. \A e \in Moves(h, s) : e \in Nat
      BY DEF Moves
    <3> QED
      BY <1>1, <1>6, <2>1, <3>1
  <2>3. \A z \in D .. y : h[s][z] = h[s][D]
    BY <1>3, <1>6, <2>1, <2>2, Stays
  <2>4. h[s][y] = h[s][D]
    BY <1>1, <2>1, <2>3
  <2>5. \A z \in v .. y : h[s][z] = h[s][y]
    <3>1. \A z \in v .. y : z \in v .. w \/ z \in D .. y
      BY <1>1, <2>1
    <3> QED
      BY <1>2, <2>1, <2>3, <2>4, <3>1
  <2>6. v = x
    <3>1. y \in Nat /\ x \in 1 .. y /\ v \in 1 .. y
      BY <1>1, <1>2, <1>3, <2>1
    <3> QED
      BY <1>2, <1>3, <2>1, <2>4, <2>5, <3>1, StartUnique
  <2> QED
    BY <1>6, <2>1, <2>4, <2>6
<1>7. CASE h[s][D] # 0 /\ \E e \in Moves(h, s) : D < e /\ e <= d
  <2>1. PICK e \in Moves(h, s) : D < e /\ e <= d
    BY <1>7
  <2>2. /\ e \in 2 .. NumDays /\ e - 1 \in Days /\ e \in Days /\ e \in 1 .. d
        /\ h[s][e - 1] # 0 /\ h[s][e] # 0 /\ h[s][e - 1] # h[s][e]
    BY <1>1, <2>1 DEF Moves, Days
  <2>3. \A f \in Moves(h, s) : f \in Nat /\ (D < f /\ f <= d => f = e)
    <3>1. \A f \in Moves(h, s) : f \in Nat
      BY DEF Moves
    <3> QED
      BY <1>1, <2>1, <2>2, <3>1 DEF OneMove
  <2>4. w = D /\ e <= y /\ y \in Days
    BY <1>1, <1>2, <1>3, <1>7, <2>2
  <2>5. h[s][e - 1] = h[s][D]
    <3>1. D <= e - 1 /\ \A f \in Moves(h, s) : ~(D < f /\ f <= e - 1)
      BY <1>1, <2>1, <2>2, <2>3
    <3>2. \A z \in D .. e - 1 : h[s][z] = h[s][D]
      BY <1>7, <2>2, <3>1, Stays
    <3> QED
      BY <1>1, <2>2, <3>1, <3>2
  <2>6. \A z \in e .. y : h[s][z] = h[s][e]
    <3>1. \A f \in Moves(h, s) : ~(e < f /\ f <= y)
      BY <1>1, <2>1, <2>2, <2>3
    <3> QED
      BY <1>3, <2>2, <2>4, <3>1, Stays
  <2>7. h[s][y] = h[s][e]
    BY <1>1, <2>2, <2>4, <2>6
  <2>8. x = e
    <3>1. y \in Nat /\ x \in 1 .. y /\ e \in 1 .. y
      BY <1>1, <1>3, <2>2, <2>4
    <3>2. \A z \in e .. y : h[s][z] = h[s][y]
      BY <2>6, <2>7
    <3>3. e = 1 \/ h[s][e - 1] # h[s][y]
      BY <2>2, <2>7
    <3> QED
      BY <1>3, <3>1, <3>2, <3>3, StartUnique
  <2> QED
    BY <1>7, <2>1, <2>2, <2>4, <2>5, <2>7, <2>8
<1> QED
  BY <1>5, <1>6, <1>7

\* Of a security renamed once at most every day has the last ticker or the one
\* before.
LEMMA LoneDays ==
    ASSUME NEW h \in Histories, NEW s \in Sec, Lone(h, s), NEW d \in Days,
           NEW x \in 1 .. d, NEW y \in 1 .. d, Episode(h, s, d, x, y),
           NEW z \in 1 .. d, h[s][z] # 0
    PROVE  \/ x <= z /\ z <= y /\ h[s][z] = h[s][y]
           \/ /\ z < x /\ x \in Moves(h, s) /\ h[s][x] = h[s][y]
              /\ h[s][z] = h[s][x - 1] /\ h[s][x - 1] # h[s][y]
<1>1. d \in Nat /\ NumDays \in Nat /\ 1 .. d \subseteq Days
  BY FmpAssumption DEF Days
<1>2. /\ h[s][x] = h[s][y] /\ h[s][y] # 0 /\ x <= y /\ z <= y /\ \A e \in x .. y : h[s][e] = h[s][y]
      /\ x = 1 \/ h[s][x - 1] # h[s][y]
  BY EpisodeKnown DEF Episode
<1>3. CASE x <= z
  BY <1>1, <1>2, <1>3
<1>4. CASE z < x
  <2>1. x - 1 \in z .. x /\ x \in 2 .. NumDays /\ x \in Days /\ z \in Days /\ x - 1 \in Days /\ z <= x - 1
    BY <1>1, <1>4 DEF Days
  <2>2. h[s][x - 1] # 0
    BY <1>2, <2>1, Between
  <2>3. h[s][x - 1] # h[s][y]
    BY <1>2, <2>1
  <2>4. x \in Moves(h, s)
    BY <1>2, <2>1, <2>2, <2>3 DEF Moves
  <2>5. \A e \in Moves(h, s) : ~(z < e /\ e <= x - 1)
    BY <2>1, <2>4 DEF Lone
  <2>6. \A e \in z .. x - 1 : h[s][e] = h[s][z]
    BY <2>1, <2>2, <2>5, Stays
  <2>7. h[s][x - 1] = h[s][z]
    BY <1>1, <2>1, <2>6
  <2> QED
    BY <1>2, <1>4, <2>3, <2>4, <2>7
<1> QED
  BY <1>1, <1>3, <1>4

\* The universe covers all the days of such a security.
LEMMA LoneRows ==
    ASSUME history \in Histories, NEW s \in Sec, Lone(history, s), NEW d \in Days,
           NEW x \in 1 .. d, NEW y \in 1 .. d, Episode(history, s, d, x, y),
           NEW z \in 1 .. d, history[s][z] # 0
    PROVE  LET own == Universe(d)[history[s][y]]
           IN  /\ history[s][z] \in DOMAIN own
               /\ own[history[s][z]].from <= z /\ z <= own[history[s][z]].to
<1> DEFINE k == history[s][y]
           own == Universe(d)[k]
<1>1. /\ k \in DOMAIN Universe(d)
      /\ own[k] = [from |-> x, to |-> Ending(history, s, d, y)]
      /\ \A e \in Moves(history, s) : e <= d /\ history[s][e] = k => history[s][e - 1] \in DOMAIN own
      /\ \A o \in DOMAIN own : o # k => \E e \in Moves(history, s) :
             own[o] = [from |-> DateMin, to |-> e - 1]
  BY UniverseOf DEF Lone
<1>2. k \in DOMAIN own
  BY <1>1, UniverseType
<1>3. d \in Nat /\ NumDays \in Nat /\ d <= NumDays /\ Open = NumDays + 1 /\ DateMin = 0
  BY FmpAssumption DEF Days, Open, DateMin
<1> HIDE DEF own, k
<1>4. CASE x <= z /\ z <= y /\ history[s][z] = history[s][y]
  <2>1. Ending(history, s, d, y) = Open \/ Ending(history, s, d, y) = y
    BY DEF Ending
  <2>2. z <= Ending(history, s, d, y)
    BY <1>3, <1>4, <2>1
  <2>3. history[s][z] = k
    BY <1>4 DEF k
  <2> QED
    BY <1>1, <1>2, <1>4, <2>2, <2>3 DEF own, k
<1>5. CASE /\ z < x /\ x \in Moves(history, s) /\ history[s][x] = history[s][y]
           /\ history[s][z] = history[s][x - 1] /\ history[s][x - 1] # history[s][y]
  <2>1. x <= d /\ history[s][x] = k /\ history[s][z] # k
    BY <1>3, <1>5 DEF k
  <2>2. history[s][z] \in DOMAIN own
    BY <1>1, <1>5, <2>1
  <2>3. PICK e \in Moves(history, s) : own[history[s][z]] = [from |-> DateMin, to |-> e - 1]
    BY <1>1, <2>1, <2>2
  <2>4. e = x
    BY <1>5 DEF Lone
  <2>5. own[history[s][z]] = [from |-> 0, to |-> x - 1]
    BY <1>3, <2>3, <2>4
  <2>6. 0 <= z /\ z <= x - 1
    BY <1>3, <1>5
  <2> QED
    BY <2>2, <2>5, <2>6 DEF own, k
<1> QED
  BY <1>4, <1>5, LoneDays

-----------------------------------------------------------------------------
(* What a publication and a repair leave of a security that is alone.      *)

\* Identify when all identifiers of the ticker are of the candidate's asset.
LEMMA IdentifyAlone ==
    ASSUME NEW t \in Tickers, NEW db, db \subseteq Identifier, \A i \in db : i.ticker = t,
           NEW a \in Nat, \A i \in db : i.asset = a, \A i, j \in OpenRows(db, t) : i = j,
           NEW r \in Row, r.to = Open => r.from # DateMin, ~ Conflict(db, t, r, a)
    PROVE  LET result == Identify(db, t, r, a)
           IN  /\ \A i \in result : i.asset = a
               /\ \E i \in result : i.to = r.to /\ (i.from = r.from \/ \E j \in OpenRows(db, t) : i.from = j.from)
               /\ \A i \in result : i.to = Open => r.to = Open /\ (i.from = r.from \/ i \in OpenRows(db, t))
<1> DEFINE result == Identify(db, t, r, a)
           new == [asset |-> a, ticker |-> t, from |-> r.from, to |-> r.to]
<1>1. Outcome(db, t, r, a, result)
  BY IdentifyCases
<1>2. \A i \in result : i.asset = a
  BY IdentifyIs
<1> HIDE DEF result
<1>3. r.from \in 0 .. NumDays /\ r.to \in 0 .. Open
  BY DEF Row
<1>4. CASE OpenRows(db, t) = {} /\ result = Upsert(db, new)
  <2>1. new.from = r.from /\ new.to = r.to
    OBVIOUS
  <2> HIDE DEF new
  <2>2. new \in result /\ \A i \in result : i = new \/ i \in db
    BY <1>4 DEF Upsert
  <2>3. \A i \in db : i.to # Open
    BY <1>4 DEF OpenRows
  <2> QED
    BY <1>2, <2>1, <2>2, <2>3 DEF result
<1>5. CASE \E x \in OpenRows(db, t) :
               r.to # Open /\ x.asset = a /\ result = (db \ {x}) \cup {[x EXCEPT !.to = r.to]}
  <2>1. PICK x \in OpenRows(db, t) :
            r.to # Open /\ x.asset = a /\ result = (db \ {x}) \cup {[x EXCEPT !.to = r.to]}
    BY <1>5
  <2> DEFINE c == [x EXCEPT !.to = r.to]
  <2>2. x \in Identifier
    BY DEF OpenRows
  <2>3. c.to = r.to /\ c.from = x.from
    BY <1>3, <2>2, CloseIs
  <2> HIDE DEF c
  <2>4. result = (db \ {x}) \cup {c}
    BY <2>1 DEF c
  <2>5. \A i \in db : i.to = Open => i = x
    BY DEF OpenRows
  <2>6. \A i \in result : i.to # Open
    BY <2>1, <2>3, <2>4, <2>5
  <2>7. c \in result
    BY <2>4
  <2> QED
    BY <1>2, <2>3, <2>6, <2>7 DEF result
<1>6. CASE \E x \in OpenRows(db, t) : r.to = Open /\ x.asset = a /\ result = db
  <2>1. PICK x \in OpenRows(db, t) : r.to = Open /\ result = db
    BY <1>6
  <2>2. x \in db /\ x.to = Open
    BY DEF OpenRows
  <2>3. \A i \in result : i.to = Open => i \in OpenRows(db, t)
    BY <2>1 DEF OpenRows
  <2> QED
    BY <1>2, <2>1, <2>2, <2>3 DEF result
<1>7. ~ \E x \in OpenRows(db, t) : x.asset # a
  BY DEF OpenRows
<1> QED
  BY <1>1, <1>4, <1>5, <1>6, <1>7 DEF Outcome

\* Nothing is published of a security before it is listed.
LEMMA PublishUnknown ==
    ASSUME history \in Histories, NEW s \in Sec, Alone(history, s), NEW D \in 0 .. NumDays,
           NEW d \in Days, D <= d, ~ Known(history, s, d),
           NEW db, db \subseteq Identifier, Shape(history, db, s, D), NEW n \in Nat,
           PublishAssets(Universe(d), db, n).ok
    PROVE  Shape(history, PublishAssets(Universe(d), db, n).ids, s, d)
<1> DEFINE rows == Universe(d)
           map == NaturalToId(rows, db, n)
           result == PublishAssets(rows, db, n).ids
<1>1. Published(rows, db, map, result)
  BY UniverseFrame, PublishAssetsIs
<1>2. 1 .. D \subseteq 1 .. d /\ d \in Nat
  BY FmpAssumption DEF Days
<1>3. \A i \in db : i.ticker \notin Tick(history, s)
  BY <1>2 DEF Shape, Known
<1>4. \A k \in DOMAIN rows : \A t \in DOMAIN rows[k] : t \notin Tick(history, s)
  BY UniverseUnknown, UniverseSplit
<1> HIDE DEF rows, map, result
<1>5. \A i \in result : i.ticker \notin Tick(history, s)
  BY <1>1, <1>3, <1>4 DEF Published
<1>6. \A z \in 1 .. d : history[s][z] = 0
  BY DEF Known
<1>7. \A x, y \in 1 .. d : ~ Episode(history, s, d, x, y)
  BY <1>6, EpisodeKnown
<1>8. Shape(history, result, s, d)
  BY <1>5, <1>6, <1>7 DEF Shape
<1> QED
  BY <1>8 DEF rows, result

\* Afterwards its key leads to the asset it has.
LEMMA KeyOfAsset ==
    ASSUME history \in Histories, NEW s \in Sec, Alone(history, s), NEW D \in 0 .. NumDays,
           NEW d \in Days, D <= d, OneMove(history, s, D, d),
           NEW x \in 1 .. d, NEW y \in 1 .. d, Episode(history, s, d, x, y),
           NEW db, db \subseteq Identifier, \A i \in db : i.asset # 0, Shape(history, db, s, D),
           NEW n \in Nat
    PROVE  \A i \in db : i.ticker \in Tick(history, s) =>
               i.asset = NaturalToId(Universe(d), db, n)[history[s][y]]
<1> DEFINE rows == Universe(d)
           k == history[s][y]
           own == rows[k]
           map == NaturalToId(rows, db, n)
<1> SUFFICES ASSUME NEW i \in db, i.ticker \in Tick(history, s)
             PROVE  i.asset = map[k]
  OBVIOUS
<1>1. Known(history, s, D)
  BY DEF Shape
<1>2. D \in Days /\ 1 .. D \subseteq 1 .. d /\ D \in 1 .. D
  BY <1>1, FmpAssumption DEF Known, Days
<1>3. PICK v \in 1 .. D, w \in 1 .. D : Episode(history, s, D, v, w)
  BY <1>1, <1>2, LastEpisode
<1>4. PICK j \in db : j.ticker = history[s][w] /\ j.from = v /\ j.to = Ending(history, s, D, w)
  BY <1>3 DEF Shape
<1>5. \/ history[s][w] = k /\ v = x /\ (history[s][D] = 0 => w = y /\ history[s][d] = 0)
      \/ /\ history[s][D] # 0 /\ x \in Moves(history, s)
         /\ history[s][x] = k /\ history[s][x - 1] = history[s][w]
  BY <1>2, <1>3, EpisodeStep
<1>6. /\ k \in DOMAIN rows /\ k \in Tick(history, s)
      /\ own[k] = [from |-> x, to |-> Ending(history, s, d, y)]
      /\ \A e \in Moves(history, s) : e <= d /\ history[s][e] = k => history[s][e - 1] \in DOMAIN own
  BY UniverseOf
<1>7. k \in DOMAIN own /\ Frame(rows)
  BY <1>6, UniverseType, UniverseFrame
<1>8. d \in Nat /\ D \in Nat /\ NumDays \in Nat /\ d <= NumDays /\ Open = NumDays + 1
  BY <1>2, FmpAssumption DEF Days, Open
<1>9. \A t \in DOMAIN own : t \in Tick(history, s)
  BY <1>6, UniverseSplit
<1> HIDE DEF rows, own, map, k
<1>10. history[s][w] \in DOMAIN own
  BY <1>5, <1>6, <1>7, <1>8
<1>11. Reach(rows, k, db) # {}
  <2>1. CASE history[s][D] # 0
    <3>1. j.to = Open
      BY <1>4, <2>1 DEF Ending
    <3>2. j \in OpenRows(db, history[s][w])
      BY <1>4, <3>1 DEF OpenRows
    <3>3. history[s][w] \in Reach(rows, k, db)
      BY <1>10, <3>2 DEF Reach, own
    <3> QED
      BY <3>3
  <2>2. CASE history[s][D] = 0
    <3>1. history[s][w] = k /\ v = x /\ w = y /\ history[s][d] = 0
      BY <1>5, <2>2
    <3>2. own[k].from = x /\ own[k].to = y /\ y # Open
      BY <1>6, <1>8, <3>1 DEF Ending
    <3>3. j.ticker = k /\ j.from = x /\ j.to = y
      BY <1>4, <2>2, <3>1 DEF Ending
    <3>4. k \in Reach(rows, k, db)
      BY <1>7, <3>2, <3>3 DEF Reach, own
    <3> QED
      BY <3>4
  <2> QED
    BY <2>1, <2>2
<1>12. PICK q \in db : q.ticker \in DOMAIN own /\ AssetOfKey(rows, k, db) = q.asset
  BY <1>6, <1>7, <1>11, AssetOfKeyIs DEF own
<1>13. k \notin NewKeys(rows, db)
  BY <1>12 DEF NewKeys
<1>14. map[k] = AssetOfKey(rows, k, db)
  BY <1>6, <1>12 DEF map, NaturalToId, Keys
<1>15. q.ticker \in Tick(history, s)
  BY <1>9, <1>12
<1> QED
  BY <1>12, <1>14, <1>15 DEF Shape

\* A publication as of day d takes the identifiers of a security from those of day D
\* to those of day d, when it is renamed once at most in between.
LEMMA PublishShape ==
    ASSUME history \in Histories, NEW s \in Sec, Alone(history, s), NEW D \in 0 .. NumDays,
           NEW d \in Days, D <= d, OneMove(history, s, D, d),
           NEW db, db \subseteq Identifier, \A i \in db : i.asset # 0, Shape(history, db, s, D),
           NEW n \in Nat, PublishAssets(Universe(d), db, n).ok
    PROVE  Shape(history, PublishAssets(Universe(d), db, n).ids, s, d)
<1>1. CASE ~ Known(history, s, d)
  BY <1>1, PublishUnknown
<1> SUFFICES ASSUME Known(history, s, d)
             PROVE  Shape(history, PublishAssets(Universe(d), db, n).ids, s, d)
  BY <1>1
<1>2. PICK x \in 1 .. d, y \in 1 .. d : Episode(history, s, d, x, y)
  BY LastEpisode
<1> DEFINE rows == Universe(d)
           k == history[s][y]
           own == rows[k]
           map == NaturalToId(rows, db, n)
           a == map[k]
           result == PublishAssets(rows, db, n).ids
           T == Tick(history, s)
<1>3. Published(rows, db, map, result) /\ PublishAssets(rows, db, n) \in Publication
  BY UniverseFrame, PublishAssetsIs
<1>4. /\ k \in DOMAIN rows /\ k \in T
      /\ \A j \in DOMAIN rows : j \in T => j = k
      /\ own[k] = [from |-> x, to |-> Ending(history, s, d, y)]
      /\ \A e \in Moves(history, s) : e <= d /\ history[s][e] = k => history[s][e - 1] \in DOMAIN own
  BY <1>2, UniverseOf
<1>5. /\ k \in DOMAIN own /\ Frame(rows)
      /\ \A t \in DOMAIN own : own[t] \in Row /\ (own[t].to = Open => t = k /\ own[t].from # DateMin)
  BY <1>4, UniverseType, UniverseFrame
<1>6. /\ d \in Nat /\ D \in Nat /\ NumDays \in Nat /\ d <= NumDays /\ Open = NumDays + 1
      /\ T \subseteq Tickers
  BY FmpAssumption DEF Days, Open, Tick
<1>7. \A j \in DOMAIN rows : \A t \in DOMAIN rows[j] : t \in T => j = k
  BY <1>4, UniverseSplit
<1>8. \A t \in DOMAIN own : t \in T
  BY <1>4, UniverseSplit
<1>9. \A i \in db : i.ticker \in T => i.asset = a
  BY <1>2, KeyOfAsset
<1>10. a \in Nat
  BY <1>4, <1>5, NaturalToIdIs
<1>11. LET own2 == rows[k] IN \A z \in 1 .. d : Lone(history, s) /\ history[s][z] # 0 =>
           /\ history[s][z] \in DOMAIN own2
           /\ own2[history[s][z]].from <= z /\ z <= own2[history[s][z]].to
  BY <1>2, LoneRows
<1>12. result \subseteq Identifier
  BY <1>3 DEF Publication
<1> HIDE DEF rows, own, map, k, a, result
\* The stored identifier that is open.
<1>13. ASSUME NEW i \in db, i.ticker \in T, i.to = Open
       PROVE  /\ D \in Days /\ history[s][D] = i.ticker /\ history[s][D] # 0 /\ i.from \in 1 .. D
              /\ Episode(history, s, D, i.from, D)
              /\ i.ticker = k => i.from = x
              /\ i.ticker \in DOMAIN own
  <2>1. history[s][D] = i.ticker /\ i.from \in 1 .. D /\ Episode(history, s, D, i.from, D)
    BY <1>13 DEF Shape
  <2>2. D \in Days /\ D \in 1 .. D
    BY <1>6, <2>1 DEF Days
  <2>3. history[s][D] # 0
    BY <2>1, <2>2, EpisodeKnown
  <2>4. \/ history[s][D] = k /\ i.from = x
        \/ /\ history[s][D] # k /\ x \in Moves(history, s)
           /\ history[s][x] = k /\ history[s][x - 1] = history[s][D]
    BY <1>2, <2>1, <2>2, EpisodeStep DEF k
  <2>5. i.ticker \in DOMAIN own
    BY <1>4, <1>5, <1>6, <2>1, <2>4
  <2> QED
    BY <2>1, <2>2, <2>3, <2>4, <2>5
\* The identifiers of one ticker of the key.
<1>14. ASSUME NEW t \in DOMAIN own
       PROVE  /\ \A i \in Of(result, t) : i.asset = a
              /\ \E i \in Of(result, t) : i.to = own[t].to /\ (i.from = own[t].from
                     \/ \E j \in db : j.ticker = t /\ j.to = Open /\ i.from = j.from)
              /\ \A i \in Of(result, t) : i.to = Open =>
                     own[t].to = Open /\ (i.from = own[t].from \/ i \in db)
  <2> DEFINE st == Of(db, t)
  <2>1. t \in T /\ t \in Tickers
    BY <1>6, <1>8
  <2>2. ~ Conflict(st, t, own[t], a) /\ Of(result, t) = Identify(st, t, own[t], a)
    <3>1. \A j \in DOMAIN rows : t \in DOMAIN rows[j] => j = k
      BY <1>7, <2>1
    <3> QED
      BY <1>3, <1>4, <3>1 DEF Published, own, a
  <2>3. st \subseteq Identifier /\ \A i \in st : i.ticker = t /\ i \in db
    BY DEF Of
  <2>4. \A i \in st : i.asset = a
    BY <1>9, <2>1, <2>3
  <2>5. \A i \in OpenRows(st, t) : i \in st /\ i.to = Open
    BY DEF OpenRows
  <2>6. ASSUME NEW i \in OpenRows(st, t), NEW j \in OpenRows(st, t) PROVE i = j
    <3>1. /\ i \in db /\ i.ticker = t /\ i.to = Open /\ i.asset = a /\ i \in Identifier
          /\ j \in db /\ j.ticker = t /\ j.to = Open /\ j.asset = a /\ j \in Identifier
      BY <2>3, <2>4, <2>5
    <3>2. /\ D \in Days /\ i.from \in 1 .. D /\ Episode(history, s, D, i.from, D)
          /\ j.from \in 1 .. D /\ Episode(history, s, D, j.from, D)
      BY <1>13, <2>1, <3>1
    <3>3. D \in 1 .. D
      BY <3>2 DEF Days
    <3>4. i.from = j.from
      BY <3>2, <3>3, EpisodeUnique
    <3> QED
      BY <3>1, <3>4 DEF Identifier
  <2>7. own[t] \in Row /\ (own[t].to = Open => own[t].from # DateMin)
    BY <1>5
  <2> HIDE DEF st
  <2>8. /\ \A i \in Of(result, t) : i.asset = a
        /\ \E i \in Of(result, t) : i.to = own[t].to /\ (i.from = own[t].from
               \/ \E j \in OpenRows(st, t) : i.from = j.from)
        /\ \A i \in Of(result, t) : i.to = Open =>
               own[t].to = Open /\ (i.from = own[t].from \/ i \in OpenRows(st, t))
    BY <1>10, <2>1, <2>2, <2>3, <2>4, <2>6, <2>7, IdentifyAlone
  <2> QED
    BY <2>3, <2>5, <2>8
<1>15. ASSUME NEW i \in result, i.ticker \in T, i.ticker \notin DOMAIN own
       PROVE  i \in db
  <2>1. i.ticker \in Tickers /\ \A j \in DOMAIN rows : i.ticker \notin DOMAIN rows[j]
    BY <1>6, <1>7, <1>15 DEF own
  <2>2. Of(result, i.ticker) = Of(db, i.ticker)
    BY <1>3, <2>1 DEF Published
  <2> QED
    BY <2>2 DEF Of
<1>16. \A t : \A i : i \in Of(result, t) <=> i \in result /\ i.ticker = t
  BY DEF Of
<1>17. ASSUME NEW i \in result, i.ticker \in T PROVE i.asset = a
  BY <1>9, <1>14, <1>15, <1>16, <1>17
<1>18. ASSUME NEW v \in 1 .. d, NEW w \in 1 .. d, Episode(history, s, d, v, w)
       PROVE  \E i \in result : i.ticker = history[s][w] /\ i.from = v /\ i.to = Ending(history, s, d, w)
  <2>1. v = x /\ w = y
    BY <1>2, <1>18, EpisodeUnique
  <2>2. PICK i \in Of(result, k) : i.to = own[k].to /\ (i.from = own[k].from
               \/ \E j \in db : j.ticker = k /\ j.to = Open /\ i.from = j.from)
    BY <1>5, <1>14
  <2>3. i.from = x
    <3>1. own[k].from = x
      BY <1>4
    <3> QED
      BY <1>4, <1>13, <2>2, <3>1
  <2>4. i.to = Ending(history, s, d, y)
    BY <1>4, <2>2
  <2> QED
    BY <1>16, <2>1, <2>3, <2>4 DEF k
<1>19. ASSUME NEW i \in result, i.ticker \in T, i.to = Open
       PROVE  history[s][d] = i.ticker /\ i.from \in 1 .. d /\ Episode(history, s, d, i.from, d)
  <2>1. i.ticker \in DOMAIN own
    BY <1>13, <1>15, <1>19
  <2>2. own[i.ticker].to = Open /\ (i.from = own[i.ticker].from \/ i \in db)
    BY <1>14, <1>16, <1>19, <2>1
  <2>3. i.ticker = k
    BY <1>5, <2>1, <2>2
  <2>4. Ending(history, s, d, y) = Open /\ own[k].from = x
    BY <1>4, <2>2, <2>3
  <2>5. i.from = x
    BY <1>13, <1>19, <2>2, <2>3, <2>4
  <2>6. history[s][d] # 0
    BY <1>6, <2>4 DEF Ending
  <2>7. y = d
    BY <1>2, <2>6, EpisodeKnown
  <2> QED
    BY <1>2, <2>3, <2>5, <2>7 DEF k
<1>20. ASSUME Lone(history, s), NEW z \in 1 .. d, history[s][z] # 0
       PROVE  \E i \in result : i.ticker = history[s][z] /\ i.from <= z /\ z <= i.to
  <2> DEFINE t == history[s][z]
  <2>1. t \in DOMAIN own /\ own[t].from <= z /\ z <= own[t].to
    BY <1>11, <1>20 DEF own
  <2>2. PICK i \in Of(result, t) : i.to = own[t].to /\ (i.from = own[t].from
               \/ \E j \in db : j.ticker = t /\ j.to = Open /\ i.from = j.from)
    BY <1>14, <2>1
  <2>3. ASSUME NEW j \in db, j.ticker = t, j.to = Open PROVE j.from <= z
    <3>1. /\ D \in Days /\ history[s][D] = t /\ j.from \in 1 .. D
          /\ Episode(history, s, D, j.from, D)
      BY <1>8, <1>13, <2>1, <2>3
    <3>2. CASE z <= D
      <4>1. z \in 1 .. D /\ D \in 1 .. D
        BY <1>6, <3>1, <3>2
      <4>2. \/ j.from <= z
            \/ history[s][z] # history[s][D]
        BY <1>20, <3>1, <4>1, LoneDays
      <4> QED
        BY <3>1, <4>2
    <3>3. CASE ~(z <= D)
      BY <1>6, <3>1, <3>3
    <3> QED
      BY <3>2, <3>3
  <2>4. i.from <= z
    BY <2>1, <2>2, <2>3
  <2> QED
    BY <1>16, <2>1, <2>2, <2>4
<1>21. Shape(history, result, s, d)
  BY <1>17, <1>18, <1>19, <1>20 DEF Shape
<1> QED
  BY <1>21 DEF result, rows

\* A repair as of day d keeps the identifiers of day D.
LEMMA RepairShape ==
    ASSUME history \in Histories, NEW s \in Sec, Alone(history, s), NEW D \in 0 .. NumDays,
           NEW d \in Days, D <= d, OneMove(history, s, D, d),
           NEW db, Shape(history, db, s, D),
           NEW A, \A k \in DOMAIN Universe(d) : DOMAIN Universe(d)[k] \subseteq A
    PROVE  Shape(history, {i \in db : i.ticker \in A}, s, D)
<1> DEFINE kept == {i \in db : i.ticker \in A}
<1>1. D \in Nat /\ 1 .. D \subseteq 1 .. d
  BY FmpAssumption DEF Days
<1>2. \A i \in kept : i \in db
  OBVIOUS
<1>3. \A i \in db : i.ticker \in A => i \in kept
  OBVIOUS
<1>4. CASE ~ Known(history, s, D)
  <2>1. \A z \in 1 .. D : history[s][z] = 0
    BY <1>4 DEF Known
  <2>2. \A x, y \in 1 .. D : ~ Episode(history, s, D, x, y)
    <3> SUFFICES ASSUME NEW x \in 1 .. D, NEW y \in 1 .. D, Episode(history, s, D, x, y) PROVE FALSE
      OBVIOUS
    <3>1. D \in Days
      BY FmpAssumption DEF Days
    <3> QED
      BY <1>4, <3>1, EpisodeKnown
  <2> HIDE DEF kept
  <2> QED
    BY <1>2, <2>1, <2>2 DEF Shape, kept
<1>5. CASE Known(history, s, D)
  <2>1. D \in Days /\ Known(history, s, d)
    BY <1>1, <1>5, FmpAssumption DEF Known, Days
  <2>2. PICK x \in 1 .. d, y \in 1 .. d : Episode(history, s, d, x, y)
    BY <2>1, LastEpisode
  <2> DEFINE own == Universe(d)[history[s][y]]
  <2>3. /\ history[s][y] \in DOMAIN Universe(d) /\ history[s][y] \in DOMAIN own
        /\ \A e \in Moves(history, s) :
               e <= d /\ history[s][e] = history[s][y] => history[s][e - 1] \in DOMAIN own
    BY <2>2, UniverseOf, UniverseType
  <2>4. DOMAIN own \subseteq A
    BY <2>3
  <2>5. \A z \in 1 .. d : Lone(history, s) /\ history[s][z] # 0 => history[s][z] \in DOMAIN own
    BY <2>2, LoneRows
  <2> HIDE DEF own, kept
  <2>6. ASSUME NEW v \in 1 .. D, NEW w \in 1 .. D, Episode(history, s, D, v, w)
        PROVE  \E i \in kept : i.ticker = history[s][w] /\ i.from = v /\ i.to = Ending(history, s, D, w)
    <3>1. PICK i \in db : i.ticker = history[s][w] /\ i.from = v /\ i.to = Ending(history, s, D, w)
      BY <2>6 DEF Shape
    <3>2. \/ history[s][w] = history[s][y]
          \/ /\ x \in Moves(history, s) /\ history[s][x] = history[s][y] /\ history[s][x - 1] = history[s][w]
      BY <2>1, <2>2, <2>6, EpisodeStep
    <3>3. x <= d
      OBVIOUS
    <3>4. history[s][w] \in DOMAIN own
      BY <2>3, <3>2, <3>3
    <3> QED
      BY <1>3, <2>4, <3>1, <3>4
  <2>7. ASSUME Lone(history, s), NEW z \in 1 .. D, history[s][z] # 0
        PROVE  \E i \in kept : i.ticker = history[s][z] /\ i.from <= z /\ z <= i.to
    <3>1. PICK i \in db : i.ticker = history[s][z] /\ i.from <= z /\ z <= i.to
      BY <2>7 DEF Shape
    <3>2. history[s][z] \in DOMAIN own
      BY <1>1, <2>5, <2>7
    <3> QED
      BY <1>3, <2>4, <3>1, <3>2
  <2>8. Shape(history, kept, s, D)
    BY <1>2, <2>6, <2>7 DEF Shape
  <2> QED
    BY <2>8 DEF kept
<1> QED
  BY <1>4, <1>5

-----------------------------------------------------------------------------
(* Candidates.                                                             *)

\* _ticker_metadata finds a key that holds the ticker, the only one if there is one.
LEMMA MetaIs ==
    ASSUME NEW rows, Frame(rows), NEW t, Holders(rows, t) # {}
    PROVE  /\ MetaOf(rows, t).key \in DOMAIN rows /\ t \in DOMAIN rows[MetaOf(rows, t).key]
           /\ MetaOf(rows, t).from = rows[MetaOf(rows, t).key][t].from
           /\ MetaOf(rows, t).to = rows[MetaOf(rows, t).key][t].to
           /\ \A k : Holders(rows, t) = {k} => MetaOf(rows, t).key = k
<1>1. Holders(rows, t) \subseteq 0 .. NumTickers /\ NumTickers \in Nat
  BY FmpAssumption DEF Holders, Frame, Tickers
<1>2. Max(Holders(rows, t)) \in Holders(rows, t)
  BY <1>1, MaxOf
<1>3. MetaOf(rows, t) = [key |-> Max(Holders(rows, t)), from |-> rows[Max(Holders(rows, t))][t].from,
                         to |-> rows[Max(Holders(rows, t))][t].to]
  BY DEF MetaOf
<1>4. MetaOf(rows, t).key = Max(Holders(rows, t))
      /\ MetaOf(rows, t).from = rows[Max(Holders(rows, t))][t].from
      /\ MetaOf(rows, t).to = rows[Max(Holders(rows, t))][t].to
  BY <1>3
<1> QED
  BY <1>2, <1>4 DEF Holders

\* The key of a candidate is of the security the candidate speaks of.
OfKey(h, rows, c) ==
    /\ c.key \in DOMAIN rows /\ c.key \in Tickers /\ c.sec \in Sec
    /\ \A s \in Sec : Alone(h, s) => (c.sec = s <=> c.key \in Tick(h, s))

\* A key that holds a ticker of the security on some day is of that security.
LEMMA KeyOf ==
    ASSUME history \in Histories, NEW d \in Days, NEW r \in Sec, NEW z \in Days, history[r][z] # 0,
           NEW k \in DOMAIN Universe(d), history[r][z] \in DOMAIN Universe(d)[k]
    PROVE  \A s \in Sec : Alone(history, s) => (r = s <=> k \in Tick(history, s))
BY AloneIs, UniverseSplit

\* A price candidate is of the security of its key.
LEMMA PriceCandidateIs ==
    ASSUME history \in Histories, NEW d \in Days, NEW z \in Days, NEW c \in PriceCandidates(Universe(d), z)
    PROVE  OfKey(history, Universe(d), c) /\ c.day = z /\ history[c.sec][z] # 0
<1>1. PICK r \in ListedOn(z) :
          /\ Holders(Universe(d), history[r][z]) # {}
          /\ c = [key |-> MetaOf(Universe(d), history[r][z]).key, day |-> z, sec |-> r]
  BY DEF PriceCandidates
<1>2. r \in Sec /\ history[r][z] # 0
  BY DEF ListedOn
<1>3. c.key = MetaOf(Universe(d), history[r][z]).key /\ c.day = z /\ c.sec = r
  BY <1>1
<1>4. c.key \in DOMAIN Universe(d) /\ history[r][z] \in DOMAIN Universe(d)[c.key]
  BY <1>1, <1>3, MetaIs, UniverseFrame
<1>5. c.key \in Tickers
  BY <1>4, UniverseType
<1> QED
  BY <1>2, <1>3, <1>4, <1>5, KeyOf DEF OfKey

\* So is a statement or a dividend.
LEMMA FactCandidateIs ==
    ASSUME history \in Histories, NEW d \in Days, NEW e, NEW c \in FactCandidates(Universe(d), e)
    PROVE  OfKey(history, Universe(d), c) /\ c.kind \in {"statement", "dividend"}
<1>1. PICK r \in ListedOn(EventDay), kind \in {"statement", "dividend"} :
          /\ Holders(Universe(d), history[r][EventDay]) # {}
          /\ c = [key |-> MetaOf(Universe(d), history[r][EventDay]).key, sec |-> r, kind |-> kind]
  BY DEF FactCandidates
<1>2. r \in Sec /\ history[r][EventDay] # 0 /\ EventDay \in Days
  BY FmpAssumption DEF ListedOn
<1>3. c.key = MetaOf(Universe(d), history[r][EventDay]).key /\ c.kind = kind /\ c.sec = r
  BY <1>1
<1>4. c.key \in DOMAIN Universe(d) /\ history[r][EventDay] \in DOMAIN Universe(d)[c.key]
  BY <1>1, <1>3, MetaIs, UniverseFrame
<1>5. c.key \in Tickers
  BY <1>4, UniverseType
<1> QED
  BY <1>2, <1>3, <1>4, <1>5, KeyOf DEF OfKey

\* The universe of a day prices a security renamed once at most on each day it
\* was listed before.
LEMMA LonePriced ==
    ASSUME history \in Histories, NEW s \in Sec, Lone(history, s), NEW d \in Days,
           NEW z \in 1 .. d, history[s][z] # 0
    PROVE  \E c \in PriceCandidates(Universe(d), z) : c.sec = s /\ c.day = z
<1>1. Known(history, s, d) /\ z \in Days
  BY FmpAssumption DEF Known, Days
<1>2. PICK x \in 1 .. d, y \in 1 .. d : Episode(history, s, d, x, y)
  BY <1>1, LastEpisode
<1> DEFINE rows == Universe(d)
           k == history[s][y]
           t == history[s][z]
<1>3. t \in DOMAIN rows[k] /\ rows[k][t].from <= z /\ z <= rows[k][t].to
  BY <1>2, LoneRows
<1>a. Alone(history, s)
  BY DEF Lone
<1>4. k \in DOMAIN rows /\ \A j \in DOMAIN rows : j \in Tick(history, s) => j = k
  BY <1>2, <1>a, UniverseOf
<1>5. t \in Tick(history, s)
  BY <1>1, AloneIs DEF Lone
<1>6. Holders(rows, t) = {k}
  <2>1. \A j \in DOMAIN rows : t \in DOMAIN rows[j] => j = k
    BY <1>4, <1>5, UniverseSplit DEF Lone
  <2> HIDE DEF rows, k, t
  <2> QED
    BY <1>3, <1>4, <2>1 DEF Holders
<1>7. Frame(rows)
  BY UniverseFrame
<1> HIDE DEF rows, k
<1>8. /\ MetaOf(rows, t).key = k /\ MetaOf(rows, t).from = rows[k][t].from
      /\ MetaOf(rows, t).to = rows[k][t].to
  BY <1>6, <1>7, MetaIs
<1>9. s \in {r \in ListedOn(z) :
                /\ Holders(rows, history[r][z]) # {}
                /\ MetaOf(rows, history[r][z]).from <= z
                /\ z <= MetaOf(rows, history[r][z]).to}
  BY <1>3, <1>6, <1>8 DEF ListedOn
<1>10. [key |-> MetaOf(rows, history[s][z]).key, day |-> z, sec |-> s] \in PriceCandidates(rows, z)
  BY <1>9 DEF PriceCandidates
<1> QED
  BY <1>10 DEF rows

-----------------------------------------------------------------------------
(* Whose the assets are.                                                   *)

\* The identifiers of an asset are all of one security that is alone, or none is.
Apart(h, db) ==
    \A s \in Sec : Alone(h, s) => \A i, j \in db : i.asset = j.asset =>
        (i.ticker \in Tick(h, s) <=> j.ticker \in Tick(h, s))

\* What is booked on an asset is of the security an identifier of it is of.
Booked(h, db, p) ==
    \E i \in db : i.asset = p.asset /\ \A s \in Sec : Alone(h, s) => (p.sec = s <=> i.ticker \in Tick(h, s))

\* A publication keeps the assets of securities apart, and the key of a candidate
\* leads to an asset of the candidate's security.
LEMMA PublishApart ==
    ASSUME history \in Histories, NEW d \in Days, NEW db, db \subseteq Identifier, NEW n \in Nat \ {0},
           \A i \in db : i.asset \in 1 .. n - 1, Apart(history, db), PublishAssets(Universe(d), db, n).ok
    PROVE  LET rows == Universe(d)
               result == PublishAssets(rows, db, n).ids
               m == n + Cardinality(NewKeys(rows, db))
           IN  /\ Apart(history, result) /\ result \subseteq Identifier
               /\ m \in Nat /\ n <= m
               /\ \A i \in result : i.asset \in 1 .. m - 1
               /\ \A p : Booked(history, db, p) => Booked(history, result, p)
               /\ \A c : OfKey(history, rows, c) =>
                      \A p : p.sec = c.sec /\ p.asset = NaturalToId(rows, db, n)[c.key] =>
                          Booked(history, result, p)
<1> DEFINE rows == Universe(d)
           map == NaturalToId(rows, db, n)
           result == PublishAssets(rows, db, n).ids
           new == NewKeys(rows, db)
           m == n + Cardinality(new)
<1>1. Published(rows, db, map, result) /\ Frame(rows) /\ result \subseteq Identifier
  <2>1. PublishAssets(rows, db, n) \in Publication
    BY UniverseFrame, PublishAssetsIs
  <2> QED
    BY <2>1, UniverseFrame, PublishAssetsIs DEF Publication
<1>3. Cardinality(new) \in Nat
  BY <1>1, NewKeysAre
<1>2. /\ \A k \in DOMAIN rows : k \notin new =>
             (\E i \in db : i.ticker \in DOMAIN rows[k] /\ map[k] = i.asset)
      /\ \A k \in new : map[k] \in n .. m - 1
      /\ \A j, k \in new : map[j] = map[k] => j = k
  <2> HIDE DEF rows
  <2>1. n \in Nat
    OBVIOUS
  <2>2. /\ \A k \in DOMAIN rows : k \notin NewKeys(rows, db) =>
               (\E i \in db : i.ticker \in DOMAIN rows[k] /\ NaturalToId(rows, db, n)[k] = i.asset)
        /\ \A k \in NewKeys(rows, db) :
               NaturalToId(rows, db, n)[k] \in n .. n + Cardinality(NewKeys(rows, db)) - 1
        /\ \A j, k \in NewKeys(rows, db) :
               NaturalToId(rows, db, n)[j] = NaturalToId(rows, db, n)[k] => j = k
    BY <1>1, <2>1, NaturalToIdIs
  <2>3. \A k \in DOMAIN rows : k \notin new =>
             (\E i \in db : i.ticker \in DOMAIN rows[k] /\ map[k] = i.asset)
    BY <2>2
  <2>4. \A k \in new : map[k] \in n .. m - 1
    BY <1>3, <2>2
  <2>5. \A j, k \in new : map[j] = map[k] => j = k
    BY <2>2
  <2> QED
    BY <2>3, <2>4, <2>5
<1>4. \A k \in DOMAIN rows : \A t \in DOMAIN rows[k] : \A s \in Sec : Alone(history, s) =>
          (t \in Tick(history, s) <=> k \in Tick(history, s))
  BY UniverseSplit
<1> HIDE DEF rows, map, new, result
<1>5. m \in Nat /\ n <= m
  BY <1>3
<1>6. ASSUME NEW i \in result
      PROVE  \/ \E j \in db : i.asset = j.asset /\ \A s \in Sec : Alone(history, s) =>
                    (i.ticker \in Tick(history, s) <=> j.ticker \in Tick(history, s))
             \/ \E k \in new : i.asset = map[k] /\ \A s \in Sec : Alone(history, s) =>
                    (i.ticker \in Tick(history, s) <=> k \in Tick(history, s))
  <2>1. CASE \E j \in db : j.asset = i.asset /\ j.ticker = i.ticker
    BY <2>1
  <2>2. CASE \E k \in DOMAIN rows : i.asset = map[k] /\ i.ticker \in DOMAIN rows[k]
    <3>1. PICK k \in DOMAIN rows : i.asset = map[k] /\ i.ticker \in DOMAIN rows[k]
      BY <2>2
    <3>2. CASE k \in new
      BY <1>4, <3>1, <3>2
    <3>3. CASE k \notin new
      <4>1. PICK j \in db : j.ticker \in DOMAIN rows[k] /\ map[k] = j.asset
        BY <1>2, <3>3
      <4> QED
        BY <1>4, <3>1, <4>1
    <3> QED
      BY <3>2, <3>3
  <2> QED
    BY <1>1, <2>1, <2>2 DEF Published
<1>7. \A j \in db : \A k \in new : j.asset # map[k]
  <2>1. \A j \in db : \A k \in new : j.asset \in 1 .. n - 1 /\ map[k] \in n .. m - 1
    BY <1>2
  <2> QED
    BY <1>5, <2>1
<1>8. Apart(history, result)
  <2> SUFFICES ASSUME NEW s \in Sec, Alone(history, s), NEW i \in result, NEW j \in result, i.asset = j.asset
               PROVE  i.ticker \in Tick(history, s) <=> j.ticker \in Tick(history, s)
    BY DEF Apart
  <2>1. \/ \E q \in db : i.asset = q.asset /\ (i.ticker \in Tick(history, s) <=> q.ticker \in Tick(history, s))
        \/ \E k \in new : i.asset = map[k] /\ (i.ticker \in Tick(history, s) <=> k \in Tick(history, s))
    BY <1>6
  <2>2. \/ \E q \in db : j.asset = q.asset /\ (j.ticker \in Tick(history, s) <=> q.ticker \in Tick(history, s))
        \/ \E k \in new : j.asset = map[k] /\ (j.ticker \in Tick(history, s) <=> k \in Tick(history, s))
    BY <1>6
  <2>3. \A q, v \in db : q.asset = v.asset =>
            (q.ticker \in Tick(history, s) <=> v.ticker \in Tick(history, s))
    BY DEF Apart
  <2> QED
    BY <1>2, <1>7, <2>1, <2>2, <2>3
<1>9. ASSUME NEW i \in result PROVE i.asset \in 1 .. m - 1
  <2>1. CASE \E j \in db : i.asset = j.asset
    BY <1>5, <2>1
  <2>2. CASE \E k \in new : i.asset = map[k]
    <3>1. PICK k \in new : i.asset = map[k] /\ map[k] \in n .. m - 1
      BY <1>2, <2>2
    <3>2. i.asset # 0
      BY <1>5, <3>1
    <3> QED
      BY <1>5, <3>1, <3>2
  <2> QED
    BY <1>6, <2>1, <2>2
<1>10. ASSUME NEW p, Booked(history, db, p) PROVE Booked(history, result, p)
  <2>1. PICK j \in db : j.asset = p.asset /\ \A s \in Sec : Alone(history, s) =>
                            (p.sec = s <=> j.ticker \in Tick(history, s))
    BY <1>10 DEF Booked
  <2>2. PICK i \in result : i.asset = j.asset /\ i.ticker = j.ticker
    BY <1>1 DEF Published
  <2> QED
    BY <2>1, <2>2 DEF Booked
<1>11. ASSUME NEW c, OfKey(history, rows, c), NEW p, p.sec = c.sec, p.asset = map[c.key]
       PROVE  Booked(history, result, p)
  <2>1. PICK i \in result : i.asset = map[c.key] /\ i.ticker = c.key
    BY <1>1, <1>11 DEF Published, OfKey
  <2> QED
    BY <1>11, <2>1 DEF Booked, OfKey
<1> QED
  BY <1>1, <1>5, <1>8, <1>9, <1>10, <1>11 DEF rows, result, new, map

-----------------------------------------------------------------------------
(* The invariant, of which the first part needs no scheduling.             *)

\* Assets are numbered from 1, and a price is of a day its security is listed on.
Numbers ==
    /\ next \in Nat \ {0}
    /\ \A i \in ids : i.asset \in 1 .. next - 1
    /\ \A p \in prices : history[p.sec][p.day] # 0

\* A statement has no symbol in its key, a dividend a ticker of its security.
Keyed(h, f) == Alone(h, f.sec) =>
    IF f.kind = "statement" THEN f.key = 0 ELSE f.key \in Tick(h, f.sec)

\* The assets are apart, and all rows are booked on an asset of their security.
Owned == /\ Apart(history, ids)
         /\ \A p \in prices : Booked(history, ids, p)
         /\ \A f \in facts : Booked(history, ids, f) /\ Keyed(history, f)

\* A task that runs has its day.
Placing == /\ task.at # 0 => task.day \in Days
           /\ Busy => fill.asof \in Days

\* The part of the invariant that holds even with a backfill beside the daily task.
Base == TypeOK /\ Numbers /\ Owned /\ Placing

-----------------------------------------------------------------------------
(* What a partition of the backfill or a day of the task publishes.        *)

\* _existing_identifier_map leads a ticker to the asset of a stored identifier of it.
LEMMA FillMapIs ==
    ASSUME ids \subseteq Identifier
    PROVE  \A k \in DOMAIN FillMap : \E i \in ids : i.ticker = k /\ FillMap[k] = i.asset
<1> SUFFICES ASSUME NEW k \in DOMAIN FillMap
             PROVE  \E i \in ids : i.ticker = k /\ FillMap[k] = i.asset
  OBVIOUS
<1>1. k \in Tickers /\ Stored(k) # {} /\ FillMap[k] = Preferred(k).asset
  BY DEF FillMap
<1>2. \E i \in Stored(k) : \A j \in Stored(k) : i.to = Open \/ (j.to # Open /\ j.from <= i.from)
  <2>1. CASE \E i \in Stored(k) : i.to = Open
    BY <2>1
  <2>2. CASE \A i \in Stored(k) : i.to # Open
    <3> DEFINE T == {i.from : i \in Stored(k)}
    <3>1. T \subseteq 0 .. NumDays /\ T # {} /\ NumDays \in Nat
      BY <1>1, FmpAssumption DEF Stored, Identifier
    <3>2. \E n \in T : \A m \in T : m <= n
      <4> HIDE DEF T
      <4> QED
        BY <3>1, Greatest
    <3>3. PICK i \in Stored(k) : \A m \in T : m <= i.from
      BY <3>2
    <3> QED
      BY <2>2, <3>3
  <2> QED
    BY <2>1, <2>2
<1>3. Preferred(k) \in Stored(k)
  BY <1>2 DEF Preferred
<1> QED
  BY <1>1, <1>3 DEF Stored

\* A placed price is one of a candidate.
LEMMA PlacedIs ==
    ASSUME NEW C, NEW map, NEW q \in Placed(C, map)
    PROVE  \E c \in C : q.asset = map[c.key] /\ q.sec = c.sec /\ q.day = c.day
                        /\ q = [asset |-> map[c.key], day |-> c.day, sec |-> c.sec]
<1>1. PICK c \in C : q = [asset |-> map[c.key], day |-> c.day, sec |-> c.sec]
  BY DEF Placed
<1> QED
  BY <1>1

\* A published fact is one of a candidate.
LEMMA FactsIs ==
    ASSUME NEW C, NEW map, NEW q \in Facts(C, map)
    PROVE  \E c \in C : /\ q.asset = map[c.key] /\ q.sec = c.sec /\ q.kind = c.kind
                        /\ q.key = FactKey(c.kind, c.key)
                        /\ q = [asset |-> map[c.key], sec |-> c.sec, kind |-> c.kind,
                                key |-> FactKey(c.kind, c.key)]
<1>1. PICK c \in C : q = [asset |-> map[c.key], sec |-> c.sec, kind |-> c.kind,
                          key |-> FactKey(c.kind, c.key)]
  BY DEF Facts
<1> QED
  BY <1>1

\* The map of keys leads each candidate to an asset of its security.
Ready(h, rows, db, map, C) ==
    \A c \in C : /\ map[c.key] \in Nat
                 /\ OfKey(h, rows, c) =>
                        \A p : p.sec = c.sec /\ p.asset = map[c.key] => Booked(h, db, p)

\* Prices placed by such a map are booked on an asset of their security.
LEMMA PricesPlaced ==
    ASSUME history \in Histories, NEW d \in Days, NEW z \in Days, NEW db, NEW map,
           NEW C, C \subseteq PriceCandidates(Universe(d), z),
           Ready(history, Universe(d), db, map, C)
    PROVE  \A q \in Placed(C, map) : /\ q \in Price /\ q.day = z /\ history[q.sec][q.day] # 0
                                     /\ Booked(history, db, q)
<1> SUFFICES ASSUME NEW q \in Placed(C, map)
             PROVE  q \in Price /\ q.day = z /\ history[q.sec][q.day] # 0 /\ Booked(history, db, q)
  OBVIOUS
<1>1. PICK c \in C : q.asset = map[c.key] /\ q.sec = c.sec /\ q.day = c.day
                     /\ q = [asset |-> map[c.key], day |-> c.day, sec |-> c.sec]
  BY PlacedIs
<1>2. OfKey(history, Universe(d), c) /\ c.day = z /\ history[c.sec][z] # 0
  BY PriceCandidateIs
<1>3. map[c.key] \in Nat /\ c.sec \in Sec
  BY <1>2 DEF OfKey, Ready
<1>4. Booked(history, db, q)
  BY <1>1, <1>2 DEF Ready
<1> QED
  BY <1>1, <1>2, <1>3, <1>4 DEF Price

\* So are statements and dividends.
LEMMA FactsPlaced ==
    ASSUME history \in Histories, NEW d \in Days, NEW e, NEW db, NEW map,
           NEW C, C \subseteq FactCandidates(Universe(d), e),
           Ready(history, Universe(d), db, map, C)
    PROVE  \A q \in Facts(C, map) : q \in Fact /\ Booked(history, db, q) /\ Keyed(history, q)
<1> SUFFICES ASSUME NEW q \in Facts(C, map)
             PROVE  q \in Fact /\ Booked(history, db, q) /\ Keyed(history, q)
  OBVIOUS
<1>1. PICK c \in C : /\ q.asset = map[c.key] /\ q.sec = c.sec /\ q.kind = c.kind
                     /\ q.key = FactKey(c.kind, c.key)
                     /\ q = [asset |-> map[c.key], sec |-> c.sec, kind |-> c.kind,
                             key |-> FactKey(c.kind, c.key)]
  BY FactsIs
<1>2. OfKey(history, Universe(d), c) /\ c.kind \in {"statement", "dividend"}
  BY FactCandidateIs
<1>3. map[c.key] \in Nat /\ c.sec \in Sec /\ c.key \in Tickers
  BY <1>2 DEF OfKey, Ready
<1>4. Booked(history, db, q)
  BY <1>1, <1>2 DEF Ready
<1>5. FactKey(c.kind, c.key) = IF c.kind = "dividend" THEN c.key ELSE 0
  BY DEF FactKey
<1>6. q \in Fact
  BY <1>1, <1>2, <1>3, <1>5 DEF Fact
<1>7. Keyed(history, q)
  BY <1>1, <1>2, <1>3, <1>5 DEF Keyed, OfKey
<1> QED
  BY <1>4, <1>6, <1>7

\* An upsert brings in nothing but the new rows.
LEMMA MergeIs ==
    ASSUME NEW stored, NEW new, NEW f \in Merge(stored, new)
    PROVE  f \in stored \/ f \in new
BY DEF Merge

-----------------------------------------------------------------------------
\* What the daily transaction leaves.
LEMMA DayPublished ==
    ASSUME Base, task.at = 6, Publishable
    PROVE  LET result == DayResult.ids
               m == next + Cardinality(NewKeys(DayRows, ids))
           IN  /\ Apart(history, result) /\ result \subseteq Identifier
               /\ m \in Nat \ {0} /\ \A i \in result : i.asset \in 1 .. m - 1
               /\ \A p : Booked(history, ids, p) => Booked(history, result, p)
               /\ \A q \in DayPrices : /\ q \in Price /\ q.day = task.day
                                       /\ history[q.sec][q.day] # 0 /\ Booked(history, result, q)
               /\ \A q \in DayFacts : q \in Fact /\ Booked(history, result, q) /\ Keyed(history, q)
<1> DEFINE map == NaturalToId(DayRows, ids, next)
           result == DayResult.ids
<1>1. task.day \in Days /\ history \in Histories /\ ids \subseteq Identifier /\ next \in Nat \ {0}
  BY DEF Base, TypeOK, Numbers, Placing
<1>2. Apart(history, ids) /\ \A i \in ids : i.asset \in 1 .. next - 1
  BY DEF Base, Owned, Numbers
<1>3. PublishAssets(Universe(task.day), ids, next).ok
  BY DEF Publishable, DayResult, DayRows
<1>4. LET m == next + Cardinality(NewKeys(DayRows, ids))
      IN  /\ Apart(history, result) /\ result \subseteq Identifier
          /\ m \in Nat /\ next <= m
          /\ \A i \in result : i.asset \in 1 .. m - 1
          /\ \A p : Booked(history, ids, p) => Booked(history, result, p)
          /\ \A c : OfKey(history, DayRows, c) =>
                 \A p : p.sec = c.sec /\ p.asset = map[c.key] => Booked(history, result, p)
  BY <1>1, <1>2, <1>3, PublishApart DEF DayResult, DayRows
<1>5. \A k \in DOMAIN DayRows : map[k] \in Nat
  BY <1>1, NaturalToIdIs, UniverseFrame DEF DayRows
<1> HIDE DEF map, result
<1>6. \A q \in DayPrices : q \in Price /\ q.day = task.day /\ history[q.sec][q.day] # 0
                           /\ Booked(history, result, q)
  <2>1. DayCandidates \subseteq PriceCandidates(DayRows, task.day)
    BY DEF DayCandidates
  <2>2. \A c \in DayCandidates : OfKey(history, DayRows, c)
    BY <1>1, <2>1, PriceCandidateIs DEF DayRows
  <2>3. \A c \in DayCandidates : map[c.key] \in Nat
    BY <1>5, <2>2 DEF OfKey
  <2>4. Ready(history, DayRows, result, map, DayCandidates)
    BY <1>4, <2>3 DEF Ready
  <2>5. \A q \in Placed(DayCandidates, map) :
            /\ q \in Price /\ q.day = task.day /\ history[q.sec][q.day] # 0
            /\ Booked(history, result, q)
    BY <1>1, <2>1, <2>4, PricesPlaced DEF DayRows
  <2> QED
    BY <2>5 DEF DayPrices, map
<1>7. \A q \in DayFacts : q \in Fact /\ Booked(history, result, q) /\ Keyed(history, q)
  <2>1. CASE EventDay < today
    <3>1. \A c \in FactCandidates(DayRows, task.day) : OfKey(history, DayRows, c)
      BY <1>1, FactCandidateIs DEF DayRows
    <3>2. \A c \in FactCandidates(DayRows, task.day) : map[c.key] \in Nat
      BY <1>5, <3>1 DEF OfKey
    <3>3. DayFacts = Facts(FactCandidates(DayRows, task.day), map)
      BY <2>1 DEF DayFacts, map
    <3>4. Ready(history, DayRows, result, map, FactCandidates(DayRows, task.day))
      BY <1>4, <3>2 DEF Ready
    <3> QED
      BY <1>1, <3>3, <3>4, FactsPlaced DEF DayRows
  <2>2. CASE ~(EventDay < today)
    BY <2>2 DEF DayFacts
  <2> QED
    BY <2>1, <2>2
<1>8. next + Cardinality(NewKeys(DayRows, ids)) # 0
  BY <1>1, <1>4
<1> QED
  BY <1>4, <1>6, <1>7, <1>8 DEF result

\* What the asset partition of the backfill leaves.
LEMMA FillPublished ==
    ASSUME Base, Busy, PublishAssets(FillRows, ids, next).ok
    PROVE  LET result == PublishAssets(FillRows, ids, next).ids
               m == next + Cardinality(NewKeys(FillRows, ids))
           IN  /\ Apart(history, result) /\ result \subseteq Identifier
               /\ m \in Nat \ {0} /\ \A i \in result : i.asset \in 1 .. m - 1
               /\ \A p : Booked(history, ids, p) => Booked(history, result, p)
<1>1. fill.asof \in Days /\ history \in Histories /\ ids \subseteq Identifier /\ next \in Nat \ {0}
  BY DEF Base, TypeOK, Numbers, Placing
<1>2. Apart(history, ids) /\ \A i \in ids : i.asset \in 1 .. next - 1
  BY DEF Base, Owned, Numbers
<1>4. LET result == PublishAssets(FillRows, ids, next).ids
          m == next + Cardinality(NewKeys(FillRows, ids))
      IN  /\ Apart(history, result) /\ result \subseteq Identifier
          /\ m \in Nat /\ next <= m
          /\ \A i \in result : i.asset \in 1 .. m - 1
          /\ \A p : Booked(history, ids, p) => Booked(history, result, p)
  BY <1>1, <1>2, PublishApart DEF FillRows
<1>8. next + Cardinality(NewKeys(FillRows, ids)) # 0
  BY <1>1, <1>4
<1> QED
  BY <1>4, <1>8

\* The statements and dividends of the partition of day d.
FillEvents(d) == {c \in FactCandidates(FillRows, d) : d = EventDay /\ c.key \in DOMAIN FillMap}

\* What a price partition of the backfill publishes.
LEMMA FillPlaced ==
    ASSUME Base, Busy, NEW d \in Days,
           {c.key : c \in PriceCandidates(FillRows, d)} \subseteq DOMAIN FillMap
    PROVE  /\ \A q \in Placed(PriceCandidates(FillRows, d), FillMap) :
                  /\ q \in Price /\ q.day = d /\ history[q.sec][q.day] # 0
                  /\ Booked(history, ids, q)
           /\ \A q \in Facts(FillEvents(d), FillMap) :
                  q \in Fact /\ Booked(history, ids, q) /\ Keyed(history, q)
<1>1. fill.asof \in Days /\ history \in Histories /\ ids \subseteq Identifier
  BY DEF Base, TypeOK, Numbers, Placing
<1>2. \A k \in DOMAIN FillMap : \E i \in ids : i.ticker = k /\ FillMap[k] = i.asset
  BY <1>1, FillMapIs
<1>3. ASSUME NEW c, c.key \in DOMAIN FillMap
      PROVE  /\ FillMap[c.key] \in Nat
             /\ OfKey(history, FillRows, c) =>
                    \A p : p.sec = c.sec /\ p.asset = FillMap[c.key] => Booked(history, ids, p)
  <2>1. PICK i \in ids : i.ticker = c.key /\ FillMap[c.key] = i.asset
    BY <1>2, <1>3
  <2>2. FillMap[c.key] \in Nat
    BY <1>1, <2>1 DEF Identifier
  <2>3. ASSUME OfKey(history, FillRows, c), NEW p, p.sec = c.sec, p.asset = FillMap[c.key]
        PROVE  Booked(history, ids, p)
    BY <2>1, <2>3 DEF Booked, OfKey
  <2> QED
    BY <2>2, <2>3
<1>4. \A c \in PriceCandidates(FillRows, d) : c.key \in DOMAIN FillMap
  OBVIOUS
<1>5. \A q \in Placed(PriceCandidates(FillRows, d), FillMap) :
          /\ q \in Price /\ q.day = d /\ history[q.sec][q.day] # 0 /\ Booked(history, ids, q)
  <2>1. Ready(history, FillRows, ids, FillMap, PriceCandidates(FillRows, d))
    BY <1>3, <1>4 DEF Ready
  <2> QED
    BY <1>1, <2>1, PricesPlaced DEF FillRows
<1>6. FillEvents(d) \subseteq FactCandidates(FillRows, d) /\ \A c \in FillEvents(d) : c.key \in DOMAIN FillMap
  BY DEF FillEvents
<1>7. \A q \in Facts(FillEvents(d), FillMap) : q \in Fact /\ Booked(history, ids, q) /\ Keyed(history, q)
  <2>1. Ready(history, FillRows, ids, FillMap, FillEvents(d))
    BY <1>3, <1>6 DEF Ready
  <2> QED
    BY <1>1, <1>6, <2>1, FactsPlaced DEF FillRows
<1> QED
  BY <1>5, <1>7

-----------------------------------------------------------------------------
(* The first part of the invariant holds of every step.                    *)

\* It holds at the start.
LEMMA BaseInit == Init => Base
<1> SUFFICES ASSUME Init PROVE Base
  OBVIOUS
<1>1. TypeOK
  <2>1. body \in [Days -> [Feed -> {"none", "empty", "full"}]] /\ sealed \in [Days -> SUBSET Feed]
        /\ task \in [day : Days \cup {0}, at : 0 .. 6, put : BOOLEAN]
    BY DEF Init
  <2>2. fill \in [pc : {"idle", "asset", "price"}, asof : Days \cup {0}, days : SUBSET Days]
    BY DEF Init
  <2>3. parent \in [status : {"NONE", "BUILDING", "CERTIFIED", "FAILED"},
                    input : [Days -> SUBSET Feed], done : SUBSET Partition]
    BY DEF Init
  <2> QED
    BY <2>1, <2>2, <2>3, FmpAssumption DEF Init, TypeOK
<1>2. Numbers
  BY DEF Init, Numbers
<1>3. Owned
  BY DEF Init, Owned, Apart
<1>4. Placing
  BY DEF Init, Placing, Busy
<1> QED
  BY <1>1, <1>2, <1>3, <1>4 DEF Base

\* There is a latest snapshot.
LEMMA LatestIs ==
    ASSUME TypeOK, Snapshots # {}
    PROVE  LatestSnapshot \in Snapshots /\ LatestSnapshot \in Days
           /\ \A e \in Snapshots : e <= LatestSnapshot
<1>1. Snapshots \subseteq 0 .. NumDays /\ Snapshots \subseteq Days /\ NumDays \in Nat
  BY FmpAssumption DEF Snapshots, Days
<1>2. \E d \in Snapshots : \A e \in Snapshots : e <= d
  BY <1>1, Greatest
<1>3. LatestSnapshot \in Snapshots /\ \A e \in Snapshots : e <= LatestSnapshot
  BY <1>2 DEF LatestSnapshot
<1> QED
  BY <1>1, <1>3

\* The steps that leave Silver's identifiers, prices and facts alone.
Quiet == UNCHANGED <<history, ids, next, prices, facts>>

\* They keep the numbers and the owners.
LEMMA QuietStep ==
    ASSUME Base, Quiet
    PROVE  Numbers' /\ Owned'
<1>1. history' = history /\ ids' = ids /\ next' = next /\ prices' = prices /\ facts' = facts
  BY DEF Quiet
<1> QED
  BY <1>1 DEF Base, Numbers, Owned

\* The calendar and the provider publish nothing.
LEMMA WorldType ==
    ASSUME Base
    PROVE  /\ NextDay => TypeOK' /\ Placing' /\ Quiet
           /\ \A d \in Days : Arrive(d) => TypeOK' /\ Placing' /\ Quiet
<1> USE DEF Base
<1>1. ASSUME NextDay PROVE TypeOK' /\ Placing' /\ Quiet
  BY <1>1, FmpAssumption DEF NextDay, TypeOK, Placing, Busy, Quiet, world, bronze, silver
<1>2. ASSUME NEW d \in Days, Arrive(d) PROVE TypeOK' /\ Placing' /\ Quiet
  BY <1>2 DEF Arrive, TypeOK, Placing, Busy, Quiet, world, bronze, silver
<1> QED
  BY <1>1, <1>2

\* A step of the daily task that leaves its place alone or moves it on.
LEMMA TaskType ==
    ASSUME Base
    PROVE  /\ Finished \in [day : Days \cup {0}, at : 0 .. 6, put : BOOLEAN] /\ Finished.at = 0
           /\ task.at \in 1 .. 5 =>
                  /\ Advance \in [day : Days \cup {0}, at : 0 .. 6, put : BOOLEAN]
                  /\ Advance.day = task.day /\ Advance.at = task.at + 1 /\ ~ Advance.put
                  /\ ThisFeed \in Feed /\ task.day \in Days
           /\ \A f, d : Leave(f, d) => task' = Finished \/ task' = Advance
<1> USE DEF Base, TypeOK
<1>1. Finished \in [day : Days \cup {0}, at : 0 .. 6, put : BOOLEAN] /\ Finished.at = 0
  BY DEF Finished
<1>2. ASSUME task.at \in 1 .. 5
      PROVE  /\ Advance \in [day : Days \cup {0}, at : 0 .. 6, put : BOOLEAN]
             /\ Advance.day = task.day /\ Advance.at = task.at + 1 /\ ~ Advance.put
             /\ ThisFeed \in Feed /\ task.day \in Days
  <2>1. task \in [day : Days \cup {0}, at : 0 .. 6, put : BOOLEAN]
    OBVIOUS
  <2>2. Advance = [task EXCEPT !.at = task.at + 1, !.put = FALSE]
    BY DEF Advance
  <2>3. task.at + 1 \in 0 .. 6
    BY <1>2
  <2>4. ThisFeed \in Feed
    BY <1>2 DEF ThisFeed, Feed, Feeds
  <2>5. task.day \in Days
    BY <1>2 DEF Placing
  <2> HIDE DEF Base, TypeOK
  <2> QED
    BY <2>1, <2>2, <2>3, <2>4, <2>5
<1>3. \A f, d : Leave(f, d) => task' = Finished \/ task' = Advance
  BY DEF Leave
<1> QED
  BY <1>1, <1>2, <1>3

\* Nor do the steps of the daily task before its transaction.
LEMMA DailyType ==
    ASSUME Base
    PROVE  /\ StartDaily => TypeOK' /\ Placing' /\ Quiet
           /\ Reuse => TypeOK' /\ Placing' /\ Quiet
           /\ Fetch => TypeOK' /\ Placing' /\ Quiet
           /\ RefuseOrphan => TypeOK' /\ Placing' /\ Quiet
           /\ Seal => TypeOK' /\ Placing' /\ Quiet
           /\ LoadFails => TypeOK' /\ Placing' /\ Quiet
           /\ StopDaily => TypeOK' /\ Placing' /\ Quiet
<1> DEFINE Place == [day : Days \cup {0}, at : 0 .. 6, put : BOOLEAN]
<1>0. TypeOK /\ Placing
  BY DEF Base
<1>t. Finished \in Place /\ Finished.at = 0
  BY TaskType
<1>1. ASSUME StartDaily PROVE TypeOK' /\ Placing' /\ Quiet
  <2>1. today - 1 \in Days
    BY <1>0, <1>1, FmpAssumption DEF StartDaily, TypeOK, Days
  <2>2. task' \in Place /\ task'.day \in Days
    BY <1>1, <2>1 DEF StartDaily
  <2> QED
    BY <1>0, <1>1, <2>2 DEF StartDaily, TypeOK, Placing, Busy, Quiet, world, bronze, silver
<1>2. ASSUME Reuse PROVE TypeOK' /\ Placing' /\ Quiet
  <2>1. task.at \in 1 .. 5 /\ Leave(ThisFeed, task.day)
    BY <1>2 DEF Reuse
  <2>2. task' \in Place /\ (task'.at # 0 => task'.day \in Days)
    BY <1>t, <2>1, TaskType
  <2>3. observed' \subseteq Days
    BY <1>0, <2>1, TaskType DEF Leave, TypeOK
  <2> QED
    BY <1>0, <1>2, <2>1, <2>2, <2>3 DEF Reuse, Leave, TypeOK, Placing, Busy, Quiet, world, bronze
<1>3. ASSUME Fetch PROVE TypeOK' /\ Placing' /\ Quiet
  <2>1. task.at \in 1 .. 5 /\ ThisFeed \in Feed /\ task.day \in Days
    BY <1>3, TaskType DEF Fetch
  <2>2. task' \in Place /\ task'.day \in Days
    BY <1>0, <1>3, <2>1 DEF Fetch, TypeOK
  <2>3. body' \in [Days -> [Feed -> {"none", "empty", "full"}]]
    <3>1. body[task.day] \in [Feed -> {"none", "empty", "full"}]
      BY <1>0, <2>1 DEF TypeOK
    <3>2. \E v \in {"empty", "full"} : body' = [body EXCEPT ![task.day][ThisFeed] = v]
      BY <1>3 DEF Fetch
    <3> QED
      BY <1>0, <2>1, <3>1, <3>2 DEF TypeOK
  <2> QED
    BY <1>0, <1>3, <2>2, <2>3 DEF Fetch, TypeOK, Placing, Busy, Quiet, world, silver
<1>4. ASSUME RefuseOrphan PROVE TypeOK' /\ Placing' /\ Quiet
  BY <1>0, <1>4, <1>t DEF RefuseOrphan, TypeOK, Placing, Busy, Quiet, world, bronze, silver
<1>5. ASSUME Seal PROVE TypeOK' /\ Placing' /\ Quiet
  <2>1. task.at \in 1 .. 5 /\ Leave(ThisFeed, task.day)
    BY <1>5 DEF Seal
  <2>2. task' \in Place /\ (task'.at # 0 => task'.day \in Days)
    BY <1>t, <2>1, TaskType
  <2>3. observed' \subseteq Days
    BY <1>0, <2>1, TaskType DEF Leave, TypeOK
  <2>4. sealed' \in [Days -> SUBSET Feed]
    BY <1>0, <1>5, <2>1, TaskType DEF Seal, TypeOK
  <2> QED
    BY <1>0, <1>5, <2>1, <2>2, <2>3, <2>4 DEF Seal, Leave, TypeOK, Placing, Busy, Quiet, world
<1>6. ASSUME LoadFails PROVE TypeOK' /\ Placing' /\ Quiet
  BY <1>0, <1>6, <1>t DEF LoadFails, TypeOK, Placing, Busy, Quiet, world, bronze, silver
<1>7. ASSUME StopDaily PROVE TypeOK' /\ Placing' /\ Quiet
  BY <1>0, <1>7, <1>t, FmpAssumption DEF StopDaily, TypeOK, Placing, Busy, Quiet, world, bronze, silver
<1> QED
  BY <1>1, <1>2, <1>3, <1>4, <1>5, <1>6, <1>7

\* Nor do the start and the end of a backfill.
LEMMA FillType ==
    ASSUME Base
    PROVE  /\ \A resumed \in BOOLEAN : StartFill(resumed) => TypeOK' /\ Placing' /\ Quiet
           /\ FinishFill => TypeOK' /\ Placing' /\ Quiet
           /\ StopFill => TypeOK' /\ Placing' /\ Quiet
<1> DEFINE Place == [pc : {"idle", "asset", "price"}, asof : Days \cup {0}, days : SUBSET Days]
           Run == [status : {"NONE", "BUILDING", "CERTIFIED", "FAILED"},
                   input : [Days -> SUBSET Feed], done : SUBSET Partition]
<1>0. TypeOK /\ Placing
  BY DEF Base
<1>1. FillIdle \in Place /\ FillIdle.pc = "idle"
  BY DEF FillIdle
<1>2. ASSUME NEW resumed \in BOOLEAN, StartFill(resumed) PROVE TypeOK' /\ Placing' /\ Quiet
  <2>1. LatestSnapshot \in Days
    BY <1>0, <1>2, LatestIs DEF StartFill
  <2>2. fill' \in Place /\ fill'.asof \in Days
    BY <1>2, <2>1 DEF StartFill
  <2>3. parent' \in Run
    BY <1>0, <1>2 DEF StartFill, TypeOK
  <2>4. fills' \in 0 .. MaxBackfills
    BY <1>0, <1>2, FmpAssumption DEF StartFill, TypeOK
  <2> QED
    BY <1>0, <1>2, <2>2, <2>3, <2>4 DEF StartFill, TypeOK, Placing, Busy, Quiet, world, bronze, silver
<1>3. ASSUME FinishFill PROVE TypeOK' /\ Placing' /\ Quiet
  <2>1. parent' \in Run
    BY <1>0, <1>3 DEF FinishFill, TypeOK
  <2> QED
    BY <1>0, <1>1, <1>3, <2>1 DEF FinishFill, TypeOK, Placing, Busy, Quiet, world, bronze, silver
<1>4. ASSUME StopFill PROVE TypeOK' /\ Placing' /\ Quiet
  BY <1>0, <1>1, <1>4, FmpAssumption DEF StopFill, TypeOK, Placing, Busy, Quiet, world, bronze, silver
<1> QED
  BY <1>2, <1>3, <1>4

\* The daily transaction keeps the first part.
LEMMA LoadDailyBase ==
    ASSUME Base, LoadDaily
    PROVE  Base'
<1>0. TypeOK /\ Placing /\ Numbers /\ Owned
  BY DEF Base
<1>1. task.at = 6 /\ Publishable /\ task.day \in Days
  BY <1>0 DEF LoadDaily, Placing
<1>2. LET result == DayResult.ids
          m == next + Cardinality(NewKeys(DayRows, ids))
      IN  /\ Apart(history, result) /\ result \subseteq Identifier
          /\ m \in Nat \ {0} /\ \A i \in result : i.asset \in 1 .. m - 1
          /\ \A p : Booked(history, ids, p) => Booked(history, result, p)
          /\ \A q \in DayPrices : /\ q \in Price /\ q.day = task.day
                                  /\ history[q.sec][q.day] # 0 /\ Booked(history, result, q)
          /\ \A q \in DayFacts : q \in Fact /\ Booked(history, result, q) /\ Keyed(history, q)
  BY <1>1, DayPublished
<1>3. /\ history' = history /\ ids' = DayResult.ids
      /\ next' = next + Cardinality(NewKeys(DayRows, ids)) /\ task' = Finished
      /\ fill' = fill
      /\ \A p \in prices' : p \in prices \/ p \in DayPrices
      /\ \A f \in facts' : f \in facts \/ f \in DayFacts
  BY MergeIs DEF LoadDaily, world
<1>4. Numbers'
  BY <1>0, <1>2, <1>3 DEF Numbers
<1>5. Owned'
  BY <1>0, <1>2, <1>3 DEF Owned
<1>6. Placing'
  BY <1>0, <1>3, TaskType DEF Placing, Busy
<1>7. TypeOK'
  <2>1. prices' \subseteq Price /\ facts' \subseteq Fact /\ ids' \subseteq Identifier /\ next' \in Nat
    BY <1>0, <1>2, <1>3 DEF TypeOK
  <2>2. certified' \subseteq Days
    BY <1>0, <1>1 DEF LoadDaily, TypeOK
  <2>3. task' \in [day : Days \cup {0}, at : 0 .. 6, put : BOOLEAN]
    BY <1>3, TaskType
  <2> QED
    BY <1>0, <2>1, <2>2, <2>3 DEF LoadDaily, TypeOK, world, bronze
<1> QED
  BY <1>4, <1>5, <1>6, <1>7 DEF Base

\* A failed backfill is idle.
LEMMA FailedType ==
    ASSUME Base, FillFails
    PROVE  /\ parent' \in [status : {"NONE", "BUILDING", "CERTIFIED", "FAILED"},
                           input : [Days -> SUBSET Feed], done : SUBSET Partition]
           /\ fill' \in [pc : {"idle", "asset", "price"}, asof : Days \cup {0}, days : SUBSET Days]
           /\ fill'.pc = "idle"
<1>0. TypeOK
  BY DEF Base
<1>1. parent' = [parent EXCEPT !.status = "FAILED"] /\ fill' = FillIdle
  BY DEF FillFails
<1>2. FillIdle \in [pc : {"idle", "asset", "price"}, asof : Days \cup {0}, days : SUBSET Days]
      /\ FillIdle.pc = "idle"
  BY DEF FillIdle
<1> QED
  BY <1>0, <1>1, <1>2 DEF TypeOK

\* The asset partition keeps the first part.
LEMMA FillAssetsBase ==
    ASSUME Base, FillAssets
    PROVE  Base'
<1>0. TypeOK /\ Placing /\ Numbers /\ Owned
  BY DEF Base
<1>1. Busy /\ history' = history /\ prices' = prices /\ facts' = facts /\ task' = task
  BY DEF FillAssets, Busy, world
<1>2. CASE PublishAssets(FillRows, ids, next).ok
  <2>1. LET result == PublishAssets(FillRows, ids, next).ids
            m == next + Cardinality(NewKeys(FillRows, ids))
        IN  /\ Apart(history, result) /\ result \subseteq Identifier
            /\ m \in Nat \ {0} /\ \A i \in result : i.asset \in 1 .. m - 1
            /\ \A p : Booked(history, ids, p) => Booked(history, result, p)
    BY <1>1, <1>2, FillPublished
  <2>2. /\ ids' = PublishAssets(FillRows, ids, next).ids
        /\ next' = next + Cardinality(NewKeys(FillRows, ids))
        /\ parent' = [parent EXCEPT !.done = parent.done \cup {0}]
        /\ fill' = [fill EXCEPT !.pc = "price"]
    BY <1>2 DEF FillAssets
  <2>3. Numbers' /\ Owned'
    BY <1>0, <1>1, <2>1, <2>2 DEF Numbers, Owned
  <2>4. Placing'
    BY <1>0, <1>1, <2>2 DEF Placing, Busy, TypeOK
  <2>5. parent' \in [status : {"NONE", "BUILDING", "CERTIFIED", "FAILED"},
                     input : [Days -> SUBSET Feed], done : SUBSET Partition]
    BY <1>0, <2>2 DEF TypeOK, Partition
  <2>6. fill' \in [pc : {"idle", "asset", "price"}, asof : Days \cup {0}, days : SUBSET Days]
    BY <1>0, <2>2 DEF TypeOK
  <2>7. TypeOK'
    BY <1>0, <2>1, <2>2, <2>5, <2>6 DEF FillAssets, TypeOK, world, bronze
  <2> QED
    BY <2>3, <2>4, <2>7 DEF Base
<1>3. CASE ~ PublishAssets(FillRows, ids, next).ok
  <2>1. FillFails /\ ids' = ids /\ next' = next
    BY <1>3 DEF FillAssets
  <2>2. Numbers' /\ Owned'
    BY <1>1, <2>1, QuietStep DEF Quiet
  <2>3. Placing'
    BY <1>0, <1>1, <2>1, FailedType DEF Placing, Busy
  <2>4. TypeOK'
    BY <1>0, <2>1, FailedType DEF FillAssets, TypeOK, world, bronze
  <2> QED
    BY <2>2, <2>3, <2>4 DEF Base
<1> QED
  BY <1>2, <1>3

\* The three ends of a partition.
LEMMA FillPricesCases ==
    ASSUME NEW d \in Days, FillPrices(d)
    PROVE  LET C == PriceCandidates(FillRows, d)
               placed == Placed(C, FillMap)
           IN  /\ Busy
               /\ \/ /\ C = {} /\ parent' = [parent EXCEPT !.done = @ \cup {d}]
                     /\ UNCHANGED <<prices, facts, fill>>
                  \/ /\ {c.key : c \in C} \subseteq DOMAIN FillMap
                     /\ prices' = {p \in prices : ~ \E q \in placed : q.asset = p.asset /\ q.day = p.day}
                                  \cup placed
                     /\ facts' = Merge(facts, Facts(FillEvents(d), FillMap))
                     /\ parent' = [parent EXCEPT !.done = @ \cup {d}] /\ fill' = fill
                  \/ FillFails /\ UNCHANGED <<prices, facts>>
<1> DEFINE C == PriceCandidates(FillRows, d)
           placed == Placed(C, FillMap)
<1>1. Busy
  BY DEF FillPrices, Busy
<1>2. CASE C = {}
  BY <1>1, <1>2 DEF FillPrices
<1>3. CASE C # {} /\ {c.key : c \in C} \subseteq DOMAIN FillMap /\ Distinct(placed)
  BY <1>1, <1>3 DEF FillPrices, FillEvents
<1>4. CASE C # {} /\ ~ ({c.key : c \in C} \subseteq DOMAIN FillMap /\ Distinct(placed))
  BY <1>1, <1>4 DEF FillPrices
<1> QED
  BY <1>2, <1>3, <1>4

\* A price partition keeps the first part.
LEMMA FillPricesBase ==
    ASSUME Base, NEW d \in Days, FillPrices(d)
    PROVE  Base'
<1> DEFINE C == PriceCandidates(FillRows, d)
           placed == Placed(C, FillMap)
           Run == [status : {"NONE", "BUILDING", "CERTIFIED", "FAILED"},
                   input : [Days -> SUBSET Feed], done : SUBSET Partition]
<1>0. TypeOK /\ Placing /\ Numbers /\ Owned
  BY DEF Base
<1>1. history' = history /\ ids' = ids /\ next' = next /\ task' = task
  BY DEF FillPrices, world
<1>2. Busy
  BY FillPricesCases
<1>d. parent' = [parent EXCEPT !.done = @ \cup {d}] => parent' \in Run
  BY <1>0 DEF TypeOK, Partition
<1>3. CASE C = {} /\ parent' = [parent EXCEPT !.done = @ \cup {d}] /\ UNCHANGED <<prices, facts, fill>>
  <2>1. Numbers' /\ Owned'
    BY <1>1, <1>3, QuietStep DEF Quiet
  <2>2. Placing'
    BY <1>0, <1>1, <1>3 DEF Placing, Busy
  <2>3. TypeOK'
    BY <1>0, <1>3, <1>d DEF FillPrices, TypeOK, world, bronze
  <2> QED
    BY <2>1, <2>2, <2>3 DEF Base
<1>4. CASE /\ {c.key : c \in C} \subseteq DOMAIN FillMap
           /\ prices' = {p \in prices : ~ \E q \in placed : q.asset = p.asset /\ q.day = p.day} \cup placed
           /\ facts' = Merge(facts, Facts(FillEvents(d), FillMap))
           /\ parent' = [parent EXCEPT !.done = @ \cup {d}] /\ fill' = fill
  <2>1. /\ \A q \in placed : /\ q \in Price /\ q.day = d /\ history[q.sec][q.day] # 0
                             /\ Booked(history, ids, q)
        /\ \A q \in Facts(FillEvents(d), FillMap) :
               q \in Fact /\ Booked(history, ids, q) /\ Keyed(history, q)
    BY <1>2, <1>4, FillPlaced
  <2>2. \A p \in prices' : p \in prices \/ p \in placed
    BY <1>4
  <2>3. \A f \in facts' : f \in facts \/ f \in Facts(FillEvents(d), FillMap)
    BY <1>4, MergeIs
  <2> HIDE DEF placed, C
  <2>4. Numbers'
    BY <1>0, <1>1, <2>1, <2>2 DEF Numbers
  <2>5. Owned'
    BY <1>0, <1>1, <2>1, <2>2, <2>3 DEF Owned
  <2>6. Placing'
    BY <1>0, <1>1, <1>4 DEF Placing, Busy
  <2>7. prices' \subseteq Price /\ facts' \subseteq Fact
    BY <1>0, <2>1, <2>2, <2>3 DEF TypeOK
  <2>8. TypeOK'
    BY <1>0, <1>4, <1>d, <2>7 DEF FillPrices, TypeOK, world, bronze
  <2> QED
    BY <2>4, <2>5, <2>6, <2>8 DEF Base
<1>5. CASE FillFails /\ UNCHANGED <<prices, facts>>
  <2>1. Numbers' /\ Owned'
    BY <1>1, <1>5, QuietStep DEF Quiet
  <2>2. Placing'
    BY <1>0, <1>1, <1>5, FailedType DEF Placing, Busy
  <2>3. TypeOK'
    BY <1>0, <1>5, FailedType DEF FillPrices, TypeOK, world, bronze
  <2> QED
    BY <2>1, <2>2, <2>3 DEF Base
<1> QED
  BY <1>3, <1>4, <1>5, FillPricesCases

\* The tickers of the latest universe.
Admitted == UNION {DOMAIN Universe(LatestSnapshot)[k] : k \in DOMAIN Universe(LatestSnapshot)}

\* What a repair leaves.
LEMMA RepairIs ==
    ASSUME Base, Repair
    PROVE  /\ ids' = {i \in ids : i.ticker \in Admitted}
           /\ \A p \in prices' : p \in prices
           /\ \A p \in prices : (\E i \in ids' : i.asset = p.asset) <=> p \in prices'
           /\ \A f \in facts' : f \in facts /\ \E i \in ids' : i.asset = f.asset
<1>1. ids' = {i \in ids : i.ticker \in Admitted}
  BY DEF Repair, Admitted
<1>2. prices' = {p \in prices : p.asset \in {i.asset : i \in ids'}}
      /\ facts' = {f \in facts : f.asset \in {i.asset : i \in ids'}}
  BY <1>1 DEF Repair, Admitted
<1> QED
  BY <1>1, <1>2

\* A repair keeps the first part.
LEMMA RepairBase ==
    ASSUME Base, Repair
    PROVE  Base'
<1>0. TypeOK /\ Placing /\ Numbers /\ Owned
  BY DEF Base
<1>1. /\ \A i \in ids' : i \in ids
      /\ \A p \in prices' : p \in prices /\ \E i \in ids' : i.asset = p.asset
      /\ \A f \in facts' : f \in facts /\ \E i \in ids' : i.asset = f.asset
  BY RepairIs
<1>2. history' = history /\ next' = next /\ task' = task /\ fill' = fill
  BY DEF Repair, world
<1>3. ASSUME NEW p, Booked(history, ids, p), \E i \in ids' : i.asset = p.asset
      PROVE  Booked(history, ids', p)
  <2>1. PICK j \in ids : j.asset = p.asset /\ \A s \in Sec : Alone(history, s) =>
                             (p.sec = s <=> j.ticker \in Tick(history, s))
    BY <1>3 DEF Booked
  <2>2. PICK i \in ids' : i.asset = p.asset /\ i \in ids
    BY <1>1, <1>3
  <2>3. \A s \in Sec : Alone(history, s) => (i.ticker \in Tick(history, s) <=> j.ticker \in Tick(history, s))
    BY <1>0, <2>1, <2>2 DEF Owned, Apart
  <2> QED
    BY <2>1, <2>2, <2>3 DEF Booked
<1>4. Numbers'
  BY <1>0, <1>1, <1>2 DEF Numbers
<1>5. Apart(history', ids')
  BY <1>0, <1>1, <1>2 DEF Owned, Apart
<1>6. Owned'
  BY <1>0, <1>1, <1>2, <1>3, <1>5 DEF Owned
<1>7. Placing'
  BY <1>0, <1>2 DEF Placing, Busy
<1>8. ids' \subseteq Identifier /\ prices' \subseteq Price /\ facts' \subseteq Fact
  BY <1>0, <1>1 DEF TypeOK
<1>9. TypeOK'
  BY <1>0, <1>8 DEF Repair, TypeOK, world, bronze
<1> QED
  BY <1>4, <1>6, <1>7, <1>9 DEF Base

\* So every step keeps it.
LEMMA BaseStep ==
    ASSUME Base, [Next]_vars
    PROVE  Base'
<1>q. ASSUME TypeOK', Placing', Quiet PROVE Base'
  BY <1>q, QuietStep DEF Base
<1>1. CASE NextDay \/ \E d \in Days : Arrive(d)
  BY <1>1, <1>q, WorldType
<1>2. CASE StartDaily \/ Reuse \/ Fetch \/ RefuseOrphan
  BY <1>2, <1>q, DailyType
<1>3. CASE Seal \/ LoadFails \/ StopDaily
  BY <1>3, <1>q, DailyType
<1>4. CASE LoadDaily
  BY <1>4, LoadDailyBase
<1>5. CASE (\E resumed \in BOOLEAN : StartFill(resumed)) \/ FinishFill \/ StopFill
  BY <1>5, <1>q, FillType
<1>6. CASE FillAssets
  BY <1>6, FillAssetsBase
<1>7. CASE \E d \in Days : FillPrices(d)
  BY <1>7, FillPricesBase
<1>8. CASE Repair
  BY <1>8, RepairBase
<1>9. CASE UNCHANGED vars
  BY <1>9 DEF vars, world, bronze, silver, Base, TypeOK, Numbers, Owned, Placing, Busy
<1> QED
  BY <1>1, <1>2, <1>3, <1>4, <1>5, <1>6, <1>7, <1>8, <1>9 DEF Next, DailyStep, FillStep

-----------------------------------------------------------------------------
(* The tasks one after the other, and the objects of Bronze in their order. *)

\* When no backfill runs beside the daily task.
Serial ==
    /\ task.at # 0 => task.day = today - 1 /\ today > 1 /\ fill.pc = "idle"
    /\ \A d \in Days : \A f \in Feed : f \in sealed[d] => body[d][f] # "none"
    /\ \A d \in Days : \A f \in Feed : body[d][f] # "none" => d < today
    /\ \A j \in 1 .. 5 : j < task.at => Feeds[j] \in sealed[task.day]
    /\ task.put => task.at \in 1 .. 5 /\ body[task.day][Feeds[task.at]] # "none"
    /\ \A d \in Days : body[d]["eod"] # "none" => "universe" \in sealed[d]
    /\ \A d \in certified : "universe" \in sealed[d]

\* A running backfill works on what is stored, a certified one has done all of it.
Filling ==
    /\ Busy => /\ fill.asof \in Snapshots /\ \A e \in Snapshots : e <= fill.asof
               /\ fill.days = {d \in Days : body[d]["eod"] = "full"}
               /\ parent.status = "BUILDING" /\ parent.input = sealed
    /\ fill.pc = "price" => 0 \in parent.done
    /\ \A d \in Days : parent.input[d] \subseteq sealed[d]
    /\ parent.status = "CERTIFIED" =>
           \A d \in Days : "eod" \in parent.input[d] /\ body[d]["eod"] = "full" => d \in parent.done

\* Both hold at the start.
LEMMA OrderInit == Init => Serial /\ Filling
<1> SUFFICES ASSUME Init PROVE Serial /\ Filling
  OBVIOUS
<1>1. Serial
  BY DEF Init, Serial, Feed
<1>2. Filling
  BY DEF Init, Filling, Busy
<1> QED
  BY <1>1, <1>2

\* The calendar and the provider keep the order of the tasks.
LEMMA SerialWorld ==
    ASSUME Base, Serial
    PROVE  /\ NextDay => Serial'
           /\ \A d \in Days : Arrive(d) => Serial'
<1>0. TypeOK
  BY DEF Base
<1>1. ASSUME NextDay PROVE Serial'
  <2>1. today' = today + 1 /\ UNCHANGED <<body, sealed, certified, task, fill>> /\ task.at = 0
    BY <1>1 DEF NextDay, bronze, silver
  <2>2. today \in Nat /\ \A d \in Days : d \in Nat
    BY <1>0 DEF TypeOK, Days
  <2> QED
    BY <2>1, <2>2 DEF Serial
<1>2. ASSUME NEW d \in Days, Arrive(d) PROVE Serial'
  BY <1>2 DEF Arrive, bronze, silver, Serial
<1> QED
  BY <1>1, <1>2

\* A daily task that ends keeps it.
LEMMA Finishing ==
    ASSUME Base, Serial, task' = Finished,
           UNCHANGED <<today, body, fill>>, sealed' = sealed, certified' = certified
    PROVE  Serial'
<1>1. task'.at = 0 /\ task'.put = FALSE
  BY DEF Finished
<1> QED
  BY <1>1 DEF Serial

\* What a step after the current feed needs.
LEMMA Leaving ==
    ASSUME Base, Serial, task.at \in 1 .. 5, Leave(ThisFeed, task.day),
           UNCHANGED <<today, body, fill>>,
           ThisFeed \in sealed[task.day] \/ task.put,
           \A d \in Days : sealed[d] \subseteq sealed'[d],
           ThisFeed \in sealed'[task.day],
           \A d \in Days : \A f \in Feed :
               f \in sealed'[d] => f \in sealed[d] \/ (d = task.day /\ f = ThisFeed)
    PROVE  Serial'
<1>0. TypeOK /\ task.day \in Days /\ ThisFeed \in Feed
  BY TaskType DEF Base
<1>1. certified' = certified /\ (task' = Finished \/ task' = Advance)
  BY DEF Leave
<1>2. /\ Finished.at = 0 /\ Finished.put = FALSE
      /\ Advance.day = task.day /\ Advance.at = task.at + 1 /\ Advance.put = FALSE
  <2>1. Finished.put = FALSE /\ Finished.at = 0
    BY DEF Finished
  <2>2. Advance = [task EXCEPT !.at = task.at + 1, !.put = FALSE]
    BY DEF Advance
  <2>3. task \in [day : Days \cup {0}, at : 0 .. 6, put : BOOLEAN]
    BY <1>0 DEF TypeOK
  <2>4. Advance.put = FALSE
    BY <2>2, <2>3
  <2> QED
    BY <2>1, <2>4, TaskType
<1>3. \A d \in Days : \A f \in Feed : f \in sealed'[d] => body'[d][f] # "none"
  <2>1. body[task.day][ThisFeed] # "none"
    BY <1>0 DEF Serial, ThisFeed
  <2> QED
    BY <2>1 DEF Serial
<1>4. \A j \in 1 .. 5 : j < task'.at => Feeds[j] \in sealed'[task'.day]
  <2>1. CASE task' = Finished
    BY <1>2, <2>1
  <2>2. CASE task' = Advance
    <3>1. ASSUME NEW j \in 1 .. 5, j < task.at + 1 PROVE Feeds[j] \in sealed'[task.day]
      <4>1. CASE j < task.at
        BY <1>0, <4>1 DEF Serial
      <4>2. CASE j = task.at
        BY <4>2 DEF ThisFeed
      <4> QED
        BY <3>1, <4>1, <4>2
    <3> QED
      BY <1>2, <2>2, <3>1
  <2> QED
    BY <1>1, <2>1, <2>2
<1>5. task'.at # 0 => task'.day = today' - 1 /\ today' > 1 /\ fill'.pc = "idle"
  BY <1>1, <1>2 DEF Serial
<1>6. ~ task'.put
  BY <1>1, <1>2
<1>7. \A d \in certified : d \in Days
  BY <1>0 DEF TypeOK
<1> QED
  BY <1>1, <1>3, <1>4, <1>5, <1>6, <1>7 DEF Serial

\* The daily task keeps the order.
LEMMA SerialDaily ==
    ASSUME Base, Serial, ~ Beside
    PROVE  /\ StartDaily => Serial'
           /\ Reuse => Serial'
           /\ Fetch => Serial'
           /\ RefuseOrphan => Serial'
           /\ Seal => Serial'
           /\ LoadDaily => Serial'
           /\ LoadFails => Serial'
           /\ StopDaily => Serial'
<1>0. TypeOK
  BY DEF Base
<1>1. ASSUME StartDaily PROVE Serial'
  <2>1. /\ task' = [day |-> today - 1, at |-> 1, put |-> FALSE] /\ today > 1 /\ fill.pc = "idle"
        /\ UNCHANGED <<today, body, sealed, certified, fill>>
    BY <1>1 DEF StartDaily, Busy, world, bronze, silver
  <2>2. task'.day = today - 1 /\ task'.at = 1 /\ task'.put = FALSE
    BY <2>1
  <2> QED
    BY <2>1, <2>2 DEF Serial
<1>2. ASSUME Reuse PROVE Serial'
  <2>1. /\ task.at \in 1 .. 5 /\ Leave(ThisFeed, task.day) /\ ThisFeed \in sealed[task.day]
        /\ UNCHANGED <<today, body, fill, sealed>>
    BY <1>2 DEF Reuse, world, bronze
  <2> QED
    BY <2>1, Leaving
<1>3. ASSUME Fetch PROVE Serial'
  <2>1. /\ task.at \in 1 .. 5 /\ ThisFeed \in Feed /\ task.day \in Days
        /\ UNCHANGED <<today, sealed, certified, fill>>
        /\ task' = [task EXCEPT !.put = TRUE]
    BY <1>3, TaskType DEF Fetch, world, silver
  <2>2. task'.at = task.at /\ task'.day = task.day /\ ThisFeed = Feeds[task.at]
    BY <1>0, <2>1 DEF TypeOK, ThisFeed
  <2>3. body[task.day] \in [Feed -> {"none", "empty", "full"}]
    BY <1>0, <2>1 DEF TypeOK
  <2>4. PICK v \in {"empty", "full"} : body' = [body EXCEPT ![task.day][ThisFeed] = v]
    BY <1>3 DEF Fetch
  <2>5. \A d \in Days : \A f \in Feed :
            body'[d][f] = IF d = task.day /\ f = ThisFeed THEN v ELSE body[d][f]
    BY <1>0, <2>1, <2>3, <2>4 DEF TypeOK
  <2>6. \A d \in Days : \A f \in Feed : body'[d][f] # "none" => d < today
    BY <1>0, <2>1, <2>5 DEF Serial, TypeOK, Days
  <2>7. "eod" \in Feed /\ \A d \in Days : body'[d]["eod"] # "none" => "universe" \in sealed[d]
    <3> SUFFICES ASSUME NEW d \in Days, body'[d]["eod"] # "none" PROVE "universe" \in sealed[d]
      BY DEF Feed
    <3>1. CASE d = task.day /\ ThisFeed = "eod"
      <4>1. task.at = 5
        BY <2>1, <3>1 DEF ThisFeed, Feeds
      <4>2. Feeds[4] \in sealed[task.day]
        BY <4>1 DEF Serial
      <4> QED
        BY <3>1, <4>2 DEF Feeds
    <3>2. CASE ~(d = task.day /\ ThisFeed = "eod")
      BY <2>5, <3>2 DEF Serial, Feed
    <3> QED
      BY <3>1, <3>2
  <2>8. body'[task.day][Feeds[task.at]] # "none"
    BY <2>1, <2>2, <2>5
  <2>9. \A d \in Days : \A f \in Feed : f \in sealed[d] => body'[d][f] # "none"
    BY <2>5 DEF Serial
  <2> QED
    BY <2>1, <2>2, <2>6, <2>7, <2>8, <2>9 DEF Serial
<1>4. ASSUME RefuseOrphan PROVE Serial'
  BY <1>4, Finishing DEF RefuseOrphan, world, bronze, silver
<1>5. ASSUME Seal PROVE Serial'
  <2>1. /\ task.at \in 1 .. 5 /\ Leave(ThisFeed, task.day) /\ task.put
        /\ UNCHANGED <<today, body, fill>> /\ task.day \in Days
        /\ sealed' = [sealed EXCEPT ![task.day] = @ \cup {ThisFeed}]
    BY <1>5, TaskType DEF Seal, world
  <2>2. /\ \A d \in Days : sealed[d] \subseteq sealed'[d]
        /\ ThisFeed \in sealed'[task.day]
        /\ \A d \in Days : \A f \in Feed :
               f \in sealed'[d] => f \in sealed[d] \/ (d = task.day /\ f = ThisFeed)
    BY <1>0, <2>1 DEF TypeOK
  <2> QED
    BY <2>1, <2>2, Leaving
<1>6. ASSUME LoadDaily PROVE Serial'
  <2>1. /\ task.at = 6 /\ task' = Finished /\ certified' = certified \cup {task.day}
        /\ UNCHANGED <<today, body, sealed, fill>>
    BY <1>6 DEF LoadDaily, world, bronze
  <2>2. "universe" \in sealed[task.day]
    BY <2>1 DEF Serial, Feeds
  <2>3. task'.at = 0 /\ task'.put = FALSE
    BY <2>1 DEF Finished
  <2> QED
    BY <2>1, <2>2, <2>3 DEF Serial
<1>7. ASSUME LoadFails PROVE Serial'
  BY <1>7, Finishing DEF LoadFails, world, bronze, silver
<1>8. ASSUME StopDaily PROVE Serial'
  BY <1>8, Finishing DEF StopDaily, world, bronze, silver
<1> QED
  BY <1>1, <1>2, <1>3, <1>4, <1>5, <1>6, <1>7, <1>8

\* The backfill and the repair keep it.
LEMMA SerialFill ==
    ASSUME Base, Serial, ~ Beside
    PROVE  /\ \A resumed \in BOOLEAN : StartFill(resumed) => Serial'
           /\ FillAssets => Serial'
           /\ \A d \in Days : FillPrices(d) => Serial'
           /\ FinishFill => Serial'
           /\ StopFill => Serial'
           /\ Repair => Serial'
<1>q. ASSUME UNCHANGED <<today, body, sealed, certified, task>>, task.at = 0 PROVE Serial'
  BY <1>q DEF Serial
<1>1. ASSUME NEW resumed \in BOOLEAN, StartFill(resumed) PROVE Serial'
  BY <1>1, <1>q DEF StartFill, world, bronze, silver
<1>2. ASSUME FillAssets PROVE Serial'
  BY <1>2, <1>q DEF FillAssets, Serial, world, bronze
<1>3. ASSUME NEW d \in Days, FillPrices(d) PROVE Serial'
  BY <1>3, <1>q DEF FillPrices, Serial, world, bronze
<1>4. ASSUME FinishFill PROVE Serial'
  BY <1>4, <1>q DEF FinishFill, Serial, world, bronze, silver
<1>5. ASSUME StopFill PROVE Serial'
  BY <1>5, <1>q DEF StopFill, Busy, Serial, world, bronze, silver
<1>6. ASSUME Repair PROVE Serial'
  BY <1>6, <1>q DEF Repair, world, bronze
<1> QED
  BY <1>1, <1>2, <1>3, <1>4, <1>5, <1>6

-----------------------------------------------------------------------------
\* No backfill is busy while the daily task is.
LEMMA FillingIdle ==
    ASSUME Filling, ~ Busy, fill' = fill, parent' = parent,
           \A d \in Days : sealed[d] \subseteq sealed'[d],
           \A d \in Days : "eod" \in parent.input[d] => body'[d]["eod"] = body[d]["eod"]
    PROVE  Filling'
<1>1. fill'.pc = "idle"
  BY DEF Busy
<1> QED
  BY <1>1 DEF Filling, Busy

\* All but the backfill leave a backfill as it is.
LEMMA FillingDaily ==
    ASSUME Base, Serial, Filling, ~ Beside
    PROVE  /\ NextDay => Filling'
           /\ \A d \in Days : Arrive(d) => Filling'
           /\ StartDaily => Filling'
           /\ Reuse => Filling'
           /\ Fetch => Filling'
           /\ RefuseOrphan => Filling'
           /\ Seal => Filling'
           /\ LoadDaily => Filling'
           /\ LoadFails => Filling'
           /\ StopDaily => Filling'
           /\ Repair => Filling'
<1>0. TypeOK
  BY DEF Base
<1>q. ASSUME UNCHANGED <<body, sealed, fill, parent>> PROVE Filling'
  BY <1>q DEF Filling, Busy, Snapshots
<1>1. NextDay => Filling'
  BY <1>q DEF NextDay, bronze
<1>2. \A d \in Days : Arrive(d) => Filling'
  BY <1>q DEF Arrive, bronze
<1>3. StartDaily \/ Reuse \/ RefuseOrphan => Filling'
  BY <1>q DEF StartDaily, Reuse, RefuseOrphan, bronze
<1>4. LoadDaily \/ LoadFails \/ StopDaily \/ Repair => Filling'
  BY <1>q DEF LoadDaily, LoadFails, StopDaily, Repair, bronze
<1>5. ASSUME Fetch PROVE Filling'
  <2>1. /\ task.at \in 1 .. 5 /\ ThisFeed \in Feed /\ task.day \in Days /\ ThisFeed \notin sealed[task.day]
        /\ UNCHANGED <<sealed, fill, parent>>
    BY <1>5, TaskType DEF Fetch
  <2>2. ~ Busy
    BY <2>1 DEF Serial, Busy
  <2>3. body[task.day] \in [Feed -> {"none", "empty", "full"}]
    BY <1>0, <2>1 DEF TypeOK
  <2>4. \E v \in {"empty", "full"} : body' = [body EXCEPT ![task.day][ThisFeed] = v]
    BY <1>5 DEF Fetch
  <2>5. \A d \in Days : "eod" \in parent.input[d] => body'[d]["eod"] = body[d]["eod"]
    BY <1>0, <2>1, <2>3, <2>4 DEF TypeOK, Filling, Feed
  <2> QED
    BY <2>1, <2>2, <2>5, FillingIdle
<1>6. ASSUME Seal PROVE Filling'
  <2>1. /\ task.at \in 1 .. 5 /\ task.day \in Days
        /\ UNCHANGED <<body, fill, parent>>
        /\ sealed' = [sealed EXCEPT ![task.day] = @ \cup {ThisFeed}]
    BY <1>6, TaskType DEF Seal
  <2>2. ~ Busy
    BY <2>1 DEF Serial, Busy
  <2>3. \A d \in Days : sealed[d] \subseteq sealed'[d]
    BY <1>0, <2>1 DEF TypeOK
  <2> QED
    BY <2>1, <2>2, <2>3, FillingIdle
<1> QED
  BY <1>1, <1>2, <1>3, <1>4, <1>5, <1>6

\* And the backfill keeps to what is stored.
LEMMA FillingFill ==
    ASSUME Base, Serial, Filling, ~ Beside
    PROVE  /\ \A resumed \in BOOLEAN : StartFill(resumed) => Filling'
           /\ FillAssets => Filling'
           /\ \A d \in Days : FillPrices(d) => Filling'
           /\ FinishFill => Filling'
           /\ StopFill => Filling'
<1>0. TypeOK
  BY DEF Base
<1> DEFINE Run == [status : {"NONE", "BUILDING", "CERTIFIED", "FAILED"},
                   input : [Days -> SUBSET Feed], done : SUBSET Partition]
<1>t. parent \in Run /\ fill \in [pc : {"idle", "asset", "price"}, asof : Days \cup {0}, days : SUBSET Days]
  BY <1>0 DEF TypeOK
<1>1. ASSUME NEW resumed \in BOOLEAN, StartFill(resumed) PROVE Filling'
  <2>1. LatestSnapshot \in Snapshots /\ \A e \in Snapshots : e <= LatestSnapshot
    BY <1>0, <1>1, LatestIs DEF StartFill
  <2>2. /\ UNCHANGED <<body, sealed>> /\ Snapshots' = Snapshots
        /\ fill' = [pc |-> IF resumed /\ 0 \in parent.done THEN "price" ELSE "asset",
                    asof |-> LatestSnapshot, days |-> {d \in Days : body[d]["eod"] = "full"}]
    BY <1>1 DEF StartFill, bronze, Snapshots
  <2>3. /\ parent'.status = "BUILDING" /\ parent'.input = sealed
        /\ resumed => parent'.done = parent.done
    BY <1>1, <1>t DEF StartFill
  <2>4. /\ fill'.asof = LatestSnapshot /\ fill'.days = {d \in Days : body[d]["eod"] = "full"}
        /\ fill'.pc = "price" => resumed /\ 0 \in parent.done
    BY <2>2
  <2> QED
    BY <2>1, <2>2, <2>3, <2>4 DEF Filling
<1>f. ASSUME FillFails, UNCHANGED <<body, sealed>> PROVE Filling'
  <2>1. parent' = [parent EXCEPT !.status = "FAILED"] /\ fill'.pc = "idle"
    BY <1>f DEF FillFails, FillIdle
  <2>2. parent'.status = "FAILED" /\ parent'.input = parent.input
    BY <1>t, <2>1
  <2> QED
    BY <1>f, <2>1, <2>2 DEF Filling, Busy
\* A certified partition of a run that goes on.
<1>d. ASSUME Busy, NEW x, parent' = [parent EXCEPT !.done = @ \cup {x}],
             UNCHANGED <<body, sealed>>,
             fill'.asof = fill.asof, fill'.days = fill.days, fill'.pc = "price" => 0 \in parent'.done
      PROVE  Filling'
  <2>1. parent'.status = parent.status /\ parent'.input = parent.input
    BY <1>d, <1>t
  <2>2. Snapshots' = Snapshots
    BY <1>d DEF Snapshots
  <2>3. parent'.status # "CERTIFIED"
    BY <1>d, <2>1 DEF Filling
  <2> QED
    BY <1>d, <2>1, <2>2, <2>3 DEF Filling
<1>2. ASSUME FillAssets PROVE Filling'
  <2>1. UNCHANGED <<body, sealed>> /\ Busy
    BY <1>2 DEF FillAssets, bronze, Busy
  <2>2. CASE PublishAssets(FillRows, ids, next).ok
    <3>1. parent' = [parent EXCEPT !.done = @ \cup {0}] /\ fill' = [fill EXCEPT !.pc = "price"]
      BY <1>2, <2>2 DEF FillAssets
    <3>2. 0 \in parent'.done /\ fill'.asof = fill.asof /\ fill'.days = fill.days
      BY <1>t, <3>1
    <3> QED
      BY <1>d, <2>1, <3>1, <3>2
  <2>3. CASE ~ PublishAssets(FillRows, ids, next).ok
    BY <1>2, <1>f, <2>1, <2>3 DEF FillAssets
  <2> QED
    BY <2>2, <2>3
<1>3. ASSUME NEW d \in Days, FillPrices(d) PROVE Filling'
  <2>1. UNCHANGED <<body, sealed>> /\ Busy /\ fill.pc = "price"
    BY <1>3 DEF FillPrices, bronze, Busy
  <2>2. (parent' = [parent EXCEPT !.done = @ \cup {d}] /\ fill' = fill) \/ FillFails
    BY <1>3, FillPricesCases
  <2>3. CASE parent' = [parent EXCEPT !.done = @ \cup {d}] /\ fill' = fill
    <3>1. 0 \in parent'.done
      BY <1>t, <2>1, <2>3 DEF Filling
    <3> QED
      BY <1>d, <2>1, <2>3, <3>1
  <2> QED
    BY <1>f, <2>1, <2>2, <2>3
<1>4. ASSUME FinishFill PROVE Filling'
  <2>1. /\ fill.pc = "price" /\ Busy /\ Remaining = {} /\ UNCHANGED <<body, sealed>>
        /\ parent' = [parent EXCEPT !.status = "CERTIFIED"] /\ fill'.pc = "idle"
    BY <1>4 DEF FinishFill, bronze, Busy, FillIdle
  <2>2. parent'.input = parent.input /\ parent'.done = parent.done
    BY <1>t, <2>1
  <2>3. \A d \in Days : body[d]["eod"] = "full" => d \in parent.done
    BY <2>1 DEF Filling, Remaining
  <2> QED
    BY <2>1, <2>2, <2>3 DEF Filling, Busy
<1>5. ASSUME StopFill PROVE Filling'
  <2>1. fill'.pc = "idle" /\ UNCHANGED <<body, sealed, parent>>
    BY <1>5 DEF StopFill, FillIdle, bronze
  <2> QED
    BY <2>1 DEF Filling, Busy
<1> QED
  BY <1>1, <1>2, <1>3, <1>4, <1>5

-----------------------------------------------------------------------------
\* What Silver was last published as of.
Level(D) ==
    /\ D = 0 \/ D \in Snapshots
    /\ \A d \in certified : d <= D
    /\ \A s \in Sec : Alone(history, s) /\ Kept(history, s, certified, today) =>
           Shape(history, ids, s, D)
    /\ \A p \in prices : p.day <= D
    /\ 0 \in parent.done => \A d \in Days : "universe" \in parent.input[d] => d <= D

\* A day has the price of every security renamed once at most.
PricedOn(h, S, d) ==
    \A s \in Sec : h[s][d] # 0 /\ Lone(h, s) => \E p \in S : p.day = d /\ p.sec = s
\* Certified days and partitions have their prices.
Priced == \A d \in certified \cup (parent.done \cap Days) : PricedOn(history, prices, d)

\* The part of the invariant that needs the tasks one after the other.
Scheduled == Serial /\ Filling /\ Priced /\ \E D \in 0 .. NumDays : Level(D)

\* Nothing is published at the start.
LEMMA LevelInit == Init => Priced /\ Level(0)
<1> SUFFICES ASSUME Init PROVE Priced /\ Level(0)
  OBVIOUS
<1>1. Priced
  BY DEF Init, Priced
<1>2. ASSUME NEW s \in Sec PROVE Shape(history, ids, s, 0)
  BY DEF Init, Shape
<1>3. Level(0)
  BY <1>2 DEF Init, Level
<1> QED
  BY <1>1, <1>3

\* A publication as of d, before today, does not skip a rename of a security.
LEMMA KeptMoves ==
    ASSUME Base, NEW D \in 0 .. NumDays, Level(D), NEW s \in Sec,
           Kept(history, s, certified, today), NEW d \in Days, d < today
    PROVE  OneMove(history, s, D, d)
<1> SUFFICES ASSUME NEW e \in Moves(history, s), NEW f \in Moves(history, s), D < e, e < f, f <= d
             PROVE  FALSE
  BY DEF OneMove
<1>1. f < today /\ e \in Nat /\ f \in Nat /\ D \in Nat
  BY DEF Base, TypeOK, Days, Moves
<1>2. PICK c \in certified : e <= c /\ c < f
  BY <1>1 DEF Kept
<1>3. c <= D /\ c \in Nat
  BY DEF Base, TypeOK, Level, Days
<1> QED
  BY <1>1, <1>2, <1>3

\* A security renamed once at most needs no certified day.
LEMMA LoneKept ==
    ASSUME NEW h, NEW s, Lone(h, s), NEW cert, NEW now
    PROVE  Alone(h, s) /\ Kept(h, s, cert, now)
<1>1. \A d, e \in Moves(h, s) : d = e
  BY DEF Lone
<1>2. \A d \in Moves(h, s) : d \in Int
  BY DEF Moves
<1> QED
  BY <1>1, <1>2 DEF Lone, Kept

\* A snapshot is of a day before today, and a certified day has one.
LEMMA SnapshotsAre ==
    ASSUME Base, Serial
    PROVE  /\ \A d \in Snapshots : d \in Days /\ d < today
           /\ \A d \in Days : "universe" \in sealed[d] => d \in Snapshots
           /\ \A d \in Days : body[d]["eod"] = "full" => "universe" \in sealed[d]
           /\ \A d \in certified : d \in Snapshots
BY DEF Base, TypeOK, Serial, Snapshots, Feed

-----------------------------------------------------------------------------
\* The steps that publish nothing.
LEMMA LevelQuiet ==
    ASSUME Base, Priced, NEW D \in 0 .. NumDays, Level(D),
           UNCHANGED <<history, ids, prices, certified>>, today <= today', today' \in Nat,
           Snapshots \subseteq Snapshots',
           (parent'.input = parent.input /\ parent'.done = parent.done) \/ parent'.done = {}
    PROVE  Level(D)' /\ Priced'
<1>1. ASSUME NEW s \in Sec, Kept(history, s, certified, today')
      PROVE  Kept(history, s, certified, today)
  <2>1. \A e \in Moves(history, s) : e < today => e < today'
    BY DEF Base, TypeOK, Moves, Days
  <2> QED
    BY <1>1, <2>1 DEF Kept
<1>2. Level(D)'
  BY <1>1 DEF Level
<1>3. Priced'
  BY DEF Priced
<1> QED
  BY <1>2, <1>3

\* What was published stays as it is.
LEMMA LevelWorld ==
    ASSUME Base, Priced, NEW D \in 0 .. NumDays, Level(D)
    PROVE  /\ NextDay => Level(D)' /\ Priced'
           /\ \A d \in Days : Arrive(d) => Level(D)' /\ Priced'
           /\ StartDaily => Level(D)' /\ Priced'
           /\ Reuse => Level(D)' /\ Priced'
           /\ Fetch => Level(D)' /\ Priced'
           /\ RefuseOrphan => Level(D)' /\ Priced'
           /\ Seal => Level(D)' /\ Priced'
           /\ LoadFails => Level(D)' /\ Priced'
           /\ StopDaily => Level(D)' /\ Priced'
           /\ \A resumed \in BOOLEAN : StartFill(resumed) => Level(D)' /\ Priced'
           /\ FinishFill => Level(D)' /\ Priced'
           /\ StopFill => Level(D)' /\ Priced'
           /\ FillFails /\ UNCHANGED <<world, bronze, ids, prices, certified>> => Level(D)' /\ Priced'
<1>t. TypeOK /\ today \in Nat /\ today + 1 \in Nat /\ today <= today + 1
  BY DEF Base, TypeOK
<1>p. parent \in [status : {"NONE", "BUILDING", "CERTIFIED", "FAILED"},
                  input : [Days -> SUBSET Feed], done : SUBSET Partition]
  BY <1>t DEF TypeOK
<1>q. ASSUME UNCHANGED <<history, ids, prices, certified, body>>, today' = today \/ today' = today + 1,
             (parent'.input = parent.input /\ parent'.done = parent.done) \/ parent'.done = {}
      PROVE  Level(D)' /\ Priced'
  <2>1. Snapshots' = Snapshots
    BY <1>q DEF Snapshots
  <2> QED
    BY <1>q, <1>t, <2>1, LevelQuiet
<1>1. NextDay => Level(D)' /\ Priced'
  BY <1>q DEF NextDay, bronze, silver
<1>2. \A d \in Days : Arrive(d) => Level(D)' /\ Priced'
  BY <1>q DEF Arrive, bronze, silver
<1>3. StartDaily \/ RefuseOrphan \/ LoadFails \/ StopDaily => Level(D)' /\ Priced'
  BY <1>q DEF StartDaily, RefuseOrphan, LoadFails, StopDaily, world, bronze, silver
<1>4. Reuse \/ Seal => Level(D)' /\ Priced'
  BY <1>q DEF Reuse, Seal, Leave, world, bronze
<1>5. ASSUME Fetch PROVE Level(D)' /\ Priced'
  <2>1. task.at \in 1 .. 5 /\ ThisFeed \in Feed /\ task.day \in Days
        /\ UNCHANGED <<history, today, ids, prices, certified, parent>>
    BY <1>5, TaskType DEF Fetch, world, silver
  <2>2. body[task.day] \in [Feed -> {"none", "empty", "full"}]
    BY <1>t, <2>1 DEF TypeOK
  <2>3. \E v \in {"empty", "full"} : body' = [body EXCEPT ![task.day][ThisFeed] = v]
    BY <1>5 DEF Fetch
  <2>4. Snapshots \subseteq Snapshots'
    BY <1>t, <2>1, <2>2, <2>3 DEF TypeOK, Snapshots, Feed
  <2> QED
    BY <1>t, <2>1, <2>4, LevelQuiet
<1>6. ASSUME NEW resumed \in BOOLEAN, StartFill(resumed) PROVE Level(D)' /\ Priced'
  <2>1. (parent'.input = parent.input /\ parent'.done = parent.done) \/ parent'.done = {}
    BY <1>6, <1>p DEF StartFill
  <2> QED
    BY <1>6, <1>q, <2>1 DEF StartFill, world, bronze, silver
<1>7. ASSUME FinishFill PROVE Level(D)' /\ Priced'
  <2>1. parent'.input = parent.input /\ parent'.done = parent.done
    BY <1>7, <1>p DEF FinishFill
  <2> QED
    BY <1>7, <1>q, <2>1 DEF FinishFill, world, bronze, silver
<1>8. StopFill => Level(D)' /\ Priced'
  BY <1>q DEF StopFill, world, bronze, silver
<1>9. ASSUME FillFails, UNCHANGED <<world, bronze, ids, prices, certified>> PROVE Level(D)' /\ Priced'
  <2>1. parent'.input = parent.input /\ parent'.done = parent.done
    BY <1>9, <1>p DEF FillFails
  <2> QED
    BY <1>9, <1>q, <2>1 DEF world, bronze
<1> QED
  BY <1>1, <1>2, <1>3, <1>4, <1>5, <1>6, <1>7, <1>8, <1>9

\* A publication as of a day no earlier than the last one keeps the shape.
LEMMA ShapesPublished ==
    ASSUME Base, NEW D \in 0 .. NumDays, Level(D), NEW d \in Days, D <= d, d < today,
           PublishAssets(Universe(d), ids, next).ok
    PROVE  \A s \in Sec : Alone(history, s) /\ Kept(history, s, certified, today) =>
               Shape(history, PublishAssets(Universe(d), ids, next).ids, s, d)
<1> SUFFICES ASSUME NEW s \in Sec, Alone(history, s), Kept(history, s, certified, today)
             PROVE  Shape(history, PublishAssets(Universe(d), ids, next).ids, s, d)
  OBVIOUS
<1>1. OneMove(history, s, D, d)
  BY KeptMoves
<1>2. Shape(history, ids, s, D)
  BY DEF Level
<1>3. history \in Histories /\ ids \subseteq Identifier /\ next \in Nat /\ \A i \in ids : i.asset # 0
  BY DEF Base, TypeOK, Numbers
<1> QED
  BY <1>1, <1>2, <1>3, PublishShape

\* The daily transaction publishes as of its day.
LEMMA LoadDailyLevel ==
    ASSUME Base, Serial, Filling, Priced, NEW D \in 0 .. NumDays, Level(D), LoadDaily
    PROVE  Priced' /\ \E E \in 0 .. NumDays : Level(E)'
<1>0. TypeOK
  BY DEF Base
<1>d. task.day \in Days
  BY DEF LoadDaily, Base, Placing
<1> PICK d \in Days : d = task.day
  BY <1>d
<1>1. /\ task.at = 6 /\ Publishable /\ d \in Days /\ d = today - 1
      /\ history' = history /\ today' = today /\ body' = body /\ parent' = parent
      /\ ids' = PublishAssets(Universe(d), ids, next).ids
      /\ PublishAssets(Universe(d), ids, next).ok
      /\ prices' = {p \in prices : p.day # d} \cup DayPrices
      /\ certified' = certified \cup {d}
  BY DEF LoadDaily, Serial, Base, Placing, world, bronze, Publishable, DayResult, DayRows
<1>2. "universe" \in sealed[d] /\ d \in Snapshots
  BY <1>1, SnapshotsAre DEF Serial, Feeds
<1>3. \A e \in Snapshots : e \in Days /\ e <= d
  BY <1>0, <1>1, SnapshotsAre DEF TypeOK, Days
<1>4. D <= d /\ d < today /\ D \in Nat /\ d \in Nat
  BY <1>0, <1>1, <1>3 DEF Level, Days, TypeOK
<1>5. \A s \in Sec : Alone(history, s) /\ Kept(history, s, certified, today) =>
          Shape(history, ids', s, d)
  BY <1>1, <1>4, ShapesPublished
<1>6. ASSUME NEW s \in Sec, Kept(history, s, certified', today) PROVE Kept(history, s, certified, today)
  <2> SUFFICES ASSUME NEW e \in Moves(history, s), NEW f \in Moves(history, s), e < f, f < today
               PROVE  \E c \in certified : e <= c /\ c < f
    BY DEF Kept
  <2>1. PICK c \in certified' : e <= c /\ c < f
    BY <1>6 DEF Kept
  <2>2. c # d
    BY <1>0, <1>1, <2>1 DEF Moves, TypeOK
  <2> QED
    BY <1>1, <2>1, <2>2
<1>7. \A q \in DayPrices : q.day = d
  BY <1>1, DayPublished
<1>8. Level(d)'
  <2>3. Snapshots' = Snapshots
    BY <1>1 DEF Snapshots
  <2>4. \A e \in certified' : e <= d
    BY <1>1, <1>3, <1>4, SnapshotsAre
  <2>5. \A p \in prices' : p.day <= d
    BY <1>0, <1>1, <1>4, <1>7 DEF Level, TypeOK, Price, Days
  <2>6. \A e \in Days : "universe" \in parent'.input[e] => e <= d
    BY <1>1, <1>3, SnapshotsAre DEF Filling
  <2> QED
    BY <1>1, <1>2, <1>5, <1>6, <2>3, <2>4, <2>5, <2>6 DEF Level
<1>9. PricedOn(history, prices', d)
  <2> SUFFICES ASSUME NEW s \in Sec, history[s][d] # 0, Lone(history, s)
               PROVE  \E p \in prices' : p.day = d /\ p.sec = s
    BY DEF PricedOn
  <2>1. DayCandidates = PriceCandidates(Universe(d), d)
    BY <1>1 DEF Publishable, DayCandidates, DayRows
  <2>2. d \in 1 .. d
    BY <1>1, <1>4 DEF Days
  <2>3. PICK c \in DayCandidates : c.sec = s /\ c.day = d
    BY <1>0, <1>1, <2>1, <2>2, LonePriced DEF TypeOK
  <2>4. [asset |-> NaturalToId(DayRows, ids, next)[c.key], day |-> c.day, sec |-> c.sec] \in DayPrices
    BY DEF DayPrices, Placed
  <2> QED
    BY <1>1, <2>3, <2>4
<1>10. \A e : e # d /\ PricedOn(history, prices, e) => PricedOn(history, prices', e)
  BY <1>1 DEF PricedOn
<1>11. Priced'
  BY <1>1, <1>9, <1>10 DEF Priced
<1>12. d \in 0 .. NumDays
  BY <1>1, FmpAssumption DEF Days
<1> QED
  BY <1>8, <1>11, <1>12

\* The asset partition publishes as of the latest snapshot.
LEMMA FillAssetsLevel ==
    ASSUME Base, Serial, Filling, Priced, NEW D \in 0 .. NumDays, Level(D), FillAssets
    PROVE  Priced' /\ \E E \in 0 .. NumDays : Level(E)'
<1>0. TypeOK /\ Busy /\ UNCHANGED <<history, today, body, sealed, prices, certified>>
  BY DEF Base, FillAssets, Busy, world, bronze
<1>1. CASE ~ PublishAssets(FillRows, ids, next).ok
  BY <1>0, <1>1, LevelWorld DEF FillAssets
<1>2. CASE PublishAssets(FillRows, ids, next).ok
  <2>1. fill.asof \in Days /\ fill.asof \in Snapshots /\ \A e \in Snapshots : e <= fill.asof
    BY <1>0, SnapshotsAre DEF Filling
  <2> PICK d \in Days : d = fill.asof
    BY <2>1
  <2>2. d \in Snapshots /\ (\A e \in Snapshots : e <= d) /\ d \in 0 .. NumDays /\ d \in Nat /\ d < today
    BY <2>1, SnapshotsAre, FmpAssumption DEF Days
  <2>3. D <= d /\ D \in Nat
    BY <2>2 DEF Level
  <2>4. /\ ids' = PublishAssets(Universe(d), ids, next).ids
        /\ PublishAssets(Universe(d), ids, next).ok
        /\ parent' = [parent EXCEPT !.done = @ \cup {0}]
    BY <1>2 DEF FillAssets, FillRows
  <2>5. parent'.input = parent.input /\ parent'.done \cap Days = parent.done \cap Days
    BY <1>0, <2>4 DEF TypeOK, Days
  <2>6. \A s \in Sec : Alone(history, s) /\ Kept(history, s, certified, today) => Shape(history, ids', s, d)
    BY <2>2, <2>3, <2>4, ShapesPublished
  <2>7. Snapshots' = Snapshots
    BY <1>0 DEF Snapshots
  <2>8. \A e \in certified : e <= d
    BY <2>2, SnapshotsAre
  <2>9. \A p \in prices : p.day <= d
    BY <1>0, <2>2, <2>3 DEF Level, TypeOK, Price, Days
  <2>10. \A e \in Days : "universe" \in parent.input[e] => e <= d
    BY <2>2, SnapshotsAre DEF Filling
  <2>11. Level(d)'
    BY <1>0, <2>2, <2>5, <2>6, <2>7, <2>8, <2>9, <2>10 DEF Level
  <2>12. Priced'
    BY <1>0, <2>5 DEF Priced
  <2> QED
    BY <2>2, <2>11, <2>12
<1> QED
  BY <1>1, <1>2

\* A price partition gives its day the prices.
LEMMA FillPricesLevel ==
    ASSUME Base, Serial, Filling, Priced, NEW D \in 0 .. NumDays, Level(D),
           NEW d \in Days, FillPrices(d)
    PROVE  Priced' /\ Level(D)'
<1> DEFINE C == PriceCandidates(FillRows, d)
           placed == Placed(C, FillMap)
<1>0. /\ TypeOK /\ Busy /\ fill.pc = "price" /\ d \in fill.days
      /\ UNCHANGED <<history, today, body, sealed, ids, certified>>
  BY DEF Base, FillPrices, Busy, world, bronze, Remaining
<1>1. /\ fill.asof \in Days /\ "universe" \in sealed[d] /\ d <= fill.asof /\ d <= D
      /\ history \in Histories
  <2>1. body[d]["eod"] = "full" /\ parent.input = sealed /\ 0 \in parent.done
    BY <1>0 DEF Filling
  <2>2. "universe" \in sealed[d]
    BY <2>1, SnapshotsAre
  <2>3. d \in Snapshots
    BY <2>2, SnapshotsAre
  <2>4. d <= fill.asof /\ fill.asof \in Days
    BY <1>0, <2>3, SnapshotsAre DEF Filling
  <2> QED
    BY <1>0, <2>1, <2>2, <2>4 DEF Level, TypeOK
<1>2. d \in 1 .. fill.asof
  BY <1>1 DEF Days
<1>3. \A s \in Sec : history[s][d] # 0 /\ Lone(history, s) => \E c \in C : c.sec = s /\ c.day = d
  BY <1>1, <1>2, LonePriced DEF FillRows
<1>4. Snapshots' = Snapshots
  BY <1>0 DEF Snapshots
<1> HIDE DEF C, placed
\* The prices change on day d alone, where each security has its price.
<1>p. ASSUME parent' = [parent EXCEPT !.done = @ \cup {d}],
             \A e \in Days : e # d /\ PricedOn(history, prices, e) => PricedOn(history, prices', e),
             PricedOn(history, prices', d),
             \A p \in prices' : p.day <= D
      PROVE  Priced' /\ Level(D)'
  <2>1. parent'.input = parent.input /\ parent'.done = parent.done \cup {d}
    BY <1>0, <1>p DEF TypeOK
  <2>2. 0 \in parent'.done => 0 \in parent.done
    BY <2>1 DEF Days
  <2>3. Level(D)'
    BY <1>0, <1>4, <1>p, <2>1, <2>2 DEF Level
  <2>4. \A e \in certified : e \in Days
    BY <1>0 DEF TypeOK
  <2>5. Priced'
    BY <1>0, <1>p, <2>1, <2>4 DEF Priced
  <2> QED
    BY <2>3, <2>5
<1>5. CASE C = {} /\ parent' = [parent EXCEPT !.done = @ \cup {d}] /\ UNCHANGED <<prices, facts, fill>>
  <2>1. PricedOn(history, prices', d)
    BY <1>3, <1>5 DEF PricedOn
  <2>2. \A p \in prices' : p.day <= D
    BY <1>5 DEF Level
  <2> QED
    BY <1>5, <1>p, <2>1, <2>2
<1>6. CASE /\ {c.key : c \in C} \subseteq DOMAIN FillMap
           /\ prices' = {p \in prices : ~ \E q \in placed : q.asset = p.asset /\ q.day = p.day} \cup placed
           /\ parent' = [parent EXCEPT !.done = @ \cup {d}]
  <2>1. \A q \in placed : q.day = d
    BY <1>0, <1>6, FillPlaced DEF C, placed
  <2>2. \A e \in Days : e # d /\ PricedOn(history, prices, e) => PricedOn(history, prices', e)
    <3>1. \A p \in prices : p.day # d => p \in prices'
      BY <1>6, <2>1
    <3> QED
      BY <3>1 DEF PricedOn
  <2>3. PricedOn(history, prices', d)
    <3> SUFFICES ASSUME NEW s \in Sec, history[s][d] # 0, Lone(history, s)
                 PROVE  \E p \in prices' : p.day = d /\ p.sec = s
      BY DEF PricedOn
    <3>1. PICK c \in C : c.sec = s /\ c.day = d
      BY <1>3
    <3>2. [asset |-> FillMap[c.key], day |-> c.day, sec |-> c.sec] \in placed
      BY DEF placed, Placed
    <3> QED
      BY <1>6, <3>1, <3>2
  <2>4. \A p \in prices' : p.day <= D
    BY <1>1, <1>6, <2>1 DEF Level
  <2> QED
    BY <1>6, <1>p, <2>2, <2>3, <2>4
<1>7. CASE FillFails /\ UNCHANGED <<prices, facts>>
  <2>1. UNCHANGED <<world, bronze, ids, prices, certified>>
    BY <1>7 DEF FillPrices
  <2> QED
    BY <1>7, <2>1, LevelWorld
<1> QED
  BY <1>5, <1>6, <1>7, FillPricesCases DEF C, placed

\* A repair drops nothing of a security that is alone and renamed with a certified
\* day in between.
LEMMA RepairLevel ==
    ASSUME Base, Serial, Filling, Priced, NEW D \in 0 .. NumDays, Level(D), Repair
    PROVE  Priced' /\ Level(D)'
<1>0. /\ TypeOK /\ history \in Histories /\ Snapshots # {}
      /\ UNCHANGED <<history, today, body, certified, parent>>
  BY DEF Base, TypeOK, Repair, world, bronze
<1>1. LatestSnapshot \in Snapshots /\ LatestSnapshot \in Days /\ LatestSnapshot < today
      /\ \A e \in Snapshots : e <= LatestSnapshot
  BY <1>0, LatestIs, SnapshotsAre
<1> PICK d \in Days : d = LatestSnapshot
  BY <1>1
<1>2. D <= d /\ d < today
  BY <1>1 DEF Level, Days
<1>3. /\ ids' = {i \in ids : i.ticker \in Admitted}
      /\ \A p \in prices' : p \in prices
      /\ \A p \in prices : (\E i \in ids' : i.asset = p.asset) <=> p \in prices'
  BY RepairIs
<1>4. \A k \in DOMAIN Universe(d) : DOMAIN Universe(d)[k] \subseteq Admitted
  BY DEF Admitted
<1>5. ASSUME NEW s \in Sec, Alone(history, s), Kept(history, s, certified, today)
      PROVE  Shape(history, ids, s, D) /\ Shape(history, ids', s, D)
  <2>1. OneMove(history, s, D, d)
    BY <1>2, <1>5, KeptMoves
  <2>2. Shape(history, ids, s, D)
    BY <1>5 DEF Level
  <2> QED
    BY <1>0, <1>2, <1>3, <1>4, <1>5, <2>1, <2>2, RepairShape
<1>6. Snapshots' = Snapshots
  BY <1>0 DEF Snapshots
<1>7. Level(D)'
  BY <1>0, <1>3, <1>5, <1>6 DEF Level
<1>8. ASSUME NEW e \in Days, PricedOn(history, prices, e) PROVE PricedOn(history, prices', e)
  <2> SUFFICES ASSUME NEW s \in Sec, history[s][e] # 0, Lone(history, s)
               PROVE  \E p \in prices' : p.day = e /\ p.sec = s
    BY DEF PricedOn
  <2>1. PICK p \in prices : p.day = e /\ p.sec = s
    BY <1>8 DEF PricedOn
  <2>2. Alone(history, s) /\ Kept(history, s, certified, today)
    BY LoneKept
  <2>3. Shape(history, ids, s, D) /\ Shape(history, ids', s, D)
    BY <1>5, <2>2
  <2>4. e \in 1 .. D
    BY <2>1 DEF Level, Days
  <2>5. PICK i \in ids' : i.ticker = history[s][e]
    BY <2>3, <2>4 DEF Shape
  <2>6. i \in ids /\ i.ticker \in Tick(history, s)
    BY <1>0, <1>3, <2>2, <2>5, AloneIs
  <2>7. PICK j \in ids : j.asset = p.asset /\ j.ticker \in Tick(history, s)
    BY <2>1, <2>2 DEF Base, Owned, Booked
  <2>8. i.asset = p.asset
    BY <2>3, <2>6, <2>7 DEF Shape
  <2> QED
    BY <1>3, <2>1, <2>8
<1>9. Priced'
  <2>1. \A e \in certified : e \in Days
    BY <1>0 DEF TypeOK
  <2> QED
    BY <1>0, <1>8, <2>1 DEF Priced
<1> QED
  BY <1>7, <1>9

\* The second part holds at the start.
LEMMA ScheduledInit == Init => Scheduled
<1> SUFFICES ASSUME Init PROVE Scheduled
  OBVIOUS
<1>1. Serial /\ Filling /\ Priced /\ Level(0) /\ 0 \in 0 .. NumDays
  BY OrderInit, LevelInit, FmpAssumption
<1> QED
  BY <1>1 DEF Scheduled

\* And every step keeps it.
LEMMA ScheduledStep ==
    ASSUME ~ Beside, Base, Scheduled, [Next]_vars
    PROVE  Scheduled'
<1>0. Serial /\ Filling /\ Priced
  BY DEF Scheduled
<1> PICK D \in 0 .. NumDays : Level(D)
  BY DEF Scheduled
<1>q. ASSUME Serial', Filling', Priced', Level(D)' PROVE Scheduled'
  BY <1>q DEF Scheduled
<1>e. ASSUME Serial', Filling', Priced', \E E \in 0 .. NumDays : Level(E)' PROVE Scheduled'
  BY <1>e DEF Scheduled
<1>1. NextDay => Scheduled'
  BY <1>0, <1>q, SerialWorld, FillingDaily, LevelWorld
<1>2. \A d \in Days : Arrive(d) => Scheduled'
  BY <1>0, <1>q, SerialWorld, FillingDaily, LevelWorld
<1>3. StartDaily \/ Reuse \/ Fetch \/ RefuseOrphan \/ Seal \/ LoadFails \/ StopDaily => Scheduled'
  BY <1>0, <1>q, SerialDaily, FillingDaily, LevelWorld
<1>4. LoadDaily => Scheduled'
  BY <1>0, <1>e, SerialDaily, FillingDaily, LoadDailyLevel
<1>5. \A resumed \in BOOLEAN : StartFill(resumed) => Scheduled'
  BY <1>0, <1>q, SerialFill, FillingFill, LevelWorld
<1>6. FinishFill \/ StopFill => Scheduled'
  BY <1>0, <1>q, SerialFill, FillingFill, LevelWorld
<1>7. FillAssets => Scheduled'
  BY <1>0, <1>e, SerialFill, FillingFill, FillAssetsLevel
<1>8. \A d \in Days : FillPrices(d) => Scheduled'
  BY <1>0, <1>q, SerialFill, FillingFill, FillPricesLevel
<1>9. Repair => Scheduled'
  BY <1>0, <1>q, SerialFill, FillingDaily, RepairLevel
<1>10. CASE UNCHANGED vars
  <2>1. UNCHANGED <<history, today, body, sealed, ids, prices, certified, task, fill, parent>>
    BY <1>10 DEF vars, world, bronze, silver
  <2>2. Snapshots' = Snapshots /\ (Busy <=> Busy')
    BY <2>1 DEF Snapshots, Busy
  <2>3. Serial' /\ Filling'
    BY <1>0, <2>1, <2>2 DEF Serial, Filling
  <2>4. Priced' /\ Level(D)'
    BY <1>0, <2>1, <2>2 DEF Priced, Level
  <2> QED
    BY <1>q, <2>3, <2>4
<1> QED
  BY <1>1, <1>2, <1>3, <1>4, <1>5, <1>6, <1>7, <1>8, <1>9, <1>10 DEF Next, DailyStep, FillStep

-----------------------------------------------------------------------------
(* The theorems.                                                           *)

\* The first part is an invariant.
LEMMA Based == Spec => []Base
<1>1. Base /\ [Next]_vars => Base'
  BY BaseStep
<1> QED
  BY <1>1, BaseInit, PTL DEF Spec

\* Both are, with no backfill beside the daily task.
LEMMA Inductive == ~ Beside /\ Spec => [](Base /\ Scheduled)
<1> SUFFICES ASSUME ~ Beside PROVE Spec => [](Base /\ Scheduled)
  OBVIOUS
<1>1. Base /\ Scheduled /\ [Next]_vars => (Base /\ Scheduled)'
  BY BaseStep, ScheduledStep
<1>2. Init => Base /\ Scheduled
  BY BaseInit, ScheduledInit
<1> QED
  BY <1>1, <1>2, PTL DEF Spec

\* The words of the properties.
LEMMA Words ==
    ASSUME Base, NEW s \in Sec
    PROVE  /\ Plain(s) <=> Alone(history, s)
           /\ RenameDays(s) = Moves(history, s)
           /\ Linked(s) => Kept(history, s, certified, today)
           /\ Simple(s) => Lone(history, s)
<1>1. Plain(s) <=> Alone(history, s)
  BY DEF Plain, Alone
<1>2. RenameDays(s) = Moves(history, s)
  BY DEF RenameDays, Moves
<1>3. Linked(s) => Kept(history, s, certified, today)
  BY <1>2 DEF Linked, Kept
<1>4. ASSUME Simple(s) PROVE Lone(history, s)
  <2>1. IsFiniteSet(2 .. NumDays)
    BY FmpAssumption, FS_Interval
  <2>2. RenameDays(s) \subseteq 2 .. NumDays
    BY DEF RenameDays
  <2>3. IsFiniteSet(RenameDays(s)) /\ Cardinality(RenameDays(s)) \in Nat
    BY <2>1, <2>2, FS_Subset, FS_CardinalityType
  <2>4. ASSUME NEW d \in RenameDays(s), NEW e \in RenameDays(s) PROVE d = e
    <3>1. CASE Cardinality(RenameDays(s)) = 0
      BY <2>3, <2>4, <3>1, FS_EmptySet
    <3>2. CASE Cardinality(RenameDays(s)) = 1
      BY <2>3, <2>4, <3>2, FS_Singleton
    <3> QED
      BY <1>4, <2>3, <3>1, <3>2 DEF Simple
  <2> QED
    BY <1>1, <1>2, <1>4, <2>4 DEF Simple, Lone
<1> QED
  BY <1>1, <1>2, <1>3, <1>4

\* Type correctness, whether or not a backfill may run beside the daily task.
THEOREM Typed == Spec => []TypeOK
<1>1. Base => TypeOK
  BY DEF Base
<1> QED
  BY <1>1, Based, PTL

\* No price of a security that owns its tickers alone is on the asset of
\* another, and none of another is on its asset, whatever runs beside what
\* (publish_assets, _existing_identifier_map, _stale_assets).
PricesApart == \A p, q \in prices : Plain(p.sec) /\ p.asset = q.asset => p.sec = q.sec

\* The first part has it.
LEMMA ApartIs ==
    ASSUME Base
    PROVE  PricesApart
<1> SUFFICES ASSUME NEW p \in prices, NEW q \in prices, Plain(p.sec), p.asset = q.asset
             PROVE  p.sec = q.sec
  BY DEF PricesApart
<1>1. p.sec \in Sec /\ Alone(history, p.sec)
  BY Words DEF Base, TypeOK, Price
<1>2. PICK i \in ids : i.asset = p.asset /\ i.ticker \in Tick(history, p.sec)
  BY <1>1 DEF Base, Owned, Booked
<1>3. PICK j \in ids : j.asset = q.asset /\ (q.sec = p.sec <=> j.ticker \in Tick(history, p.sec))
  BY <1>1 DEF Base, Owned, Booked
<1> QED
  BY <1>1, <1>2, <1>3 DEF Base, Owned, Apart

\* No price of a security that owns its tickers alone is on the asset of another,
\* even when a backfill runs beside the daily task from an old download.
THEOREM Separated == Spec => []PricesApart
BY ApartIs, Based, PTL

\* What the identifiers and the records of a security have in common.
LEMMA OneOwner ==
    ASSUME Base, NEW D \in 0 .. NumDays, Level(D), NEW s \in Sec, Alone(history, s),
           Kept(history, s, certified, today), NEW p, Booked(history, ids, p), p.sec = s
    PROVE  /\ \A i \in ids : i.ticker \in Tick(history, s) => i.asset = p.asset
           /\ \A q : Booked(history, ids, q) /\ q.sec = s => q.asset = p.asset
<1>1. Shape(history, ids, s, D)
  BY DEF Level
<1>2. PICK i \in ids : i.asset = p.asset /\ i.ticker \in Tick(history, s)
  BY DEF Booked
<1>3. \A j \in ids : j.ticker \in Tick(history, s) => j.asset = p.asset
  BY <1>1, <1>2 DEF Shape
<1>4. ASSUME NEW q, Booked(history, ids, q), q.sec = s PROVE q.asset = p.asset
  BY <1>3, <1>4 DEF Booked
<1> QED
  BY <1>3, <1>4

\* The invariant has one asset for each security.
LEMMA OneAssetIs ==
    ASSUME Base, Scheduled
    PROVE  OneAsset
<1> SUFFICES ASSUME NEW p \in prices, NEW q \in prices, Plain(p.sec)
             PROVE  /\ p.asset = q.asset => p.sec = q.sec
                    /\ p.sec = q.sec /\ Linked(p.sec) => p.asset = q.asset
  BY DEF OneAsset
<1>1. p.asset = q.asset => p.sec = q.sec
  BY ApartIs DEF PricesApart
<1>2. ASSUME p.sec = q.sec, Linked(p.sec) PROVE p.asset = q.asset
  <2>1. p.sec \in Sec /\ Alone(history, p.sec) /\ Kept(history, p.sec, certified, today)
    BY <1>2, Words DEF Base, TypeOK, Price
  <2>2. Booked(history, ids, p) /\ Booked(history, ids, q)
    BY DEF Base, Owned
  <2>3. PICK D \in 0 .. NumDays : Level(D)
    BY DEF Scheduled
  <2> QED
    BY <1>2, <2>1, <2>2, <2>3, OneOwner
<1> QED
  BY <1>1, <1>2

\* A security that owns its tickers alone is never priced under the asset of another,
\* and it keeps its asset across renames, delistings, backfills and repairs when a day
\* was certified under each of its tickers (publish_assets, _existing_identifier_map).
THEOREM OneAssetEach == ~ Beside /\ Spec => []OneAsset
BY OneAssetIs, Inductive, PTL

\* The words of the properties about prices.
LEMMA PricedSimple ==
    ASSUME Base, NEW d \in Days, PricedOn(history, prices, d)
    PROVE  \A s \in ListedOn(d) : Simple(s) => \E p \in prices : p.day = d /\ p.sec = s
<1> SUFFICES ASSUME NEW s \in ListedOn(d), Simple(s)
             PROVE  \E p \in prices : p.day = d /\ p.sec = s
  OBVIOUS
<1>1. s \in Sec /\ history[s][d] # 0 /\ Lone(history, s)
  BY Words DEF ListedOn
<1> QED
  BY <1>1 DEF PricedOn

\* A certified day keeps the price of each listed security that owns its tickers alone
\* and is renamed once at most (_publish, prepare_prices, _stale_assets).
THEOREM DayPriced == ~ Beside /\ Spec => []PricesOfDay
<1>1. ASSUME Base, Scheduled PROVE PricesOfDay
  <2>1. \A d \in certified : d \in Days /\ PricedOn(history, prices, d)
    BY <1>1 DEF Base, TypeOK, Scheduled, Priced
  <2> QED
    BY <1>1, <2>1, PricedSimple DEF PricesOfDay
<1> QED
  BY <1>1, Inductive, PTL

\* The ticker such a security had on a day it has a price of leads to its asset and to
\* no other, by the dates of the identifiers (publish_assets, _delete_invalid_identifiers).
THEOREM PastAnswered == ~ Beside /\ Spec => []PointInTime
<1>1. ASSUME Base, Scheduled PROVE PointInTime
  <2> SUFFICES ASSUME NEW p \in prices, Simple(p.sec)
               PROVE  {i.asset : i \in {i \in ids : /\ i.ticker = history[p.sec][p.day]
                                                    /\ i.from <= p.day /\ p.day <= i.to}} = {p.asset}
    BY DEF PointInTime
  <2>1. PICK D \in 0 .. NumDays : Level(D)
    BY <1>1 DEF Scheduled
  <2>2. /\ p.sec \in Sec /\ p.day \in Days /\ history[p.sec][p.day] # 0 /\ p.day <= D
        /\ history \in Histories
    BY <1>1, <2>1 DEF Base, TypeOK, Numbers, Price, Level
  <2>3. Lone(history, p.sec)
    BY <1>1, <2>2, Words
  <2>4. Alone(history, p.sec) /\ Kept(history, p.sec, certified, today)
    BY <2>3, LoneKept
  <2>5. Shape(history, ids, p.sec, D)
    BY <2>1, <2>2, <2>4 DEF Level
  <2>6. p.day \in 1 .. D
    BY <2>2 DEF Days
  <2>7. PICK i \in ids : i.ticker = history[p.sec][p.day] /\ i.from <= p.day /\ p.day <= i.to
    BY <2>2, <2>3, <2>5, <2>6 DEF Shape
  <2>8. history[p.sec][p.day] \in Tick(history, p.sec)
    BY <2>2, <2>4, AloneIs
  <2>9. \A j \in ids : j.ticker \in Tick(history, p.sec) => j.asset = p.asset
    BY <1>1, <2>1, <2>2, <2>4, OneOwner DEF Base, Owned
  <2> QED
    BY <2>7, <2>8, <2>9
<1> QED
  BY <1>1, Inductive, PTL

\* Its statements are on one asset and of each there is one row, and of a dividend as
\* long as it is not renamed (prepare_fundamentals, prepare_actions, _publish_frame).
THEOREM FactsOnce == ~ Beside /\ Spec => []FactOnce
<1>1. ASSUME Base, Scheduled PROVE FactOnce
  <2> SUFFICES ASSUME NEW f \in facts, NEW g \in facts, f.sec = g.sec, f.kind = g.kind, Simple(f.sec)
               PROVE  /\ f.asset = g.asset
                      /\ f.kind = "statement" \/ RenameDays(f.sec) = {} => f = g
    BY DEF FactOnce
  <2>1. PICK D \in 0 .. NumDays : Level(D)
    BY <1>1 DEF Scheduled
  <2>2. f \in Fact /\ g \in Fact /\ f.sec \in Sec /\ history \in Histories
    BY <1>1 DEF Base, TypeOK, Fact
  <2>3. Alone(history, f.sec) /\ Kept(history, f.sec, certified, today)
    BY <1>1, <2>2, Words, LoneKept
  <2>4. f.asset = g.asset
    BY <1>1, <2>1, <2>2, <2>3, OneOwner DEF Base, Owned
  <2>5. Keyed(history, f) /\ Keyed(history, g)
    BY <1>1 DEF Base, Owned
  <2>6. ASSUME f.kind = "statement" PROVE f.key = g.key
    BY <2>3, <2>5, <2>6 DEF Keyed
  <2>7. ASSUME RenameDays(f.sec) = {}, f.kind = "dividend" PROVE f.key = g.key
    <3>1. f.key \in Tick(history, f.sec) /\ g.key \in Tick(history, f.sec)
      BY <2>3, <2>5, <2>7 DEF Keyed
    <3>2. PICK a \in Days, b \in Days : history[f.sec][a] = f.key /\ history[f.sec][b] = g.key
      BY <3>1 DEF Tick
    <3>3. f.key # 0 /\ g.key # 0
      BY <3>1 DEF Tick, Tickers
    <3>4. Moves(history, f.sec) = {}
      BY <1>1, <2>2, <2>7, Words
    <3>5. a \in Nat /\ b \in Nat
      BY DEF Days
    <3>6. CASE a <= b
      <4>1. b \in a .. b
        BY <3>5, <3>6
      <4> QED
        BY <2>2, <3>2, <3>3, <3>4, <3>6, <4>1, Stays
    <3>7. CASE b <= a
      <4>1. a \in b .. a
        BY <3>5, <3>7
      <4> QED
        BY <2>2, <3>2, <3>3, <3>4, <3>7, <4>1, Stays
    <3> QED
      BY <3>5, <3>6, <3>7
  <2>8. f.kind \in {"statement", "dividend"} /\ (f.key = g.key => f = g)
    BY <2>2, <2>4 DEF Fact
  <2> QED
    BY <2>4, <2>6, <2>7, <2>8
<1> QED
  BY <1>1, Inductive, PTL

\* A certified backfill has the prices of every end-of-day object it was given,
\* whatever stops and resumes it took (_completed_partitions).
THEOREM FillsComplete == ~ Beside /\ Spec => []FillComplete
<1>1. ASSUME Base, Scheduled PROVE FillComplete
  <2> SUFFICES ASSUME parent.status = "CERTIFIED",
                      NEW d \in Days, "eod" \in parent.input[d], body[d]["eod"] = "full"
               PROVE  \A s \in ListedOn(d) : Simple(s) => \E p \in prices : p.day = d /\ p.sec = s
    BY DEF FillComplete
  <2>1. d \in parent.done
    BY <1>1 DEF Scheduled, Filling
  <2>2. PricedOn(history, prices, d)
    BY <1>1, <2>1 DEF Scheduled, Priced
  <2> QED
    BY <1>1, <2>2, PricedSimple
<1> QED
  BY <1>1, Inductive, PTL

=============================================================================
