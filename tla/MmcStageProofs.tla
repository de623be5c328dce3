--------------------------- MODULE MmcStageProofs ---------------------------
(***************************************************************************)
(* Two stages of the MMC driver.  The tuning of an eMMC bus leaves a phase *)
(* that works, in the middle of a longest window, for every number of      *)
(* phases and of driver types.  Block I/O keeps the promise of BlockDevice *)
(* for every size of card, request and transfer, within the limits that    *)
(* Sound names: they are what the code relies on and does not check.       *)
(***************************************************************************)
EXTENDS MmcBlockIo, MmcTuning, FiniteSetTheorems, WellFoundedInduction, TLAPS

-----------------------------------------------------------------------------
(* The ring of the phases.                                                  *)

\* A number inside the ring is itself, one up to twice round it loses one round, one below it gains
\* a round.
LEMMA RingIn == ASSUME NEW N \in Nat \ {0}, NEW x \in 0..(N - 1) PROVE x % N = x
OBVIOUS

LEMMA RingOver ==
  ASSUME NEW N \in Nat \ {0}, NEW x \in 0..(2 * N - 1)
  PROVE  x % N = IF x < N THEN x ELSE x - N
<1>1. /\ x < N => x % N = x
      /\ ~(x < N) => x % N = x - N
  OBVIOUS
<1>. QED
  BY <1>1

\* The sum of two positions of the ring.
LEMMA RingSum == ASSUME NEW N \in Nat \ {0}, NEW a \in 0..(N - 1), NEW b \in 0..(N - 1)
  PROVE  (a + b) % N = IF a + b < N THEN a + b ELSE a + b - N
<1>. DEFINE x == a + b
<1>1. x \in 0..(2 * N - 1)
  OBVIOUS
<1>. HIDE DEF x
<1>2. x % N = IF x < N THEN x ELSE x - N
  BY <1>1, RingOver
<1>. QED
  BY <1>2 DEF x

LEMMA RingUnder == ASSUME NEW N \in Nat \ {0}, NEW x \in (-N)..(-1) PROVE x % N = x + N
OBVIOUS

\* A set of numbers has a least element, a bounded one a greatest, which is its Max.
LEMMA LeastOf ==
  ASSUME NEW S \in SUBSET Nat, S # {}
  PROVE  \E x \in S : \A y \in S : x <= y
<1>1. PICK x \in S : \A y \in S : ~(<<y, x>> \in OpToRel(<, Nat))
  BY WFMin, NatLessThanWellFounded, Zenon
<1>2. \A y \in S : y \in Nat /\ x \in Nat /\ ~(y < x)
  BY <1>1, Zenon DEF OpToRel
<1>3. \A y \in S : x <= y
  BY <1>2
<1>. QED
  BY <1>3

LEMMA GreatestOf ==
  ASSUME NEW N \in Nat, NEW S \in SUBSET (0..N), S # {}
  PROVE  \E x \in S : \A y \in S : y <= x
<1>. DEFINE D == {N - x : x \in S}
<1>1. D \in SUBSET Nat /\ D # {}
  <2>1. \A x \in S : N - x \in Nat
    OBVIOUS
  <2>. QED
    BY <2>1
<1>2. PICK d \in D : \A e \in D : d <= e
  <2>. HIDE DEF D
  <2>. QED
    BY <1>1, LeastOf
<1>3. PICK x \in S : d = N - x
  BY <1>2
<1>4. \A y \in S : y <= x
  <2>. TAKE y \in S
  <2>1. N - x <= N - y
    BY <1>2, <1>3
  <2>. QED
    BY <2>1
<1>. QED
  BY <1>4

LEMMA MaxIs ==
  ASSUME NEW N \in Nat, NEW S \in SUBSET (0..N), NEW x \in S, \A y \in S : y <= x
  PROVE  Max(S) = x
<1>1. Max(S) \in S /\ \A y \in S : Max(S) >= y
  <2>1. \E z \in S : \A y \in S : z >= y
    OBVIOUS
  <2>. QED
    BY <2>1 DEF Max
<1>2. Max(S) >= x /\ x >= Max(S)
  BY <1>1
<1>3. S \subseteq Int
  OBVIOUS
<1>4. Max(S) \in Int /\ x \in Int
  BY <1>1, <1>3
<1>. QED
  BY <1>2, <1>4

-----------------------------------------------------------------------------
(* Rows.                                                                    *)

\* The row that a phase begins ends before the first phase that did not pass.
LEMMA RowIs ==
  ASSUME MaxPhasesAssumption, NEW T \in SUBSET Phases, NEW p \in T
  PROVE  \E n \in 1..MaxPhases : p..(p + n - 1) \subseteq T /\ p + n \notin T /\ p + n <= MaxPhases /\ RowLen(T, p) = n
<1>. DEFINE S == {q \in Nat : q >= p /\ q \notin T}
<1>1. p \in 0..(MaxPhases - 1) /\ MaxPhases \in Nat \ {0} /\ T \subseteq 0..(MaxPhases - 1)
  BY DEF Phases, MaxPhasesAssumption
<1>2. MaxPhases \in S
  BY <1>1
<1>3. PICK q \in S : \A y \in S : q <= y
  BY <1>2, LeastOf
<1>4. q \in Nat /\ q > p /\ q \notin T /\ q <= MaxPhases
  BY <1>1, <1>2, <1>3
<1>5. \A x \in p..(q - 1) : x \in T
  BY <1>1, <1>3, <1>4
<1>6. PICK n \in 1..MaxPhases : q = p + n
  <2>1. q - p \in 1..MaxPhases /\ q = p + (q - p)
    BY <1>1, <1>4
  <2>. QED
    BY <2>1
<1>7. {x \in T : x >= p /\ \A y \in p..x : y \in T} = p..(q - 1)
  <2>1. ASSUME NEW x \in T, x >= p, \A y \in p..x : y \in T PROVE x \in p..(q - 1)
    <3>1. x \in Int /\ ~(q \in p..x)
      BY <1>1, <1>4, <2>1
    <3>. QED
      BY <1>1, <1>4, <2>1, <3>1
  <2>2. ASSUME NEW x \in p..(q - 1) PROVE x \in T /\ x >= p /\ \A y \in p..x : y \in T
    BY <1>1, <1>4, <1>5, <2>2
  <2>. QED
    BY <2>1, <2>2
<1>8. RowLen(T, p) = n
  <2>1. Cardinality(p..(q - 1)) = IF p > q - 1 THEN 0 ELSE q - 1 - p + 1
    BY <1>1, <1>4, FS_Interval
  <2>2. Cardinality(p..(q - 1)) = n
    BY <1>1, <1>4, <1>6, <2>1
  <2>. QED
    BY <1>7, <2>2 DEF RowLen
<1>9. p..(p + n - 1) \subseteq T
  BY <1>1, <1>5, <1>6
<1>. QED
  BY <1>1, <1>4, <1>6, <1>8, <1>9

\* A phase that passed lies in the row that some phase begins.
LEMMA RowStart ==
  ASSUME MaxPhasesAssumption, NEW T \in SUBSET Phases, NEW p \in T
  PROVE  \E r \in Rows(T) : r <= p /\ r..p \subseteq T
<1>. DEFINE S == {r \in Nat : r <= p /\ r..p \subseteq T}
<1>1. p \in Nat /\ T \subseteq Nat
  BY DEF Phases
<1>2. p \in S
  BY <1>1
<1>3. PICK r \in S : \A y \in S : r <= y
  BY <1>2, LeastOf
<1>4. r \in Nat /\ r <= p /\ r \in T /\ r..p \subseteq T
  BY <1>1, <1>3
<1>5. r - 1 \notin T
  <2>1. SUFFICES ASSUME r - 1 \in T PROVE FALSE
    OBVIOUS
  <2>2. r - 1 \in Nat
    BY <1>1, <2>1
  <2>3. (r - 1)..p \subseteq T
    <3>1. \A x \in (r - 1)..p : x = r - 1 \/ x \in r..p
      BY <1>1, <1>4
    <3>. QED
      BY <3>1, <1>4, <2>1
  <2>4. r - 1 \in S
    BY <1>1, <1>4, <2>2, <2>3
  <2>. QED
    BY <1>3, <1>4, <2>4
<1>. QED
  BY <1>4, <1>5 DEF Rows

\* The first phase of a row passed, and the one before it did not.
LEMMA RowsInside ==
  ASSUME NEW T \in SUBSET Phases
  PROVE  Rows(T) \subseteq T /\ \A p \in Rows(T) : p \in T /\ p - 1 \notin T
BY DEF Rows

\* How long a row counts.
LEMMA RowCounts ==
  ASSUME MaxPhasesAssumption, NEW T \in SUBSET Phases, NEW p \in Rows(T)
  PROVE  PhasesPerRow(T, p) \in 0..(2 * MaxPhases)
<1>1. PICK n \in 1..MaxPhases : RowLen(T, p) = n
  BY RowsInside, RowIs
<1>2. 0 \in T => \E k \in 1..MaxPhases : RowLen(T, 0) = k
  BY RowIs
<1>. QED
  BY <1>1, <1>2 DEF PhasesPerRow, FoundLoop, MaxPhasesAssumption

\* The row that is chosen counts at least as long as every other.
LEMMA BestRow ==
  ASSUME MaxPhasesAssumption, NEW T \in SUBSET Phases, T # {}
  PROVE  MaxRow(T) \in Rows(T) /\ \A q \in Rows(T) : PhasesPerRow(T, q) <= PhasesPerRow(T, MaxRow(T))
<1>. DEFINE C == {PhasesPerRow(T, p) : p \in Rows(T)}
            B == {p \in Rows(T) : \A q \in Rows(T) : PhasesPerRow(T, q) <= PhasesPerRow(T, p)}
<1>1. 2 * MaxPhases \in Nat
  BY DEF MaxPhasesAssumption
<1>2. C \in SUBSET (0..(2 * MaxPhases))
  BY RowCounts
<1>3. C # {}
  <2>1. PICK p \in T : TRUE
    OBVIOUS
  <2>2. Rows(T) # {}
    BY <2>1, RowStart
  <2>. QED
    BY <2>2
<1>4. PICK c \in C : \A y \in C : y <= c
  <2>. HIDE DEF C
  <2>. QED
    BY <1>1, <1>2, <1>3, GreatestOf
<1>5. PICK p \in Rows(T) : c = PhasesPerRow(T, p)
  BY <1>4
<1>6. p \in B
  BY <1>4, <1>5
<1>7. B \in SUBSET Nat
  <2>1. Rows(T) \subseteq T
    BY RowsInside
  <2>2. T \subseteq Nat
    BY DEF Phases
  <2>. QED
    BY <2>1, <2>2
<1>8. PICK m \in B : \A y \in B : m <= y
  <2>. HIDE DEF B
  <2>. QED
    BY <1>6, <1>7, LeastOf
<1>9. Min(B) \in B
  <2>. HIDE DEF B
  <2>. QED
    BY <1>8 DEF Min
<1>. QED
  BY <1>9 DEF MaxRow

-----------------------------------------------------------------------------
(* Windows.                                                                 *)

\* A window that stays below the end of the ring.
LEMMA StraightWindow ==
  ASSUME MaxPhasesAssumption, NEW T \in SUBSET Phases, NEW p \in Phases, NEW n \in Nat, p + n <= MaxPhases
  PROVE  Window(T, p, n) <=> p..(p + n - 1) \subseteq T
<1>1. \A i \in 0..(n - 1) : (p + i) % MaxPhases = p + i
  <2>. TAKE i \in 0..(n - 1)
  <2>1. p + i \in 0..(MaxPhases - 1) /\ MaxPhases \in Nat \ {0} /\ p + i \in Int
    BY DEF Phases, MaxPhasesAssumption
  <2>. QED
    BY <2>1, RingIn
<1>2. \A x \in p..(p + n - 1) : x - p \in 0..(n - 1) /\ p + (x - p) = x
  BY DEF Phases
<1>3. \A i \in 0..(n - 1) : p + i \in p..(p + n - 1)
  BY DEF Phases
<1>4. n <= MaxPhases
  BY DEF Phases, MaxPhasesAssumption
<1>5. ASSUME Window(T, p, n), NEW x \in p..(p + n - 1) PROVE x \in T
  <2>1. (p + (x - p)) % MaxPhases \in T
    BY <1>2, <1>5 DEF Window
  <2>. QED
    BY <1>1, <1>2, <2>1
<1>6. ASSUME p..(p + n - 1) \subseteq T PROVE Window(T, p, n)
  BY <1>1, <1>3, <1>4, <1>6 DEF Window
<1>. QED
  BY <1>5, <1>6

\* A window that goes over the end of the ring.
LEMMA RoundWindow ==
  ASSUME MaxPhasesAssumption, NEW T \in SUBSET Phases, NEW p \in Phases, NEW n \in 0..MaxPhases, p + n > MaxPhases
  PROVE  Window(T, p, n) <=> p..(MaxPhases - 1) \subseteq T /\ 0..(p + n - MaxPhases - 1) \subseteq T
<1>. MaxPhases \in Nat \ {0} /\ p \in 0..(MaxPhases - 1)
  BY DEF Phases, MaxPhasesAssumption
<1>1. \A i \in 0..(n - 1) : (p + i) % MaxPhases = IF p + i < MaxPhases THEN p + i ELSE p + i - MaxPhases
  <2>. TAKE i \in 0..(n - 1)
  <2>1. i \in 0..(MaxPhases - 1)
    OBVIOUS
  <2>. QED
    BY <2>1, RingSum
<1>2. ASSUME Window(T, p, n), NEW x \in p..(MaxPhases - 1) PROVE x \in T
  <2>1. x - p \in 0..(n - 1) /\ p + (x - p) = x /\ x < MaxPhases
    OBVIOUS
  <2>2. (p + (x - p)) % MaxPhases = x
    BY <2>1, <1>1
  <2>3. (p + (x - p)) % MaxPhases \in T
    BY <1>2, <2>1 DEF Window
  <2>. QED
    BY <2>2, <2>3
<1>3. ASSUME Window(T, p, n), NEW x \in 0..(p + n - MaxPhases - 1) PROVE x \in T
  <2>. DEFINE i == x + MaxPhases - p
  <2>1. i \in 0..(n - 1) /\ p + i = x + MaxPhases /\ p + i - MaxPhases = x /\ ~(p + i < MaxPhases)
    OBVIOUS
  <2>2. (p + i) % MaxPhases = x
    BY <2>1, <1>1
  <2>3. (p + i) % MaxPhases \in T
    BY <1>3, <2>1 DEF Window
  <2>. QED
    BY <2>2, <2>3
<1>4. ASSUME p..(MaxPhases - 1) \subseteq T, 0..(p + n - MaxPhases - 1) \subseteq T PROVE Window(T, p, n)
  <2>1. ASSUME NEW i \in 0..(n - 1) PROVE (p + i) % MaxPhases \in T
    <3>1. CASE p + i < MaxPhases
      <4>1. p + i \in p..(MaxPhases - 1)
        BY <3>1
      <4>. QED
        BY <4>1, <3>1, <1>1, <1>4
    <3>2. CASE ~(p + i < MaxPhases)
      <4>1. p + i - MaxPhases \in 0..(p + n - MaxPhases - 1)
        BY <3>2
      <4>. QED
        BY <4>1, <3>2, <1>1, <1>4
    <3>. QED
      BY <3>1, <3>2
  <2>. QED
    BY <2>1 DEF Window
<1>. QED
  BY <1>2, <1>3, <1>4

\* A stretch of passed phases lies in a row.
LEMMA StretchInRow ==
  ASSUME MaxPhasesAssumption, NEW T \in SUBSET Phases, NEW p \in Phases, NEW n \in Nat \ {0}, p..(p + n - 1) \subseteq T
  PROVE  \E r \in Rows(T) : r <= p /\ p + n <= r + RowLen(T, r)
<1>. p \in Nat
  BY DEF Phases
<1>1. p \in T
  OBVIOUS
<1>2. PICK r \in Rows(T) : r <= p /\ r..p \subseteq T
  BY <1>1, RowStart
<1>3. r \in T /\ r \in Nat
  <2>1. r \in T /\ T \subseteq Phases
    BY RowsInside
  <2>. QED
    BY <2>1 DEF Phases
<1>4. PICK k \in 1..MaxPhases : r..(r + k - 1) \subseteq T /\ r + k \notin T /\ RowLen(T, r) = k
  BY <1>3, RowIs
<1>5. ~(r + k < p + n)
  <2>1. SUFFICES ASSUME r + k < p + n PROVE FALSE
    OBVIOUS
  <2>2. r + k \in r..p \/ r + k \in p..(p + n - 1)
    BY <1>2, <1>3, <2>1
  <2>. QED
    BY <1>2, <1>4, <2>2
<1>. QED
  BY <1>2, <1>3, <1>4, <1>5

\* The row chosen is a longest window of the ring.
LEMMA RowIsLongest ==
  ASSUME MaxPhasesAssumption, NEW T \in SUBSET Phases, T # {}
  PROVE  LET m == MaxRow(T)
            n == PhasesPerRow(T, m)
        IN /\ m \in Phases /\ n \in 1..MaxPhases /\ Window(T, m, n)
           /\ \A p \in Phases, k \in 1..MaxPhases : Window(T, p, k) => k <= n
<1>. DEFINE m == MaxRow(T)
            n == PhasesPerRow(T, m)
<1>0. MaxPhases \in Nat \ {0} /\ Phases = 0..(MaxPhases - 1)
  BY DEF Phases, MaxPhasesAssumption
<1>1. m \in Rows(T) /\ \A q \in Rows(T) : PhasesPerRow(T, q) <= n
  BY BestRow
<1>2. m \in T /\ m - 1 \notin T /\ m \in 0..(MaxPhases - 1)
  BY <1>0, <1>1, RowsInside
<1>3. PICK k \in 1..MaxPhases : m..(m + k - 1) \subseteq T /\ m + k \notin T /\ m + k <= MaxPhases /\ RowLen(T, m) = k
  BY <1>2, RowIs
<1>. HIDE DEF m, n
<1>4. CASE ~FoundLoop(T)
  <2>1. n = k /\ \A q \in Rows(T) : PhasesPerRow(T, q) = RowLen(T, q)
    BY <1>3, <1>4 DEF n, PhasesPerRow
  <2>2. Window(T, m, n)
    BY <1>0, <1>2, <1>3, <2>1, StraightWindow
  <2>3. ASSUME NEW p \in Phases, NEW j \in 1..MaxPhases, Window(T, p, j) PROVE j <= n
    <3>1. CASE p + j <= MaxPhases
      <4>1. p..(p + j - 1) \subseteq T
        BY <1>0, <2>3, <3>1, StraightWindow
      <4>2. PICK r \in Rows(T) : r <= p /\ p + j <= r + RowLen(T, r)
        <5>1. j \in Nat \ {0}
          OBVIOUS
        <5>. QED
          BY <4>1, <5>1, StretchInRow
      <4>3. r \in Int /\ RowLen(T, r) \in Int
        <5>1. r \in T
          BY RowsInside
        <5>2. RowLen(T, r) \in 1..MaxPhases
          BY <5>1, RowIs
        <5>. QED
          BY <1>0, <5>1, <5>2
      <4>4. RowLen(T, r) <= n
        BY <1>1, <2>1
      <4>. QED
        BY <1>0, <1>3, <2>1, <4>2, <4>3, <4>4
    <3>2. CASE p + j > MaxPhases
      <4>1. p..(MaxPhases - 1) \subseteq T /\ 0..(p + j - MaxPhases - 1) \subseteq T
        BY <1>0, <2>3, <3>2, RoundWindow
      <4>2. MaxPhases - 1 \in T /\ 0 \in T
        BY <1>0, <3>2, <4>1
      <4>3. T = Phases
        BY <1>4, <4>2 DEF FoundLoop
      <4>4. m = 0
        BY <1>0, <1>2, <4>3
      <4>5. k = MaxPhases
        BY <1>0, <1>3, <4>3, <4>4
      <4>. QED
        BY <2>1, <4>5
    <3>. QED
      BY <1>0, <3>1, <3>2
  <2>. QED
    BY <1>0, <1>2, <1>3, <2>1, <2>2, <2>3 DEF m, n
<1>5. CASE FoundLoop(T)
  <2>1. 0 \in T /\ MaxPhases - 1 \in T /\ T # Phases
    BY <1>5 DEF FoundLoop
  <2>2. PICK a \in 1..MaxPhases : 0..(0 + a - 1) \subseteq T /\ 0 + a \notin T /\ 0 + a <= MaxPhases /\ RowLen(T, 0) = a
    BY <2>1, RowIs
  <2>3. PICK z \in Rows(T) : z <= MaxPhases - 1 /\ z..(MaxPhases - 1) \subseteq T
    BY <2>1, RowStart
  <2>4. z \in T /\ z - 1 \notin T /\ z \in 0..(MaxPhases - 1)
    BY <1>0, <2>3, RowsInside
  <2>5. a < z
    <3>1. a \notin z..(MaxPhases - 1)
      BY <2>2, <2>3
    <3>2. a # MaxPhases
      <4>1. SUFFICES ASSUME a = MaxPhases PROVE FALSE
        OBVIOUS
      <4>2. Phases \subseteq T
        BY <1>0, <2>2, <4>1
      <4>. QED
        BY <2>1, <4>2
    <3>. QED
      BY <1>0, <2>2, <2>4, <3>1, <3>2
  <2>6. RowLen(T, z) = MaxPhases - z
    <3>1. PICK b \in 1..MaxPhases : z..(z + b - 1) \subseteq T /\ z + b \notin T /\ z + b <= MaxPhases /\ RowLen(T, z) = b
      BY <2>4, RowIs
    <3>2. z + b \notin z..(MaxPhases - 1)
      BY <2>3, <3>1
    <3>. QED
      BY <1>0, <2>4, <3>1, <3>2
  <2>7. PhasesPerRow(T, z) = MaxPhases - z + a
    BY <1>0, <1>5, <2>2, <2>4, <2>5, <2>6 DEF PhasesPerRow
  <2>8. n >= MaxPhases - z + a
    BY <1>1, <2>3, <2>7
  <2>9. m # 0
    <3>1. SUFFICES ASSUME m = 0 PROVE FALSE
      OBVIOUS
    <3>2. n = 0
      BY <1>5, <3>1 DEF n, PhasesPerRow
    <3>. QED
      BY <1>0, <2>2, <2>4, <2>8, <3>2
  <2>10. n \in 1..MaxPhases /\ Window(T, m, n)
    <3>1. CASE m + k = MaxPhases
      <4>1. n = k + a
        BY <1>3, <1>5, <2>2, <2>9, <3>1 DEF n, PhasesPerRow
      <4>2. m > a
        <5>1. a \notin m..(m + k - 1)
          BY <1>3, <2>2
        <5>. QED
          BY <1>0, <1>2, <1>3, <2>2, <2>4, <2>5, <3>1, <5>1
      <4>3. n \in 1..MaxPhases /\ m + n > MaxPhases /\ m + n - MaxPhases = a
        BY <1>0, <1>2, <1>3, <2>2, <3>1, <4>1, <4>2
      <4>4. m..(MaxPhases - 1) \subseteq T /\ 0..(m + n - MaxPhases - 1) \subseteq T
        BY <1>0, <1>2, <1>3, <2>2, <3>1, <4>3
      <4>. QED
        BY <1>0, <1>2, <4>3, <4>4, RoundWindow
    <3>2. CASE m + k # MaxPhases
      <4>1. n = k
        BY <1>3, <1>5, <2>9, <3>2 DEF n, PhasesPerRow
      <4>. QED
        BY <1>0, <1>2, <1>3, <4>1, StraightWindow
    <3>. QED
      BY <3>1, <3>2
  <2>11. ASSUME NEW p \in Phases, NEW j \in 1..MaxPhases, Window(T, p, j) PROVE j <= n
    <3>1. CASE p + j <= MaxPhases
      <4>1. p..(p + j - 1) \subseteq T
        BY <1>0, <2>11, <3>1, StraightWindow
      <4>2. PICK r \in Rows(T) : r <= p /\ p + j <= r + RowLen(T, r)
        <5>1. j \in Nat \ {0}
          OBVIOUS
        <5>. QED
          BY <4>1, <5>1, StretchInRow
      <4>3. r \in Int /\ RowLen(T, r) \in Int
        <5>1. r \in T
          BY RowsInside
        <5>2. RowLen(T, r) \in 1..MaxPhases
          BY <5>1, RowIs
        <5>. QED
          BY <1>0, <5>1, <5>2
      <4>4. CASE r = 0
        <5>1. j <= a
          BY <1>0, <2>2, <4>2, <4>4
        <5>. QED
          BY <1>0, <2>2, <2>4, <2>8, <2>10, <5>1
      <4>5. CASE r # 0
        <5>1. PhasesPerRow(T, r) >= RowLen(T, r)
          BY <1>5, <2>2, <4>3, <4>5 DEF PhasesPerRow
        <5>2. PhasesPerRow(T, r) <= n /\ PhasesPerRow(T, r) \in Int
          BY <1>1, RowCounts
        <5>. QED
          BY <1>0, <2>10, <4>2, <4>3, <5>1, <5>2
      <4>. QED
        BY <4>4, <4>5
    <3>2. CASE p + j > MaxPhases
      <4>1. p..(MaxPhases - 1) \subseteq T /\ 0..(p + j - MaxPhases - 1) \subseteq T
        BY <1>0, <2>11, <3>2, RoundWindow
      <4>2. z <= p
        <5>1. z - 1 \notin p..(MaxPhases - 1)
          BY <2>4, <4>1
        <5>. QED
          BY <1>0, <2>4, <5>1
      <4>3. p + j - MaxPhases <= a
        <5>1. a \notin 0..(p + j - MaxPhases - 1)
          BY <2>2, <4>1
        <5>. QED
          BY <1>0, <2>2, <5>1
      <4>. QED
        BY <1>0, <2>2, <2>4, <2>8, <2>10, <4>2, <4>3
    <3>. QED
      BY <1>0, <3>1, <3>2
  <2>. QED
    BY <1>0, <1>2, <2>10, <2>11 DEF m, n
<1>. QED
  BY <1>4, <1>5

\* sdhci_msm_find_appropriate_phase, for every number of phases and every set of phases that
\* passed: the phase selected is one of them, at three quarters of a longest window of the ring.
THEOREM PhaseIsSelected ==
  ASSUME MaxPhasesAssumption, NEW T \in SUBSET Phases, T # {}
  PROVE  Selects(T)
<1>. DEFINE m == MaxRow(T)
            n == PhasesPerRow(T, m)
            i == Index34(n)
            s == (m + i) % MaxPhases
<1>0. MaxPhases \in Nat \ {0} /\ Phases = 0..(MaxPhases - 1)
  BY DEF Phases, MaxPhasesAssumption
<1>1. m \in Phases /\ n \in 1..MaxPhases /\ Window(T, m, n)
  BY RowIsLongest
<1>2. \A p \in Phases, k \in 1..MaxPhases : Window(T, p, k) => k <= n
  BY RowIsLongest
<1>3. FindPhase(T) = s
  BY DEF FindPhase
<1>. HIDE DEF m, n
<1>4. Longest(T) = n
  <2>. DEFINE L == {k \in 1..MaxPhases : \E p \in Phases : Window(T, p, k)}
  <2>1. L \in SUBSET (0..MaxPhases) /\ n \in L /\ \A y \in L : y <= n
    BY <1>0, <1>1, <1>2
  <2>2. Longest(T) = Max(L)
    BY DEF Longest
  <2>. HIDE DEF L
  <2>. QED
    BY <1>0, <2>1, <2>2, MaxIs
<1>5. i \in 0..(n - 1)
  BY <1>0, <1>1 DEF Index34
<1>. HIDE DEF i
<1>6. s \in T
  BY <1>1, <1>5 DEF Window
<1>7. (s - i) % MaxPhases = m
  <2>1. m \in 0..(MaxPhases - 1) /\ i \in 0..(MaxPhases - 1) /\ m + i \in Int
    BY <1>0, <1>1, <1>5
  <2>0. s = IF m + i < MaxPhases THEN m + i ELSE m + i - MaxPhases
    BY <1>0, <2>1, RingSum
  <2>2. CASE m + i < MaxPhases
    <3>1. s = m + i
      BY <2>0, <2>2
    <3>2. s - i = m /\ m \in Int
      BY <2>1, <3>1
    <3>. QED
      BY <1>0, <2>1, <3>2, RingIn
  <2>3. CASE ~(m + i < MaxPhases)
    <3>1. s = m + i - MaxPhases
      BY <2>0, <2>3
    <3>2. s - i = m - MaxPhases /\ m - MaxPhases \in (-MaxPhases)..(-1) /\ m - MaxPhases \in Int
      BY <1>0, <2>1, <3>1
    <3>3. (m - MaxPhases) % MaxPhases = (m - MaxPhases) + MaxPhases
      BY <1>0, <3>2, RingUnder
    <3>. QED
      BY <1>0, <2>1, <3>2, <3>3
  <2>. QED
    BY <2>2, <2>3
<1>. QED
  BY <1>1, <1>3, <1>4, <1>6, <1>7 DEF Selects, i

-----------------------------------------------------------------------------
(* Tuning.                                                                  *)

\* What the two properties of the tuning suppose of a behaviour.
Trustworthy == ~setting.ignores /\ ~setting.dllFails
Dependable == ~setting.switchFails /\ ~setting.dllFails

\* Only phases are passed, and only a phase is tried.
TriedArePhases ==
  /\ tuned \subseteq Phases
  /\ at = "try" => phase \in Nat

\* Once a trial has begun, the phases that passed are those whose own block
\* arrived; what is saved is one of them when a call has succeeded.
PassedDelivered ==
  Trustworthy =>
    /\ at \in {"try", "drive", "restore", "select"} => tuned = delivered
    /\ at = "calibrate" => saved \in delivered
    /\ at \in {"out", "idle"} /\ ret = 0 /\ timing # "none" => saved \in delivered /\ dll = saved

\* A driver strength other than the default is one reported as changed.
StrengthKnown ==
  Dependable =>
    strength = 0 \/ (changed /\ at \in {"init", "retry", "try", "drive", "restore"})

TuningInv == TriedArePhases /\ PassedDelivered /\ StrengthKnown

\* What is selected is one of the phases that passed.
LEMMA PhaseFromTuned ==
  ASSUME MaxPhasesAssumption, tuned \subseteq Phases, tuned # {}
  PROVE  FindPhase(tuned) \in tuned /\ Selects(tuned)
<1>1. Selects(tuned)
  BY PhaseIsSelected
<1>. QED
  BY <1>1 DEF Selects

\* The tuning starts in the invariant, and each of its actions keeps it.
LEMMA TuningInvInit == ASSUME TuningInit PROVE TuningInv
  BY DEF TuningInit, TuningInv, TriedArePhases, PassedDelivered, StrengthKnown

LEMMA ExecuteInv == ASSUME TuningInv, Execute PROVE TuningInv'
  BY DEF TuningInv, TriedArePhases, PassedDelivered, StrengthKnown, Trustworthy, Dependable, Execute, host

LEMMA CalibrateInv == ASSUME TuningInv, Calibrate PROVE TuningInv'
  BY DEF TuningInv, TriedArePhases, PassedDelivered, StrengthKnown, Trustworthy, Dependable, Calibrate, Fail

LEMMA InitDllInv == ASSUME TuningInv, InitDll PROVE TuningInv'
  BY DEF TuningInv, TriedArePhases, PassedDelivered, StrengthKnown, Trustworthy, Dependable, InitDll, Fail, host

LEMMA RetryInv == ASSUME TuningInv, RetryTuning PROVE TuningInv'
  BY DEF TuningInv, TriedArePhases, PassedDelivered, StrengthKnown, Trustworthy, Dependable, RetryTuning, Restart, host

LEMMA TryInv == ASSUME MaxPhasesAssumption, TuningInv, TryPhase PROVE TuningInv'
<1>1. UNCHANGED <<setting, timing, drv, changed, host, strength>> /\ at = "try" /\ phase \in Nat /\ phase < MaxPhases
  BY DEF TryPhase, MorePhases, TuningInv, TriedArePhases
<1>2. CASE /\ dll' = phase
           /\ \E o \in Outcomes :
                /\ Cmd21(o)
                /\ tuned' = IF Passes(o) THEN tuned \cup {phase} ELSE tuned
                /\ delivered' = IF o = "block" THEN delivered \cup {phase} ELSE delivered
           /\ phase' = phase + 1
           /\ UNCHANGED <<at, ret>>
  <2>1. PICK o \in Outcomes :
          /\ Cmd21(o)
          /\ tuned' = IF Passes(o) THEN tuned \cup {phase} ELSE tuned
          /\ delivered' = IF o = "block" THEN delivered \cup {phase} ELSE delivered
    BY <1>2
  <2>2. phase \in Phases
    BY <1>1 DEF Phases, MaxPhasesAssumption
  <2>3. TriedArePhases'
    BY <1>1, <1>2, <2>1, <2>2 DEF TuningInv, TriedArePhases, Phases
  <2>4. ASSUME ~setting.ignores PROVE Passes(o) <=> o = "block"
    BY <2>1, <2>4 DEF Passes, Cmd21, Outcomes
  <2>5. PassedDelivered'
    BY <1>1, <1>2, <2>1, <2>4 DEF TuningInv, PassedDelivered, Trustworthy
  <2>6. StrengthKnown'
    BY <1>1, <1>2 DEF TuningInv, StrengthKnown, Dependable
  <2>. QED
    BY <2>3, <2>5, <2>6 DEF TuningInv
<1>3. CASE setting.dllFails /\ Fail /\ dll' = None /\ UNCHANGED <<phase, tuned, data, delivered>>
  BY <1>1, <1>3 DEF TuningInv, TriedArePhases, PassedDelivered, StrengthKnown, Trustworthy, Dependable, Fail
<1>. QED
  BY <1>2, <1>3 DEF TryPhase

LEMMA TriedInv == ASSUME TuningInv, Tried PROVE TuningInv'
  BY DEF TuningInv, TriedArePhases, PassedDelivered, StrengthKnown, Trustworthy, Dependable, Tried, host

LEMMA ChangeDriveInv == ASSUME TuningInv, ChangeDrive PROVE TuningInv'
  BY DEF TuningInv, TriedArePhases, PassedDelivered, StrengthKnown, Trustworthy, Dependable, ChangeDrive,
         SetDrvType, NextType, host

LEMMA RestoreInv == ASSUME TuningInv, Restore PROVE TuningInv'
  BY DEF TuningInv, TriedArePhases, PassedDelivered, StrengthKnown, Trustworthy, Dependable, Restore, MustRestore

LEMMA SelectInv == ASSUME MaxPhasesAssumption, TuningInv, Select PROVE TuningInv'
<1>1. tuned # {} => FindPhase(tuned) \in tuned
  BY PhaseFromTuned DEF TuningInv, TriedArePhases
<1>. HIDE DEF FindPhase
<1>. QED
  BY <1>1 DEF TuningInv, TriedArePhases, PassedDelivered, StrengthKnown, Trustworthy, Dependable, Select,
              Configured

LEMMA OutInv == ASSUME TuningInv, Out PROVE TuningInv'
  BY DEF TuningInv, TriedArePhases, PassedDelivered, StrengthKnown, Trustworthy, Dependable, Out

LEMMA TuningInvStep ==
  ASSUME MaxPhasesAssumption, TuningInv, [TuningNext]_tuningVars
  PROVE  TuningInv'
<1>1. CASE UNCHANGED tuningVars
  BY <1>1 DEF tuningVars, TuningInv, TriedArePhases, PassedDelivered, StrengthKnown, Trustworthy, Dependable
<1>. QED
  BY <1>1, ExecuteInv, CalibrateInv, InitDllInv, RetryInv, TryInv, TriedInv, ChangeDriveInv, RestoreInv,
     SelectInv, OutInv DEF TuningNext, Step

\* The invariant says what the runs check.
LEMMA TuningInvSays ==
  ASSUME MaxPhasesAssumption, TuningInv
  PROVE  ChosenPhaseWorks /\ StrengthRestored /\ SelectsTuned
<1>1. ChosenPhaseWorks
  BY DEF TuningInv, PassedDelivered, Trustworthy, ChosenPhaseWorks, SettledPhaseWorks, Succeeded
<1>2. StrengthRestored
  BY DEF TuningInv, StrengthKnown, Dependable, StrengthRestored
<1>3. SelectsTuned
  BY PhaseFromTuned DEF TuningInv, TriedArePhases, SelectsTuned
<1>. QED
  BY <1>1, <1>2, <1>3

\* Whatever the delay line, the card and the switches do, a tuning that succeeds leaves a phase at
\* which the card's block arrived in the last trial, when no error passes for a success and the
\* delay line answers; it leaves the default driver strength when switches succeed; and what it
\* selects is in a longest window (sdhci_msm_execute_tuning, mmc_set_drv_type).
THEOREM TuningIsTrue ==
  ASSUME MaxPhasesAssumption
  PROVE  TuningSpec => [](ChosenPhaseWorks /\ StrengthRestored /\ SelectsTuned)
<1>1. TuningInit => TuningInv
  BY TuningInvInit
<1>2. TuningInv /\ [TuningNext]_tuningVars => TuningInv'
  BY TuningInvStep
<1>3. TuningInv => ChosenPhaseWorks /\ StrengthRestored /\ SelectsTuned
  BY TuningInvSays
<1>. QED
  BY <1>1, <1>2, <1>3, PTL DEF TuningSpec

-----------------------------------------------------------------------------
(* Block I/O.                                                               *)

\* No standard capacity SD card, which the driver would address in blocks; no single block
\* whose transfer fails after its response, which mmc_sdhci_read and mmc_sdhci_write report as
\* a success; no request whose bytes do not fit a UINT32; and no card whose last byte address
\* does not fit a command's argument.
Sound ==
  /\ ParametersAssumption
  /\ "stdSD" \notin CardTypes /\ ~SingleDataErrors
  /\ MaxBlocks < LenMod /\ (LastBlock + 1) * BlockSize <= ArgMod

Types ==
  /\ type \in CardTypes /\ medium \in [Blocks -> Values]
  /\ req \in [id : 0..MaxRequests, op : {"read", "write"}, lba : 0..(LastBlock + 1),
              n : 0..MaxBlocks, fault : Faults]
  /\ pc \in {"idle", "checks", "command", "stop", "return"} /\ rc \in {0, 1}
  /\ addr \in Nat /\ left \in Nat /\ sptr \in Nat
  /\ pc # "idle" => buffer \in [0..(req.n - 1) -> Values]

\* A request is pending from Submit to its return.
PendingInv == pc # "idle" <=> status = "pending"

\* What of the request is done, and what is left, and that it may be done at all.
RangeInv == pc \in {"command", "stop"} =>
  /\ left > 0 /\ addr = req.lba + sptr /\ sptr + left = req.n
  /\ req.lba + req.n <= LastBlock + 1
  /\ req.op = "write" => ~Shielded

\* The first k blocks of the request have been moved.
DoneUpTo(k) ==
  \A i \in 0..(k - 1) :
    /\ req.lba + i \in Blocks
    /\ medium[req.lba + i] = IF req.op = "read" THEN buffer[i] ELSE Payload(req, i)

ProgressInv ==
  /\ pc \in {"command", "stop"} => DoneUpTo(sptr)
  /\ pc = "return" /\ rc = 0 => DoneUpTo(req.n)
  /\ pc = "idle" /\ status = "success" => DoneUpTo(req.n)

IInv == Types /\ PendingInv /\ RangeInv /\ ProgressInv /\ ProtectedKept

-----------------------------------------------------------------------------
(* Addresses.                                                               *)

LEMMA ModSmall ==
  ASSUME NEW m \in Nat \ {0}, NEW x \in 0..(m - 1)
  PROVE  x % m = x
OBVIOUS

LEMMA TimesDiv ==
  ASSUME NEW m \in Nat \ {0}, NEW x \in Nat
  PROVE  (x * m) \div m = x
OBVIOUS

LEMMA TimesBelow ==
  ASSUME NEW m \in Nat \ {0}, NEW x \in Nat, NEW y \in Nat, x < y
  PROVE  x * m < y * m
OBVIOUS

LEMMA BelowTimes ==
  ASSUME NEW m \in Nat \ {0}, NEW x \in Nat
  PROVE  x <= x * m
OBVIOUS

\* The card starts where the driver's data_addr says.
LEMMA StartIsAddr ==
  ASSUME Sound, Types, addr <= LastBlock
  PROVE  Start = addr
<1>. DEFINE A == IF ByteMode THEN addr * BlockSize ELSE addr
<1>1. addr * BlockSize < (LastBlock + 1) * BlockSize
  BY TimesBelow DEF Sound, ParametersAssumption, Types
<1>2. A \in 0..(ArgMod - 1)
  <2>1. addr <= addr * BlockSize
    BY BelowTimes DEF Sound, ParametersAssumption, Types
  <2>2. addr * BlockSize \in Nat /\ (LastBlock + 1) * BlockSize \in Nat
    BY DEF Sound, ParametersAssumption, Types
  <2>. QED
    BY <1>1, <2>1, <2>2 DEF Sound, ParametersAssumption, Types
<1>3. Argument = A
  <2>. HIDE DEF A
  <2>1. A % ArgMod = A
    BY <1>2, ModSmall DEF Sound, ParametersAssumption
  <2>. QED
    BY <2>1 DEF Argument, A
<1>4. CASE type = "stdMMC"
  <2>1. (addr * BlockSize) \div BlockSize = addr
    BY TimesDiv DEF Sound, ParametersAssumption, Types
  <2>. QED
    BY <1>3, <1>4, <2>1 DEF Start, CountsBytes, ByteMode
<1>5. CASE type # "stdMMC"
  BY <1>3, <1>5 DEF Start, CountsBytes, ByteMode, Sound, Types
<1>. QED
  BY <1>4, <1>5

\* A chunk is a part of what is left, and the count register holds it.
LEMMA ChunkFits ==
  ASSUME Sound, Types, RangeInv, pc \in {"command", "stop"}
  PROVE  Chunk \in 1..left /\ Chunk % CountMod = Chunk
<1>1. Chunk \in 1..left /\ Chunk \in 0..(CountMod - 1)
  BY DEF Sound, ParametersAssumption, Types, RangeInv, Chunk, MaxTrans
<1>. QED
  BY <1>1, ModSmall DEF Sound, ParametersAssumption

-----------------------------------------------------------------------------
(* The data.                                                                *)

\* Moving k blocks of a chunk is a move of the block device.
LEMMA MovedIsMove ==
  ASSUME Sound, IInv, pc = "command", NEW k \in 0..Chunk, NEW broken \in BOOLEAN,
         Moved(k, broken), UNCHANGED <<req, status>>
  PROVE  /\ Device!Move
         /\ medium' \in [Blocks -> Values] /\ buffer' \in [0..(req.n - 1) -> Values]
         /\ ProtectedKept'
         /\ sptr' = sptr => DoneUpTo(sptr)'
         /\ k = Chunk => \A i \in 0..(sptr + Chunk - 1) :
              /\ req.lba + i \in Blocks
              /\ medium'[req.lba + i] = IF req.op = "read" THEN buffer'[i] ELSE Payload(req, i)
<1>0. /\ Start = req.lba + sptr /\ sptr + left = req.n
      /\ Chunk \in 1..left /\ req.lba + req.n <= LastBlock + 1
      /\ req.lba \in Nat /\ req.n \in 0..MaxBlocks /\ sptr \in Nat /\ left \in Nat
      /\ LastBlock \in Nat /\ MaxBlocks \in Nat
  <2>1. addr = req.lba + sptr /\ addr <= LastBlock
    BY DEF IInv, RangeInv, Types, Sound, ParametersAssumption
  <2>2. Start = addr /\ Chunk \in 1..left
    BY <2>1, StartIsAddr, ChunkFits DEF IInv
  <2>. QED
    BY <2>1, <2>2 DEF IInv, RangeInv, Types, Sound, ParametersAssumption
<1>1. /\ req.op \in {"read", "write"} /\ (req.op = "write" => ~Shielded)
      /\ medium \in [Blocks -> Values] /\ buffer \in [0..(req.n - 1) -> Values]
      /\ req.id \in 0..MaxRequests /\ status = "pending"
  BY DEF IInv, RangeInv, Types, PendingInv
<1>2. \A i \in 0..(req.n - 1) : req.lba + i \in Blocks
  BY <1>0 DEF Blocks
<1>3. \A i \in 0..(sptr - 1) :
        medium[req.lba + i] = IF req.op = "read" THEN buffer[i] ELSE Payload(req, i)
  BY DEF IInv, ProgressInv, DoneUpTo
<1>4. CASE req.op = "write"
  <2>1. /\ medium' = [b \in Blocks |-> IF b >= Start /\ b < Start + k
                                       THEN Payload(req, sptr + (b - Start)) ELSE medium[b]]
        /\ buffer' = buffer
    BY <1>4 DEF Moved
  <2>2. ASSUME NEW b \in Blocks
        PROVE  \/ b >= Start /\ b < Start + k /\ medium'[b] = Payload(req, b - req.lba)
               \/ ~(b >= Start /\ b < Start + k) /\ medium'[b] = medium[b]
    <3>1. sptr + (b - Start) = b - req.lba
      BY <1>0 DEF Blocks
    <3>. QED
      BY <2>1, <3>1
  <2>3. ASSUME NEW b \in Blocks, b >= Start, b < Start + k
        PROVE  /\ b >= req.lba /\ b < req.lba + req.n /\ b \notin ReadOnly
               /\ Payload(req, b - req.lba) \in Values
    <3>1. b >= req.lba /\ b < req.lba + req.n
      BY <1>0, <2>3 DEF Blocks
    <3>2. b \notin ReadOnly
      BY <1>0, <1>1, <1>4, <3>1 DEF ReadOnly, Shielded, Blocks, Sound, ParametersAssumption
    <3>3. b - req.lba \in 0..(LastBlock + MaxBlocks)
      BY <1>0, <3>1 DEF Blocks
    <3>. QED
      BY <1>1, <3>1, <3>2, <3>3 DEF Payload, Values
  <2>4. medium' \in [Blocks -> Values]
    <3>1. \A b \in Blocks : medium'[b] \in Values
      BY <1>1, <2>2, <2>3
    <3>. QED
      BY <2>1, <3>1
  <2>5. ProtectedKept'
    BY <2>2, <2>3 DEF IInv, ProtectedKept, ReadOnly
  <2>6. Device!Move
    <3>1. DOMAIN medium' = Blocks
      BY <2>4
    <3>2. \A b \in Blocks : \/ medium'[b] = medium[b]
                            \/ /\ b >= req.lba /\ b < req.lba + req.n /\ b \notin ReadOnly
                               /\ medium'[b] = Payload(req, b - req.lba)
      BY <2>2, <2>3
    <3>. QED
      BY <1>1, <1>4, <2>1, <3>1, <3>2 DEF Device!Move, Device!Inside, Device!Payload, Payload
  <2>7. ASSUME NEW i \in 0..(sptr - 1) PROVE medium'[req.lba + i] = Payload(req, i)
    <3>1. req.lba + i \in Blocks /\ req.lba + i < Start
      BY <1>0 DEF Blocks
    <3>2. medium'[req.lba + i] = medium[req.lba + i]
      BY <1>0, <2>2, <3>1
    <3>. QED
      BY <1>3, <1>4, <3>2
  <2>8. ASSUME NEW i \in sptr..(sptr + Chunk - 1), k = Chunk
        PROVE  medium'[req.lba + i] = Payload(req, i)
    <3>0. i \in 0..(req.n - 1) /\ i >= sptr /\ i < sptr + k
      BY <1>0, <2>8
    <3>1. req.lba + i \in Blocks /\ req.lba + i >= Start /\ req.lba + i < Start + k
      BY <1>0, <1>2, <3>0
    <3>2. (req.lba + i) - req.lba = i
      BY <1>0, <3>0
    <3>. QED
      BY <2>2, <3>1, <3>2
  <2>. QED
    <3>1. \A i \in 0..(sptr - 1) : req.lba + i \in Blocks /\ medium'[req.lba + i] = Payload(req, i)
      BY <1>0, <1>2, <2>7
    <3>2. k = Chunk => \A i \in 0..(sptr + Chunk - 1) :
                         req.lba + i \in Blocks /\ medium'[req.lba + i] = Payload(req, i)
      BY <1>0, <1>2, <2>7, <2>8
    <3>. QED
      BY <1>1, <1>4, <2>1, <2>4, <2>5, <2>6, <3>1, <3>2 DEF DoneUpTo, Payload
<1>5. CASE req.op = "read"
  <2>1. /\ buffer' = [i \in DOMAIN buffer |->
                        IF i >= sptr /\ i < sptr + k THEN medium[Start + (i - sptr)]
                        ELSE IF broken /\ i = sptr + k THEN Junk ELSE buffer[i]]
        /\ medium' = medium
    BY <1>5 DEF Moved
  <2>2. ASSUME NEW i \in 0..(req.n - 1)
        PROVE  /\ i >= sptr /\ i < sptr + k => buffer'[i] = medium[req.lba + i]
               /\ i < sptr => buffer'[i] = buffer[i]
               /\ buffer'[i] \in Values
    <3>1. Start + (i - sptr) = req.lba + i /\ req.lba + i \in Blocks
      BY <1>0, <1>2
    <3>2. buffer'[i] = IF i >= sptr /\ i < sptr + k THEN medium[req.lba + i]
                       ELSE IF broken /\ i = sptr + k THEN Junk ELSE buffer[i]
      BY <1>1, <2>1, <3>1
    <3>3. Junk \in Values /\ medium[req.lba + i] \in Values /\ buffer[i] \in Values
      BY <1>1, <3>1 DEF Values
    <3>. QED
      BY <1>0, <3>2, <3>3
  <2>3. buffer' \in [0..(req.n - 1) -> Values]
    BY <1>1, <2>1, <2>2
  <2>4. ASSUME NEW i \in 0..(sptr - 1) PROVE medium'[req.lba + i] = buffer'[i]
    <3>1. i \in 0..(req.n - 1) /\ i < sptr
      BY <1>0
    <3>. QED
      BY <1>3, <1>5, <2>1, <2>2, <3>1
  <2>5. ASSUME NEW i \in sptr..(sptr + Chunk - 1), k = Chunk
        PROVE  medium'[req.lba + i] = buffer'[i]
    <3>1. i \in 0..(req.n - 1) /\ i >= sptr /\ i < sptr + k
      BY <1>0, <2>5
    <3>. QED
      BY <2>1, <2>2, <3>1
  <2>6. Device!Move
    BY <1>1, <1>5, <2>1, <2>3 DEF Device!Move
  <2>. QED
    <3>1. \A i \in 0..(sptr - 1) : req.lba + i \in Blocks /\ medium'[req.lba + i] = buffer'[i]
      BY <1>0, <1>2, <2>4
    <3>2. k = Chunk => \A i \in 0..(sptr + Chunk - 1) :
                         req.lba + i \in Blocks /\ medium'[req.lba + i] = buffer'[i]
      BY <1>0, <1>2, <2>4, <2>5
    <3>. QED
      BY <1>1, <1>5, <2>1, <2>3, <2>6, <3>1, <3>2 DEF DoneUpTo, IInv, ProtectedKept
<1>. QED
  BY <1>1, <1>4, <1>5

-----------------------------------------------------------------------------
(* The inductive invariant, and the steps of the block device.              *)

LEMMA InvInit == ASSUME Sound, Init PROVE IInv
<1>1. medium \in [Blocks -> Values]
  BY DEF Sound, ParametersAssumption, Init, Values, Blocks
<1>2. Types
  BY <1>1 DEF Sound, ParametersAssumption, Init, Types, Faults
<1>3. ProtectedKept
  BY DEF Init, ProtectedKept, ReadOnly
<1>. QED
  BY <1>2, <1>3 DEF Init, IInv, PendingInv, RangeInv, ProgressInv, DoneUpTo

\* The end of a chunk in which k blocks of the request are in place.
LEMMA ChunkStep ==
  ASSUME Sound, IInv, pc \in {"command", "stop"}, NEW val \in {0, 1}, ChunkEnds(val),
         UNCHANGED <<type, req, status>>,
         medium' \in [Blocks -> Values], buffer' \in [0..(req.n - 1) -> Values], ProtectedKept',
         val = 0 => \A i \in 0..(sptr + Chunk - 1) :
                      /\ req.lba + i \in Blocks
                      /\ medium'[req.lba + i] =
                           IF req.op = "read" THEN buffer'[i] ELSE Payload(req, i)
  PROVE  IInv'
<1>1. /\ Chunk \in 1..left /\ addr = req.lba + sptr /\ sptr + left = req.n /\ left > 0
      /\ req.lba + req.n <= LastBlock + 1 /\ (req.op = "write" => ~Shielded)
      /\ req.lba \in Nat /\ req.n \in Nat /\ sptr \in Nat /\ left \in Nat /\ addr \in Nat
      /\ status = "pending"
  BY ChunkFits DEF IInv, RangeInv, Types, PendingInv
<1>2. CASE val = 0 /\ More
  <2>1. /\ addr' = addr + Chunk /\ sptr' = sptr + Chunk /\ left' = left - Chunk /\ left > Chunk
        /\ pc' = "command" /\ rc' = rc
    BY <1>2 DEF ChunkEnds, Advanced, More
  <2>2. Types'
    <3>1. PICK chunk \in Nat : chunk = Chunk
      BY <1>1
    <3>2. addr' = addr + chunk /\ sptr' = sptr + chunk /\ left' = left - chunk /\ left > chunk
      BY ONLY <2>1, <3>1
    <3>3. addr' \in Nat /\ left' \in Nat /\ sptr' \in Nat
      BY ONLY <1>1, <3>2, chunk \in Nat
    <3>. QED
      BY <2>1, <3>3 DEF IInv, Types
  <2>3. RangeInv'
    BY <1>1, <2>1 DEF RangeInv, Shielded
  <2>4. ProgressInv'
    <3>1. sptr' - 1 = sptr + Chunk - 1
      BY <1>1, <2>1
    <3>2. \A i \in 0..(sptr' - 1) :
            /\ req.lba + i \in Blocks
            /\ medium'[req.lba + i] = IF req.op = "read" THEN buffer'[i] ELSE Payload(req, i)
      BY <1>2, <3>1
    <3>3. DoneUpTo(sptr)'
      BY <3>2 DEF DoneUpTo, Payload, Blocks
    <3>. QED
      BY <2>1, <3>3 DEF ProgressInv
  <2>. QED
    BY <1>1, <2>1, <2>2, <2>3, <2>4 DEF IInv, PendingInv
<1>3. CASE ~(val = 0 /\ More)
  <2>1. pc' = "return" /\ rc' = val /\ UNCHANGED <<addr, sptr, left>>
    BY <1>3 DEF ChunkEnds
  <2>2. Types'
    BY <2>1 DEF IInv, Types
  <2>3. rc' = 0 => sptr + Chunk = req.n
    <3>1. PICK chunk \in 1..left : chunk = Chunk
      BY <1>1
    <3>2. rc' = 0 => ~(left > chunk)
      BY <1>3, <2>1, <3>1 DEF More
    <3>3. sptr + left = req.n /\ sptr \in Nat /\ left \in Nat
      BY ONLY <1>1
    <3>4. rc' = 0 => sptr + chunk = req.n
      BY ONLY <3>2, <3>3, chunk \in 1..left
    <3>. QED
      BY ONLY <3>1, <3>4
  <2>4. ProgressInv'
    <3>1. SUFFICES ASSUME rc' = 0 PROVE DoneUpTo(req.n)'
      BY <2>1 DEF ProgressInv
    <3>2. val = 0 /\ req.n - 1 = sptr + Chunk - 1
      BY <1>1, <2>1, <2>3, <3>1
    <3>3. \A i \in 0..(req.n - 1) :
            /\ req.lba + i \in Blocks
            /\ medium'[req.lba + i] = IF req.op = "read" THEN buffer'[i] ELSE Payload(req, i)
      BY <3>2
    <3>. QED
      BY <3>3 DEF DoneUpTo, Payload, Blocks
  <2>. QED
    BY <1>1, <2>1, <2>2, <2>4 DEF IInv, PendingInv, RangeInv
<1>. QED
  BY <1>2, <1>3

\* A command that fails leads to the stop command or to the request's end.
LEMMA FailStep ==
  ASSUME Sound, IInv, pc = "command", NEW resp, ParseResponse(resp) = 1 \/ Chunk > 1,
         CommandFails(resp), UNCHANGED <<type, req, status>>,
         medium' \in [Blocks -> Values], buffer' \in [0..(req.n - 1) -> Values], ProtectedKept',
         sptr' = sptr => DoneUpTo(sptr)'
  PROVE  IInv'
<1>1. CASE Chunk > 1
  <2>1. pc' = "stop" /\ UNCHANGED <<rc, addr, left, sptr>>
    BY <1>1 DEF CommandFails
  <2>2. Types'
    BY <2>1 DEF IInv, Types
  <2>3. RangeInv'
    BY <2>1 DEF IInv, RangeInv, Shielded
  <2>. QED
    BY <2>1, <2>2, <2>3 DEF IInv, PendingInv, ProgressInv
<1>2. CASE ~(Chunk > 1)
  <2>1. ParseResponse(resp) = 1 /\ ChunkEnds(ParseResponse(resp))
    BY <1>2 DEF CommandFails
  <2>2. ChunkEnds(1)
    BY <2>1, Zenon
  <2>. QED
    BY <2>2, ChunkStep
<1>. QED
  BY <1>1, <1>2

Moves == Device!Next \/ UNCHANGED Device!vars

LEMMA Steps ==
  ASSUME Sound, IInv, [Next]_vars
  PROVE  IInv' /\ Moves
<1>. USE DEF Device!vars
<1>1. ASSUME NEW r \in Requests, Submit(r) PROVE IInv' /\ Moves
  <2>1. buffer' = [i \in 0..(r.n - 1) |-> Fresh] /\ Fresh \in Values
    BY <1>1 DEF Submit, Values
  <2>2. Types'
    BY <1>1, <2>1 DEF Submit, IInv, Types, Requests
  <2>3. RangeInv' /\ ProgressInv' /\ PendingInv' /\ ProtectedKept'
    BY <1>1 DEF Submit, IInv, RangeInv, ProgressInv, PendingInv, ProtectedKept
  <2>4. Device!Submit
    BY <1>1, <2>1 DEF Submit, IInv, PendingInv, Device!Submit, Device!Buffer, Device!Fresh, Fresh
  <2>. QED
    BY <2>2, <2>3, <2>4 DEF IInv, Moves, Device!Next
<1>2. CASE Checks
  <2>1. /\ pc = "checks" /\ status' = Checked /\ status = "pending"
        /\ UNCHANGED <<type, medium, buffer, req, card>>
    BY <1>2 DEF Checks, IInv, PendingInv
  <2>2. CASE Checked = "pending"
    <3>1. /\ addr' = req.lba /\ left' = req.n % LenMod /\ sptr' = 0 /\ rc' = 0
          /\ pc' = IF left' = 0 THEN "return" ELSE "command"
      BY <1>2, <2>2 DEF Checks
    <3>2. /\ req.n # 0 /\ req.lba + req.n <= LastBlock + 1 /\ (req.op = "write" => ~Shielded)
      BY <2>2 DEF Checked, Beyond, IInv, Types, Sound, ParametersAssumption
    <3>3. req.n % LenMod = req.n
      BY ModSmall DEF IInv, Types, Sound, ParametersAssumption
    <3>4. left' = req.n /\ pc' = "command"
      BY <3>1, <3>2, <3>3
    <3>5. Types'
      BY <2>1, <3>1, <3>4 DEF IInv, Types
    <3>6. RangeInv'
      BY <2>1, <3>1, <3>2, <3>4 DEF IInv, Types, RangeInv, Shielded
    <3>7. ProgressInv' /\ PendingInv' /\ ProtectedKept'
      BY <2>1, <2>2, <3>1, <3>4 DEF IInv, ProgressInv, DoneUpTo, PendingInv, ProtectedKept
    <3>. QED
      BY <2>1, <2>2, <3>5, <3>6, <3>7 DEF IInv, Moves
  <2>3. CASE Checked # "pending"
    <3>1. pc' = "idle" /\ UNCHANGED <<rc, addr, left, sptr>>
      BY <1>2, <2>3 DEF Checks
    <3>2. Checked = "success" => req.n = 0
      BY DEF Checked
    <3>3. Checked \in {"success", "invalid", "unsupported", "media_changed", "bad_size"}
      BY <2>3 DEF Checked
    <3>4. Types' /\ RangeInv' /\ PendingInv' /\ ProtectedKept'
      BY <2>1, <2>3, <3>1 DEF IInv, Types, RangeInv, PendingInv, ProtectedKept
    <3>5. ProgressInv'
      BY <2>1, <3>1, <3>2 DEF ProgressInv, DoneUpTo
    <3>6. Device!Finish
      BY <2>1, <3>2, <3>3 DEF Device!Finish, Device!Transferred
    <3>. QED
      BY <3>4, <3>5, <3>6 DEF IInv, Moves, Device!Next
  <2>. QED
    BY <2>2, <2>3
<1>3. CASE Return
  <2>1. /\ pc = "return" /\ pc' = "idle" /\ status = "pending"
        /\ status' = IF rc = 0 THEN "success" ELSE "device_error"
        /\ UNCHANGED <<type, medium, buffer, req, rc, addr, left, sptr, card>>
    BY <1>3 DEF Return, IInv, PendingInv
  <2>2. Types' /\ RangeInv' /\ PendingInv' /\ ProtectedKept'
    BY <2>1 DEF IInv, Types, RangeInv, PendingInv, ProtectedKept
  <2>3. ProgressInv'
    BY <2>1 DEF IInv, ProgressInv, DoneUpTo, Payload
  <2>4. Device!Finish
    BY <2>1 DEF IInv, ProgressInv, DoneUpTo, Payload, Device!Finish, Device!Transferred,
                Device!Payload
  <2>. QED
    BY <2>2, <2>3, <2>4 DEF IInv, Moves, Device!Next
<1>4. ASSUME SendLost \/ SendResponseLost \/ SendRefused PROVE IInv' /\ Moves
  <2>1. /\ pc = "command" /\ UNCHANGED <<type, medium, buffer, req, status>>
        /\ \E resp \in {NoResponse, R1("tran", TRUE)} : CommandFails(resp)
    BY <1>4 DEF SendLost, SendResponseLost, SendRefused
  <2>2. PICK resp \in {NoResponse, R1("tran", TRUE)} : CommandFails(resp)
    BY <2>1
  <2>3. ParseResponse(resp) = 1
    BY DEF NoResponse, R1, ParseResponse, Parses
  <2>4. medium' \in [Blocks -> Values] /\ buffer' \in [0..(req.n - 1) -> Values] /\ ProtectedKept'
    BY <2>1 DEF IInv, Types, ProtectedKept
  <2>5. sptr' = sptr => DoneUpTo(sptr)'
    BY <2>1 DEF IInv, ProgressInv, DoneUpTo, Payload
  <2>. QED
    BY <2>1, <2>2, <2>3, <2>4, <2>5, FailStep DEF Moves
<1>5. CASE SendBreaksOff
  <2>1. pc = "command" /\ UNCHANGED <<type, req, status>> /\ Chunk # 1
        /\ CommandFails(R1("tran", FALSE))
    BY <1>5 DEF SendBreaksOff, Sound
  <2>2. PICK k \in 0..Chunk : Moved(k, TRUE)
    BY <1>5 DEF SendBreaksOff
  <2>3. Chunk > 1
    BY <2>1, ChunkFits DEF IInv, Types
  <2>4. /\ Device!Move /\ ProtectedKept' /\ (sptr' = sptr => DoneUpTo(sptr)')
        /\ medium' \in [Blocks -> Values] /\ buffer' \in [0..(req.n - 1) -> Values]
    BY <2>1, <2>2, MovedIsMove
  <2>. QED
    BY <2>1, <2>3, <2>4, FailStep DEF Moves, Device!Next
<1>6. CASE SendCompletes
  <2>1. pc = "command" /\ UNCHANGED <<type, req, status>> /\ Moved(Chunk % CountMod, FALSE)
        /\ ChunkEnds(ParseResponse(R1("tran", FALSE)))
    BY <1>6 DEF SendCompletes
  <2>2. ParseResponse(R1("tran", FALSE)) = 0
    BY DEF R1, ParseResponse, Parses
  <2>3. Chunk % CountMod = Chunk /\ Chunk \in 0..Chunk
    BY <2>1, ChunkFits DEF IInv, Types
  <2>4. Moved(Chunk, FALSE) /\ ChunkEnds(0)
    BY <2>1, <2>2, <2>3, Zenon
  <2>5. /\ Device!Move /\ ProtectedKept'
        /\ medium' \in [Blocks -> Values] /\ buffer' \in [0..(req.n - 1) -> Values]
        /\ \A i \in 0..(sptr + Chunk - 1) :
             /\ req.lba + i \in Blocks
             /\ medium'[req.lba + i] = IF req.op = "read" THEN buffer'[i] ELSE Payload(req, i)
    BY <2>1, <2>3, <2>4, MovedIsMove
  <2>. QED
    BY <2>1, <2>4, <2>5, ChunkStep DEF Moves, Device!Next
<1>7. CASE Stop
  <2>1. pc = "stop" /\ UNCHANGED <<type, medium, buffer, req, status>> /\ ChunkEnds(1)
    BY <1>7 DEF Stop, StopAnswered, StopLost, R1, ParseResponse, Parses
  <2>2. medium' \in [Blocks -> Values] /\ buffer' \in [0..(req.n - 1) -> Values] /\ ProtectedKept'
    BY <2>1 DEF IInv, Types, ProtectedKept
  <2>. QED
    BY <2>1, <2>2, ChunkStep DEF Moves
<1>8. CASE CardSettles
  BY <1>8 DEF CardSettles, IInv, Types, PendingInv, RangeInv, Shielded, ProgressInv, DoneUpTo,
         Payload, ProtectedKept, Moves
<1>9. CASE UNCHANGED vars
  BY <1>9 DEF vars, IInv, Types, PendingInv, RangeInv, Shielded, ProgressInv, DoneUpTo, Payload,
         ProtectedKept, Moves
<1>. QED
  BY <1>1, <1>2, <1>3, <1>4, <1>5, <1>6, <1>7, <1>8, <1>9 DEF Next, Send

LEMMA Invariance == ASSUME Sound PROVE Spec => []IInv
<1>1. Init => IInv
  BY InvInit
<1>2. IInv /\ [Next]_vars => IInv'
  BY Steps
<1>. QED
  BY <1>1, <1>2, PTL DEF Spec

-----------------------------------------------------------------------------
(* What follows from it.                                                    *)

\* Whatever the card does and whatever is asked, the protected blocks at its start never
\* change (MMCHSWriteBlocks; mmc_sdhci_write).
THEOREM ProtectedStays == ASSUME Sound PROVE Spec => []ProtectedKept
<1>1. IInv => ProtectedKept
  BY DEF IInv
<1>. QED
  BY <1>1, Invariance, PTL

\* A request reported as a success has moved all of its blocks, however often mmc_read or
\* mmc_write cut it.
THEOREM SuccessesAreReal == ASSUME Sound PROVE Spec => []SuccessIsReal
<1>1. IInv => SuccessIsReal
  BY DEF IInv, ProgressInv, DoneUpTo, Payload, SuccessIsReal, Device!Transferred, Device!Payload
<1>. QED
  BY <1>1, Invariance, PTL

\* Block I/O implements the block device: only a request's own blocks are touched, whatever the
\* card answers, loses or breaks off (MMCHS.c, mmc_sdhci_read, mmc_sdhci_write).
THEOREM BlockDeviceImplemented == ASSUME Sound PROVE Spec => ImplementsBlockDevice
<1>1. Init => Device!Init
  BY DEF Init, Device!Init
<1>2. IInv /\ [Next]_vars => [Device!Next]_<<medium, buffer, req, status>>
  BY Steps DEF Moves, Device!vars
<1>. QED
  BY <1>1, <1>2, Invariance, PTL DEF Spec, ImplementsBlockDevice, Device!Spec, Device!vars
=============================================================================
