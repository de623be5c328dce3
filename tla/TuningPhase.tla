---------------------------- MODULE TuningPhase -----------------------------
(***************************************************************************)
(* sdhci_msm_find_appropriate_phase (sdhci_msm.c): which of the phases     *)
(* that passed the tuning is configured.  The passed phases are broken     *)
(* into rows of consecutive numbers; since the phases form a ring, the     *)
(* last row is continued by the first when they touch; the phase at three  *)
(* quarters of the longest row is selected.                                *)
(***************************************************************************)
EXTENDS Integers, FiniteSetsExt

CONSTANT MaxPhases      \* MAX_PHASES

MaxPhasesAssumption == MaxPhases \in Nat \ {0}

Phases == 0..(MaxPhases - 1)

\* The rows, each by its first phase, and how many phases each has at first.
Rows(T) == {p \in T : p - 1 \notin T}
RowLen(T, p) == Cardinality({q \in T : q >= p /\ \A x \in p..q : x \in T})

\* Phases 0 and MAX_PHASES - 1 both passed, but not all of them: the last
\* row takes over the first.
FoundLoopMutant(T) == FALSE
FoundLoop(T) == 0 \in T /\ MaxPhases - 1 \in T /\ T # Phases

PhasesPerRow(T, p) ==
  IF ~FoundLoop(T) THEN RowLen(T, p)
  ELSE IF p = 0 THEN 0
  ELSE IF p + RowLen(T, p) = MaxPhases THEN RowLen(T, p) + RowLen(T, 0)
  ELSE RowLen(T, p)

\* The first of the longest rows.
MaxRow(T) == Min({p \in Rows(T) : \A q \in Rows(T) : PhasesPerRow(T, q) <= PhasesPerRow(T, p)})

\* Three quarters of the row, as an index that starts at 0.
Index34(n) == LET i == (n * 3) \div 4 IN IF i = 0 THEN 0 ELSE i - 1

FindPhase(T) == (MaxRow(T) + Index34(PhasesPerRow(T, MaxRow(T)))) % MaxPhases

-----------------------------------------------------------------------------
(* What it is for *)

\* n phases of the ring from p on have all passed.
Window(T, p, n) == n <= MaxPhases /\ \A i \in 0..(n - 1) : (p + i) % MaxPhases \in T

\* The longest window of passed phases that contains a phase of T.
Longest(T) == Max({n \in 1..MaxPhases : \E p \in Phases : Window(T, p, n)})

\* The phase selected of the set T of passed phases passed, and sits in a longest
\* window of the ring with a quarter of it to spare behind and the rest before.
Selects(T) ==
  LET s == FindPhase(T)
      n == Longest(T)
      i == Index34(n)
  IN s \in T /\ Window(T, (s - i) % MaxPhases, n)
=============================================================================
