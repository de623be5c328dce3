----------------------------- MODULE LossyQueue -----------------------------
(***************************************************************************)
(* What an EFI_KEY_QUEUE promises: the keys come out in the order they     *)
(* went in, and a key is lost only when Capacity newer ones are waiting.   *)
(***************************************************************************)
EXTENDS Integers, Sequences

CONSTANTS
  Capacity,
  Batches,      \* sequences of keys, each with its number n, that a step may bring
  Skippable(_)  \* keys a reader may be spared

VARIABLES
  contents,
  arrived,  \* number of the last key that came
  epoch     \* changes with every Clear, so that nothing else can pass for one

vars == <<contents, arrived, epoch>>

Newest(s) == SubSeq(s, IF Len(s) > Capacity THEN Len(s) - Capacity + 1 ELSE 1, Len(s))

Init == contents = <<>> /\ arrived = 0 /\ epoch = FALSE

\* A reader polls the device before it takes the oldest key, or is spared some.
Left(all) ==
  {all} \cup {SubSeq(all, 2, Len(all))}
        \cup {SubSeq(all, n + 1, Len(all)) : n \in {m \in DOMAIN all : \A i \in 1..m : Skippable(all[i])}}

Accept ==
  /\ arrived' >= arrived
  /\ \E keys \in Batches :
       /\ \A i \in DOMAIN keys : keys[i].n \in (arrived + 1)..arrived'
       /\ contents' \in Left(Newest(contents \o keys))
  /\ UNCHANGED epoch

Clear == contents' = <<>> /\ epoch' = ~epoch /\ UNCHANGED arrived

Next == Accept \/ Clear

Spec == Init /\ [][Next]_vars
=============================================================================
