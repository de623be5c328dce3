------------------------------ MODULE KeyQueue ------------------------------
(***************************************************************************)
(* EFI_KEY_QUEUE (Keypad.h) and its three operations (KeypadTextIn.c): a   *)
(* ring of MaxCount places of which one stays free, so that Head = Tail    *)
(* means empty.                                                            *)
(***************************************************************************)
EXTENDS Integers, Sequences

CONSTANT MaxCount  \* KEYPAD_EFI_KEY_MAX_COUNT

ASSUME MaxCountAssumption == MaxCount \in Nat /\ MaxCount > 1

Places == 0..(MaxCount - 1)

QueuesOf(Items) == [Head : Places, Tail : Places, Buffer : [Places -> Items]]

NewQueue(item) == [Head |-> 0, Tail |-> 0, Buffer |-> [i \in Places |-> item]]

NextPlaceMutant(i) == i + 1
NextPlace(i) == (i + 1) % MaxCount

IsEfikeyBufEmpty(q) == q.Head = q.Tail

\* The key PopEfikeyBufHead copies out of a queue that is not empty.
HeadKey(q) == q.Buffer[q.Head]

PopEfikeyBufHead(q) == IF IsEfikeyBufEmpty(q) THEN q ELSE [q EXCEPT !.Head = NextPlace(q.Head)]

IsFullMutant(q) == FALSE
IsFull(q) == NextPlace(q.Tail) = q.Head

PushEfikeyBufTail(q, key) ==
  LET room == IF IsFull(q) THEN PopEfikeyBufHead(q) ELSE q
  IN  [room EXCEPT !.Buffer[q.Tail] = key, !.Tail = NextPlace(q.Tail)]

\* InitKeypad empties a queue and leaves its buffer alone.
Cleared(q) == [q EXCEPT !.Head = 0, !.Tail = 0]

-----------------------------------------------------------------------------
\* How many keys are waiting, and which, the oldest first.
Waiting(q)  == (q.Tail - q.Head) % MaxCount
Contents(q) == [i \in 1..Waiting(q) |-> q.Buffer[(q.Head + i - 1) % MaxCount]]
=============================================================================
