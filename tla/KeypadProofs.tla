---------------------------- MODULE KeypadProofs ----------------------------
(***************************************************************************)
(* Theorems about the keypad's text-input driver, for every size of the    *)
(* queues, every set of keys, registrations and notification functions and *)
(* every number of strokes: the walk over the notifications stays on live  *)
(* ones, the reading queue is a LossyQueue, and a key WaitForKey reported  *)
(* is there to be read.                                                    *)
(*                                                                         *)
(* First the ring and its two operations; then what a whole batch of       *)
(* pushes does to it, by induction from the least element of a set of      *)
(* naturals; then one lemma per step.                                      *)
(***************************************************************************)
EXTENDS KeypadTextIn, WellFoundedInduction, FiniteSetTheorems, TLAPS

-----------------------------------------------------------------------------
(* The ring of KeyQueue.                                                    *)

\* Going once round the ring, forwards and backwards.
LEMMA ModOnce ==
  ASSUME NEW M \in Nat \ {0}, NEW x \in 0..(2 * M - 1)
  PROVE  /\ x < M => x % M = x
         /\ ~(x < M) => x % M = x - M
  OBVIOUS

LEMMA ModNegative ==
  ASSUME NEW M \in Nat \ {0}, NEW x \in 1..(M - 1)
  PROVE  (-x) % M = M - x
  OBVIOUS

LEMMA MaxCountPositive == MaxCount \in Nat \ {0}
  BY MaxCountAssumption

LEMMA RingStep ==
  \A x \in 0..(2 * MaxCount - 1) : x % MaxCount = IF x < MaxCount THEN x ELSE x - MaxCount
  BY ModOnce, MaxCountPositive

\* The place after one of the ring's.
LEMMA NextPlaceValue ==
  ASSUME NEW i \in Places
  PROVE  NextPlace(i) = IF i = MaxCount - 1 THEN 0 ELSE i + 1
  <1> DEFINE x == i + 1
  <1>1. x \in 0..(2 * MaxCount - 1) BY MaxCountAssumption DEF Places
  <1>2. NextPlace(i) = x % MaxCount BY DEF NextPlace
  <1> HIDE DEF x
  <1>3. NextPlace(i) = IF x < MaxCount THEN x ELSE x - MaxCount BY <1>1, <1>2, RingStep
  <1> QED BY <1>3, MaxCountAssumption DEF Places, x

\* The number of keys waiting, without the modulus.
LEMMA WaitingValue ==
  ASSUME NEW Items, NEW q \in QueuesOf(Items)
  PROVE  Waiting(q) = IF q.Head <= q.Tail THEN q.Tail - q.Head ELSE MaxCount + q.Tail - q.Head
  <1> DEFINE d == q.Tail - q.Head
  <1>1. q.Head \in Places /\ q.Tail \in Places BY DEF QueuesOf
  <1>2. CASE q.Head <= q.Tail
    <2>1. d \in 0..(2 * MaxCount - 1) BY <1>1, <1>2, MaxCountAssumption DEF Places
    <2>2. (d < MaxCount => d % MaxCount = d) /\ (~(d < MaxCount) => d % MaxCount = d - MaxCount)
      BY <2>1, ModOnce, MaxCountPositive, Zenon
    <2> QED BY <2>2, <1>1, <1>2, MaxCountAssumption DEF Waiting, Places
  <1>3. CASE ~(q.Head <= q.Tail)
    <2>1. -d \in 1..(MaxCount - 1) BY <1>1, <1>3, MaxCountAssumption DEF Places
    <2>2. (-(-d)) % MaxCount = MaxCount - (-d) BY <2>1, ModNegative, MaxCountAssumption
    <2>3. -(-d) = d /\ MaxCount - (-d) = MaxCount + q.Tail - q.Head
      BY <1>1, MaxCountAssumption DEF Places
    <2> HIDE DEF d
    <2>4. d % MaxCount = MaxCount + q.Tail - q.Head BY <2>2, <2>3
    <2> QED BY <2>4, <1>3 DEF Waiting, d
  <1> QED BY <1>2, <1>3

\* The place of the i-th key waiting.
PlaceOf(q, i) == IF q.Head + i - 1 < MaxCount THEN q.Head + i - 1 ELSE q.Head + i - 1 - MaxCount

LEMMA ContentsValue ==
  ASSUME NEW Items, NEW q \in QueuesOf(Items)
  PROVE  /\ Waiting(q) \in 0..(MaxCount - 1)
         /\ Contents(q) \in Seq(Items)
         /\ Len(Contents(q)) = Waiting(q)
         /\ \A i \in 1..Waiting(q) : /\ PlaceOf(q, i) \in Places
                                     /\ Contents(q)[i] = q.Buffer[PlaceOf(q, i)]
  <1>1. q.Head \in Places /\ q.Tail \in Places /\ q.Buffer \in [Places -> Items] BY DEF QueuesOf
  <1>2. Waiting(q) \in 0..(MaxCount - 1) BY <1>1, WaitingValue, MaxCountAssumption DEF Places
  <1>3. ASSUME NEW i \in 1..Waiting(q)
        PROVE  (q.Head + i - 1) % MaxCount = PlaceOf(q, i) /\ PlaceOf(q, i) \in Places
    <2>1. q.Head + i - 1 \in 0..(2 * MaxCount - 1) BY <1>1, <1>2, MaxCountAssumption DEF Places
    <2> DEFINE x == q.Head + i - 1
    <2> HIDE DEF x
    <2>2. x % MaxCount = IF x < MaxCount THEN x ELSE x - MaxCount BY <2>1, RingStep DEF x
    <2>4. PlaceOf(q, i) = IF x < MaxCount THEN x ELSE x - MaxCount
      BY <1>1, <1>2, MaxCountAssumption DEF PlaceOf, Places, x
    <2>3. PlaceOf(q, i) \in Places BY <1>1, <1>2, MaxCountAssumption DEF Places, PlaceOf
    <2>5. x % MaxCount = PlaceOf(q, i) BY <2>2, <2>4
    <2> QED BY <2>3, <2>5, Zenon DEF x
  <1>4. \A i \in 1..Waiting(q) : Contents(q)[i] = q.Buffer[PlaceOf(q, i)] BY <1>3 DEF Contents
  <1>5. \A i \in 1..Waiting(q) : q.Buffer[(q.Head + i - 1) % MaxCount] \in Items BY <1>1, <1>3
  <1>6. Contents(q) \in [1..Waiting(q) -> Items] BY <1>5 DEF Contents
  <1>7. Contents(q) \in Seq(Items) /\ Len(Contents(q)) = Waiting(q)
    <2> HIDE DEF Contents, Waiting
    <2>1. Waiting(q) \in Nat BY <1>2, MaxCountAssumption
    <2> QED BY <1>6, <2>1
  <1> QED BY <1>2, <1>3, <1>4, <1>7

\* What PopEfikeyBufHead takes from a queue that is not empty is its oldest key, and it
\* leaves the others as they were (KeypadTextIn.c:41-55).
THEOREM PopTakesOldest ==
  ASSUME NEW Items, NEW q \in QueuesOf(Items), ~IsEfikeyBufEmpty(q)
  PROVE  /\ PopEfikeyBufHead(q) \in QueuesOf(Items)
         /\ Contents(q) # <<>>
         /\ HeadKey(q) = Head(Contents(q))
         /\ Contents(PopEfikeyBufHead(q)) = Tail(Contents(q))
  <1> DEFINE r == PopEfikeyBufHead(q)
  <1>1. q.Head \in Places /\ q.Tail \in Places /\ q.Head # q.Tail BY DEF QueuesOf, IsEfikeyBufEmpty
  <1>2. NextPlace(q.Head) \in Places /\ NextPlace(q.Head) = IF q.Head = MaxCount - 1 THEN 0 ELSE q.Head + 1
    BY <1>1, NextPlaceValue, MaxCountAssumption DEF Places
  <1>3. r = [q EXCEPT !.Head = NextPlace(q.Head)] BY DEF PopEfikeyBufHead
  <1>4. r \in QueuesOf(Items) /\ r.Head = NextPlace(q.Head) /\ r.Tail = q.Tail /\ r.Buffer = q.Buffer
    BY <1>2, <1>3 DEF QueuesOf
  <1>5. Waiting(q) > 0 /\ Waiting(r) = Waiting(q) - 1
    <2>1. Waiting(r) = IF r.Head <= r.Tail THEN r.Tail - r.Head ELSE MaxCount + r.Tail - r.Head
      BY <1>4, WaitingValue
    <2>2. Waiting(q) = IF q.Head <= q.Tail THEN q.Tail - q.Head ELSE MaxCount + q.Tail - q.Head
      BY WaitingValue
    <2>3. PICK h \in 0..(MaxCount - 1), t \in 0..(MaxCount - 1) : h = q.Head /\ t = q.Tail
      BY <1>1 DEF Places
    <2>4. PICK g \in 0..(MaxCount - 1) : g = r.Head /\ g = IF h = MaxCount - 1 THEN 0 ELSE h + 1
      BY <1>2, <1>4, <2>3 DEF Places
    <2>5. /\ Waiting(r) = IF g <= t THEN t - g ELSE MaxCount + t - g
          /\ Waiting(q) = IF h <= t THEN t - h ELSE MaxCount + t - h
          /\ h # t
      BY <1>1, <1>4, <2>1, <2>2, <2>3, <2>4, Zenon
    <2> HIDE DEF Waiting, r
    <2> QED BY ONLY <2>4, <2>5, MaxCountAssumption
  <1>6. HeadKey(q) = Contents(q)[1]
    BY <1>1, <1>5, ContentsValue, MaxCountAssumption DEF HeadKey, PlaceOf, Places
  <1>7. ASSUME NEW i \in 1..Waiting(r) PROVE Contents(r)[i] = Contents(q)[i + 1]
    <2>1. i + 1 \in 1..Waiting(q) BY <1>5, ContentsValue
    <2>2. Contents(q)[i + 1] = q.Buffer[PlaceOf(q, i + 1)] BY <2>1, ContentsValue
    <2>3. Contents(r)[i] = r.Buffer[PlaceOf(r, i)] BY <1>4, ContentsValue
    <2>4. Waiting(q) \in 0..(MaxCount - 1) BY ContentsValue
    <2>5. PlaceOf(r, i) = PlaceOf(q, i + 1)
      BY <1>1, <1>2, <1>4, <1>5, <2>1, <2>4, MaxCountAssumption DEF PlaceOf, Places
    <2> QED BY <1>4, <2>2, <2>3, <2>5
  <1>8. Contents(q) \in Seq(Items) /\ Len(Contents(q)) = Waiting(q) BY ContentsValue
  <1>9. Contents(r) \in Seq(Items) /\ Len(Contents(r)) = Waiting(r) BY <1>4, ContentsValue
  <1> HIDE DEF r
  <1>10. Contents(r) = Tail(Contents(q))
    <2>1. Tail(Contents(q)) \in Seq(Items) /\ Len(Tail(Contents(q))) = Waiting(q) - 1
      BY <1>5, <1>8
    <2>2. \A i \in 1..Waiting(r) : Tail(Contents(q))[i] = Contents(q)[i + 1] BY <1>5, <1>8
    <2> QED BY <1>5, <1>7, <1>9, <2>1, <2>2
  <1> QED BY <1>4, <1>5, <1>6, <1>8, <1>10 DEF r

\* PushEfikeyBufTail puts the key behind the others, and takes the oldest away when
\* MaxCount - 1 are waiting: one place always stays free (KeypadTextIn.c:63-73).
THEOREM PushKeepsNewest ==
  ASSUME NEW Items, NEW q \in QueuesOf(Items), NEW key \in Items
  PROVE  /\ PushEfikeyBufTail(q, key) \in QueuesOf(Items)
         /\ ~IsEfikeyBufEmpty(PushEfikeyBufTail(q, key))
         /\ Contents(PushEfikeyBufTail(q, key)) =
              IF Len(Contents(q)) = MaxCount - 1 THEN Append(Tail(Contents(q)), key)
                                                 ELSE Append(Contents(q), key)
  <1> DEFINE room == IF IsFull(q) THEN PopEfikeyBufHead(q) ELSE q
             r    == PushEfikeyBufTail(q, key)
  <1>1. q.Head \in Places /\ q.Tail \in Places BY DEF QueuesOf
  <1>2. NextPlace(q.Tail) = IF q.Tail = MaxCount - 1 THEN 0 ELSE q.Tail + 1 BY <1>1, NextPlaceValue
  <1>3. IsFull(q) <=> Waiting(q) = MaxCount - 1
    <2>1. Waiting(q) = IF q.Head <= q.Tail THEN q.Tail - q.Head ELSE MaxCount + q.Tail - q.Head
      BY WaitingValue
    <2> QED BY <1>1, <1>2, <2>1, MaxCountAssumption DEF IsFull, Places
  <1>4. IsFull(q) => ~IsEfikeyBufEmpty(q)
    BY <1>1, <1>2, MaxCountAssumption DEF IsFull, IsEfikeyBufEmpty, Places
  <1>5. room \in QueuesOf(Items) /\ room.Tail = q.Tail
    BY <1>4, PopTakesOldest DEF PopEfikeyBufHead, QueuesOf
  <1>6. Contents(room) = IF IsFull(q) THEN Tail(Contents(q)) ELSE Contents(q) BY <1>4, PopTakesOldest
  <1>7. Waiting(room) < MaxCount - 1
    <2>1. CASE IsFull(q)
      <3>1. Waiting(room) = Len(Contents(room)) BY <1>5, ContentsValue
      <3>2. Contents(q) \in Seq(Items) /\ Contents(q) # <<>> /\ Len(Contents(q)) = MaxCount - 1
        BY <2>1, <1>3, <1>4, PopTakesOldest, ContentsValue
      <3> QED BY <2>1, <1>6, <3>1, <3>2, MaxCountAssumption
    <2>2. CASE ~IsFull(q) BY <2>2, <1>3, ContentsValue, MaxCountAssumption
    <2> QED BY <2>1, <2>2
  <1> HIDE DEF room
  <1>8. r = [room EXCEPT !.Buffer = [room.Buffer EXCEPT ![q.Tail] = key], !.Tail = NextPlace(q.Tail)]
    BY DEF PushEfikeyBufTail, room
  <1>9. NextPlace(q.Tail) \in Places BY <1>1, <1>2, MaxCountAssumption DEF Places
  <1>10. room.Head \in Places /\ room.Tail \in Places /\ room.Buffer \in [Places -> Items]
    BY <1>5 DEF QueuesOf
  <1>11. /\ r \in QueuesOf(Items)
         /\ r.Head = room.Head /\ r.Tail = NextPlace(q.Tail)
         /\ r.Buffer = [room.Buffer EXCEPT ![q.Tail] = key]
    <2> DEFINE t == NextPlace(q.Tail)
               b == [room.Buffer EXCEPT ![q.Tail] = key]
    <2>1. b \in [Places -> Items] BY <1>10
    <2>2. t \in Places BY <1>9
    <2> HIDE DEF t, b
    <2>3. room \in [Head : Places, Tail : Places, Buffer : [Places -> Items]] BY <1>5 DEF QueuesOf
    <2>4. r = [room EXCEPT !.Buffer = b, !.Tail = t] BY <1>8 DEF t, b
    <2> HIDE DEF r, room
    <2>5. r \in [Head : Places, Tail : Places, Buffer : [Places -> Items]]
      BY <2>1, <2>2, <2>3, <2>4
    <2>6. r.Head = room.Head /\ r.Tail = t /\ r.Buffer = b BY <2>3, <2>4
    <2> QED BY <2>5, <2>6 DEF QueuesOf, t, b
  <1> HIDE DEF r
  <1>12. Waiting(r) = Waiting(room) + 1
    <2>1. Waiting(r) = IF r.Head <= r.Tail THEN r.Tail - r.Head ELSE MaxCount + r.Tail - r.Head
      BY <1>11, WaitingValue
    <2>2. Waiting(room) = IF room.Head <= room.Tail THEN room.Tail - room.Head
                          ELSE MaxCount + room.Tail - room.Head
      BY <1>5, WaitingValue
    <2>3. /\ r.Head = room.Head /\ room.Tail = q.Tail
          /\ r.Tail = IF room.Tail = MaxCount - 1 THEN 0 ELSE room.Tail + 1
      BY <1>2, <1>5, <1>11
    <2>4. room.Head \in 0..(MaxCount - 1) /\ room.Tail \in 0..(MaxCount - 1) BY <1>10 DEF Places
    <2> QED BY <1>7, <2>1, <2>2, <2>3, <2>4, MaxCountAssumption
  <1>13. Waiting(room) \in 0..(MaxCount - 1) /\ Contents(room) \in Seq(Items)
         /\ Len(Contents(room)) = Waiting(room)
    BY <1>5, ContentsValue
  <1>14. Contents(r) \in Seq(Items) /\ Len(Contents(r)) = Waiting(r) BY <1>11, ContentsValue
  <1>15. \A i \in 1..Waiting(room) : PlaceOf(r, i) = PlaceOf(room, i) /\ PlaceOf(room, i) # q.Tail
    <2>1. Waiting(room) = IF room.Head <= room.Tail THEN room.Tail - room.Head
                          ELSE MaxCount + room.Tail - room.Head
      BY <1>5, WaitingValue
    <2> QED BY <1>5, <1>7, <1>11, <1>10, <2>1, MaxCountAssumption DEF PlaceOf, Places
  <1>16. PlaceOf(r, Waiting(room) + 1) = q.Tail
    <2>1. Waiting(room) = IF room.Head <= room.Tail THEN room.Tail - room.Head
                          ELSE MaxCount + room.Tail - room.Head
      BY <1>5, WaitingValue
    <2> QED BY <1>5, <1>7, <1>11, <1>10, <2>1, MaxCountAssumption DEF PlaceOf, Places
  <1>17. \A i \in 1..Waiting(room) : Contents(r)[i] = Contents(room)[i]
    <2> TAKE i \in 1..Waiting(room)
    <2>1. i \in 1..Waiting(r) BY <1>12, <1>13
    <2>2. Contents(r)[i] = r.Buffer[PlaceOf(r, i)] BY <1>11, <2>1, ContentsValue
    <2>3. Contents(room)[i] = room.Buffer[PlaceOf(room, i)] BY <1>5, ContentsValue
    <2> QED BY <1>10, <1>11, <1>15, <2>2, <2>3
  <1>18. Contents(r)[Waiting(room) + 1] = key
    <2>1. Waiting(room) + 1 \in 1..Waiting(r) BY <1>12, <1>13
    <2>2. Contents(r)[Waiting(room) + 1] = r.Buffer[PlaceOf(r, Waiting(room) + 1)]
      BY <1>11, <2>1, ContentsValue
    <2> QED BY <1>1, <1>11, <1>10, <1>16, <2>2
  <1>19. Contents(r) = Append(Contents(room), key)
    BY <1>12, <1>13, <1>14, <1>17, <1>18
  <1>20. Waiting(r) # 0 BY <1>12, <1>13
  <1>21. ~IsEfikeyBufEmpty(r)
    <2>1. Waiting(r) = IF r.Head <= r.Tail THEN r.Tail - r.Head ELSE MaxCount + r.Tail - r.Head
      BY <1>11, WaitingValue
    <2>2. r.Head \in Int /\ r.Tail \in Int BY <1>9, <1>11, <1>10, MaxCountAssumption DEF Places
    <2> QED BY <1>20, <2>1, <2>2 DEF IsEfikeyBufEmpty
  <1>22. Len(Contents(q)) = Waiting(q) BY ContentsValue
  <1>23. Contents(room) = IF Len(Contents(q)) = MaxCount - 1 THEN Tail(Contents(q)) ELSE Contents(q)
    BY <1>3, <1>6, <1>22
  <1> QED BY <1>11, <1>19, <1>21, <1>23 DEF r

-----------------------------------------------------------------------------
(* Induction, from the least element of a set of naturals.                  *)

LEMMA Least ==
  ASSUME NEW T \in SUBSET Nat, T # {}
  PROVE  \E m \in T : \A n \in T : m <= n
<1>. DEFINE R == OpToRel(<, Nat)
<1>1. IsWellFoundedOn(R, Nat)
  BY NatLessThanWellFounded
<1>2. R = {ss \in Nat \X Nat : ss[1] < ss[2]}
  BY DEF OpToRel
<1>. HIDE DEF R
<1>3. \E x \in T : \A y \in T : ~(<<y, x>> \in R)
  BY <1>1, WFMin
<1>4. \A x, y \in Nat : y < x => <<y, x>> \in R
  BY <1>2
<1>5. PICK m \in T : \A y \in T : ~(<<y, m>> \in R)
  BY <1>3
<1>6. \A y \in T : ~(y < m)
  BY <1>4, <1>5
<1>. QED
  BY <1>6

LEMMA Induction ==
  ASSUME NEW n \in Nat, NEW T, 0 \in T, \A i \in 1..n : i - 1 \in T => i \in T
  PROVE  \A i \in 0..n : i \in T
<1>. DEFINE Bad == {i \in 0..n : i \notin T}
<1>. SUFFICES ASSUME Bad # {} PROVE FALSE
  OBVIOUS
<1>1. PICK m \in Bad : \A i \in Bad : m <= i
  <2>1. Bad \in SUBSET Nat
    OBVIOUS
  <2>. HIDE DEF Bad
  <2>. QED
    BY <2>1, Least
<1>2. m \in 1..n /\ m - 1 \in 0..n /\ m - 1 \notin Bad
  BY <1>1
<1>. QED
  BY <1>1, <1>2

\* f has the value c at 0 and each other value up to n from the one before.
Steps(f, n, c, D) == f[0] = c /\ \A i \in 1..n : f[i] = D[i][f[i - 1]]

LEMMA Recursion ==
  ASSUME NEW n \in Nat, NEW S, NEW c \in S, NEW D \in [1..n -> [S -> S]]
  PROVE  \E f \in [0..n -> S] : Steps(f, n, c, D)
<1>. DEFINE T == {k \in 0..n : \E f \in [0..k -> S] : Steps(f, k, c, D)}
<1>1. 0 \in T
  <2>. DEFINE f == [i \in 0..0 |-> c]
  <2>1. f \in [0..0 -> S] /\ Steps(f, 0, c, D)
    BY DEF Steps
  <2>. HIDE DEF f
  <2>. QED
    BY <2>1
<1>2. ASSUME NEW k \in 1..n, k - 1 \in T PROVE k \in T
  <2>1. PICK g \in [0..(k - 1) -> S] : Steps(g, k - 1, c, D)
    BY <1>2
  <2>. DEFINE f == [i \in 0..k |-> IF i = k THEN D[k][g[k - 1]] ELSE g[i]]
  <2>2. g[k - 1] \in S /\ D[k][g[k - 1]] \in S
    BY <2>1
  <2>3. f \in [0..k -> S] /\ f[0] = c
    BY <2>1, <2>2 DEF Steps
  <2>4. ASSUME NEW i \in 1..k PROVE f[i] = D[i][f[i - 1]]
    <3>1. i - 1 \in 0..k /\ i - 1 # k
      OBVIOUS
    <3>2. f[i - 1] = g[i - 1]
      BY <3>1
    <3>3. i # k => f[i] = g[i] /\ g[i] = D[i][g[i - 1]]
      BY <2>1 DEF Steps
    <3>4. i = k => f[i] = D[i][g[i - 1]]
      OBVIOUS
    <3>. QED
      BY <3>2, <3>3, <3>4
  <2>5. f \in [0..k -> S] /\ Steps(f, k, c, D)
    BY <2>3, <2>4 DEF Steps
  <2>. HIDE DEF f
  <2>. QED
    BY <2>5
<1>3. \A k \in 0..n : k \in T
  <2>. HIDE DEF T
  <2>. QED
    BY <1>1, <1>2, Induction
<1>. QED
  BY <1>3

-----------------------------------------------------------------------------
(* Keys pushed one after the other.                                         *)

\* AfterPushes pushes the first key first.
LEMMA PushesInOrder ==
  ASSUME NEW Items, NEW q \in QueuesOf(Items), NEW s \in Seq(Items)
  PROVE  \E f \in [0..Len(s) -> QueuesOf(Items)] :
           /\ f[0] = q /\ AfterPushes(q, s) = f[Len(s)]
           /\ \A i \in 1..Len(s) : f[i] = PushEfikeyBufTail(f[i - 1], s[i])
<1>. DEFINE n == Len(s)
            S == QueuesOf(Items)
            D == [i \in 1..n |-> [x \in S |-> PushEfikeyBufTail(x, s[i])]]
            Is(f) == f = [i \in 0..n |-> IF i = 0 THEN q ELSE PushEfikeyBufTail(f[i - 1], s[i])]
            after == CHOOSE f : Is(f)
<1>1. n \in Nat /\ \A i \in 1..n : s[i] \in Items
  OBVIOUS
<1>0. q \in S
  OBVIOUS
<1>2. D \in [1..n -> [S -> S]]
  BY <1>1, PushKeepsNewest
<1>3. \A x \in S, i \in 1..n : D[i][x] = PushEfikeyBufTail(x, s[i])
  OBVIOUS
<1>. HIDE DEF n, S, D
<1>4. PICK g \in [0..n -> S] : g[0] = q /\ \A i \in 1..n : g[i] = D[i][g[i - 1]]
  <2>1. n \in Nat
    BY <1>1
  <2>2. \E f \in [0..n -> S] : Steps(f, n, q, D)
    BY <1>0, <1>2, <2>1, Recursion
  <2>. QED
    BY <2>2 DEF Steps
<1>5. \A i \in 1..n : g[i] = PushEfikeyBufTail(g[i - 1], s[i])
  <2>. TAKE i \in 1..n
  <2>1. i - 1 \in 0..n
    BY <1>1
  <2>. QED
    BY <1>3, <1>4, <2>1
<1>6. Is(g)
  <2>1. \A i \in 0..n : g[i] = IF i = 0 THEN q ELSE PushEfikeyBufTail(g[i - 1], s[i])
    BY <1>1, <1>4, <1>5
  <2>. QED
    BY <2>1
<1>7. Is(after)
  BY <1>6
<1>8. AfterPushes(q, s) = after[n]
  BY DEF AfterPushes, n
<1>. HIDE DEF after
<1>9. after[0] = q /\ \A i \in 1..n : after[i] = PushEfikeyBufTail(after[i - 1], s[i])
  BY <1>1, <1>7
<1>10. \A i \in 0..n : after[i] \in S
  <2>. DEFINE T == {i \in 0..n : after[i] \in S}
  <2>1. 0 \in T
    BY <1>1, <1>9 DEF S
  <2>2. ASSUME NEW i \in 1..n, i - 1 \in T PROVE i \in T
    <3>1. after[i] = PushEfikeyBufTail(after[i - 1], s[i]) /\ s[i] \in Items /\ i \in 0..n
      BY ONLY <1>1, <1>9, i \in 1..n
    <3>2. after[i - 1] \in QueuesOf(Items)
      BY <2>2 DEF S
    <3>3. after[i] \in QueuesOf(Items)
      BY ONLY <3>1, <3>2, PushKeepsNewest
    <3>. QED
      BY <3>1, <3>3 DEF S
  <2>. HIDE DEF T
  <2>3. \A i \in 0..n : i \in T
    BY <1>1, <2>1, <2>2, Induction
  <2>. QED
    BY <2>3 DEF T
<1>11. after \in [0..n -> S]
  BY <1>7, <1>10
<1>. QED
  BY <1>8, <1>9, <1>11 DEF n, S

\* Two sequences of the same items in the same places are one.
LEMMA SameSequence ==
  \A Items : \A s, t \in Seq(Items) : Len(s) = Len(t) /\ (\A i \in 1..Len(s) : s[i] = t[i]) => s = t
OBVIOUS

Newest(s) == ReadQueue!Newest(s)

LEMMA NewestShort ==
  ASSUME NEW Items, NEW s \in Seq(Items), Len(s) < MaxCount
  PROVE  Newest(s) = s
<1>1. SubSeq(s, 1, Len(s)) = s
  OBVIOUS
<1>2. ~(Len(s) > MaxCount - 1)
  BY MaxCountAssumption
<1>. QED
  BY <1>1, <1>2 DEF Newest, ReadQueue!Newest

\* How many items Newest leaves out.
Cut(s) == IF Len(s) > MaxCount - 1 THEN Len(s) - (MaxCount - 1) ELSE 0

LEMMA NewestValue ==
  ASSUME NEW Items, NEW s \in Seq(Items)
  PROVE  /\ Newest(s) \in Seq(Items)
         /\ Cut(s) \in 0..Len(s) /\ Len(Newest(s)) = Len(s) - Cut(s)
         /\ \A i \in 1..Len(Newest(s)) : Newest(s)[i] = s[i + Cut(s)]
<1>. DEFINE c == Cut(s)
<1>1. c \in 0..Len(s)
  BY MaxCountAssumption DEF Cut
<1>2. Newest(s) = SubSeq(s, c + 1, Len(s))
  BY MaxCountAssumption DEF Newest, ReadQueue!Newest, Cut
<1>. HIDE DEF c
<1>3. SubSeq(s, c + 1, Len(s)) \in Seq(Items)
  BY <1>1
<1>4. Len(SubSeq(s, c + 1, Len(s))) = Len(s) - c
  BY <1>1
<1>5. \A i \in 1..(Len(s) - c) : SubSeq(s, c + 1, Len(s))[i] = s[i + c]
  BY <1>1
<1>. QED
  BY <1>1, <1>2, <1>3, <1>4, <1>5 DEF c

LEMMA NewestAppend ==
  ASSUME NEW Items, NEW s \in Seq(Items), NEW key \in Items
  PROVE  Newest(Append(s, key)) =
           IF Len(Newest(s)) = MaxCount - 1 THEN Append(Tail(Newest(s)), key)
                                            ELSE Append(Newest(s), key)
<1>. DEFINE t == Append(s, key)
            u == Newest(s)
            v == Newest(t)
<1>1. t \in Seq(Items) /\ Len(t) = Len(s) + 1 /\ t[Len(s) + 1] = key
      /\ \A i \in 1..Len(s) : t[i] = s[i]
  OBVIOUS
<1>2. /\ u \in Seq(Items) /\ Cut(s) \in 0..Len(s) /\ Len(u) = Len(s) - Cut(s)
      /\ \A i \in 1..Len(u) : u[i] = s[i + Cut(s)]
  BY NewestValue
<1>. HIDE DEF t
<1>3. /\ v \in Seq(Items) /\ Cut(t) \in 0..Len(t) /\ Len(v) = Len(t) - Cut(t)
      /\ \A i \in 1..Len(v) : v[i] = t[i + Cut(t)]
  BY <1>1, NewestValue
<1>4. Cut(s) = 0 /\ Len(u) < MaxCount - 1 => Cut(t) = 0
  BY <1>1, <1>2, MaxCountAssumption DEF Cut
<1>5. Len(u) = MaxCount - 1 => Cut(t) = Cut(s) + 1
  BY <1>1, <1>2, MaxCountAssumption DEF Cut
<1>6. Len(u) # MaxCount - 1 => Cut(s) = 0 /\ Len(u) < MaxCount - 1
  BY <1>2, MaxCountAssumption DEF Cut
<1>. HIDE DEF u, v
<1>7. CASE Len(u) = MaxCount - 1
  <2>. DEFINE w == Append(Tail(u), key)
  <2>1. Len(u) > 0
    BY <1>7, MaxCountAssumption
  <2>2. w \in Seq(Items) /\ Len(w) = Len(u) /\ w[Len(u)] = key
        /\ \A i \in 1..(Len(u) - 1) : w[i] = u[i + 1]
    BY <1>2, <2>1
  <2>. HIDE DEF w
  <2>3. Len(v) = Len(w)
    BY <1>1, <1>2, <1>3, <1>5, <1>7, <2>2
  <2>4. ASSUME NEW i \in 1..Len(v) PROVE v[i] = w[i]
    <3>1. CASE i = Len(u)
      <4>1. v[i] = t[i + Cut(t)] /\ i + Cut(t) = Len(s) + 1
        BY <1>2, <1>3, <1>5, <1>7, <3>1
      <4>. QED
        BY <1>1, <2>2, <3>1, <4>1
    <3>2. CASE i \in 1..(Len(u) - 1)
      <4>1. i + 1 \in 1..Len(u) /\ i + Cut(s) + 1 \in 1..Len(s)
        BY <1>2, <3>2
      <4>2. u[i + 1] = s[i + 1 + Cut(s)] /\ i + 1 + Cut(s) = i + Cut(s) + 1
        BY <1>2, <4>1
      <4>3. v[i] = t[i + (Cut(s) + 1)] /\ i + (Cut(s) + 1) = i + Cut(s) + 1
        BY <1>2, <1>3, <1>5, <1>7
      <4>. QED
        BY <1>1, <2>2, <3>2, <4>1, <4>2, <4>3
    <3>. QED
      BY <1>2, <2>2, <2>3, <3>1, <3>2
  <2>5. v = w
    BY <1>3, <2>2, <2>3, <2>4, SameSequence
  <2>. QED
    BY <1>7, <2>5 DEF t, u, v, w
<1>8. CASE Len(u) # MaxCount - 1
  <2>. DEFINE w == Append(u, key)
  <2>1. w \in Seq(Items) /\ Len(w) = Len(u) + 1 /\ w[Len(u) + 1] = key
        /\ \A i \in 1..Len(u) : w[i] = u[i]
    BY <1>2
  <2>. HIDE DEF w
  <2>2. Len(v) = Len(w)
    BY <1>1, <1>2, <1>3, <1>4, <1>6, <1>8, <2>1
  <2>3. ASSUME NEW i \in 1..Len(v) PROVE v[i] = w[i]
    BY <1>1, <1>2, <1>3, <1>4, <1>6, <1>8, <2>1, <2>2
  <2>4. v = w
    BY <1>3, <2>1, <2>2, <2>3, SameSequence
  <2>. QED
    BY <1>8, <2>4 DEF t, u, v, w
<1>. QED
  BY <1>7, <1>8 DEF t, u, v

\* A queue that held some keys and has had others pushed holds the newest of them all.
LEMMA PushesKeepNewest ==
  ASSUME NEW Items, NEW q \in QueuesOf(Items), NEW s \in Seq(Items)
  PROVE  /\ AfterPushes(q, s) \in QueuesOf(Items)
         /\ Contents(AfterPushes(q, s)) = Newest(Contents(q) \o s)
<1>1. PICK f \in [0..Len(s) -> QueuesOf(Items)] :
        /\ f[0] = q /\ AfterPushes(q, s) = f[Len(s)]
        /\ \A i \in 1..Len(s) : f[i] = PushEfikeyBufTail(f[i - 1], s[i])
  BY PushesInOrder
<1>. DEFINE c == Contents(q)
            All(i) == c \o SubSeq(s, 1, i)
            T == {i \in 0..Len(s) : Contents(f[i]) = Newest(All(i))}
<1>2. c \in Seq(Items) /\ Len(c) < MaxCount
  BY ContentsValue, MaxCountAssumption
<1>. HIDE DEF c
<1>3. \A i \in 0..Len(s) : All(i) \in Seq(Items)
  BY <1>2
<1>4. 0 \in T
  <2>1. All(0) = c
    BY <1>2
  <2>2. Newest(c) = c
    BY <1>2, NewestShort
  <2>3. Contents(f[0]) = Newest(All(0))
    BY <1>1, <2>1, <2>2 DEF c
  <2>. HIDE DEF All
  <2>. QED
    BY <2>3
<1>5. ASSUME NEW i \in 1..Len(s), i - 1 \in T PROVE i \in T
  <2>1. All(i) = Append(All(i - 1), s[i])
    BY <1>2
  <2>2. Contents(f[i - 1]) = Newest(All(i - 1)) /\ i - 1 \in 0..Len(s) /\ s[i] \in Items
    BY <1>5
  <2>3. f[i] = PushEfikeyBufTail(f[i - 1], s[i]) /\ f[i - 1] \in QueuesOf(Items)
    BY <1>1, <2>2
  <2>4. All(i - 1) \in Seq(Items)
    BY <1>3, <2>2
  <2>. HIDE DEF All
  <2>5. Contents(f[i]) = IF Len(Contents(f[i - 1])) = MaxCount - 1
                         THEN Append(Tail(Contents(f[i - 1])), s[i])
                         ELSE Append(Contents(f[i - 1]), s[i])
    BY <2>2, <2>3, PushKeepsNewest
  <2>6. Newest(All(i)) = IF Len(Newest(All(i - 1))) = MaxCount - 1
                         THEN Append(Tail(Newest(All(i - 1))), s[i])
                         ELSE Append(Newest(All(i - 1)), s[i])
    BY <2>1, <2>2, <2>4, NewestAppend
  <2>7. Contents(f[i]) = Newest(All(i))
    BY <2>2, <2>5, <2>6
  <2>. QED
    BY <2>7
<1>6. Len(s) \in T
  <2>. DEFINE n == Len(s)
  <2>1. n \in Nat
    OBVIOUS
  <2>2. \A i \in 1..n : i - 1 \in T => i \in T
    BY <1>5
  <2>. HIDE DEF T, n
  <2>3. \A i \in 0..n : i \in T
    BY <1>4, <2>1, <2>2, Induction
  <2>. QED
    BY <2>1, <2>3 DEF n
<1>7. SubSeq(s, 1, Len(s)) = s /\ Len(s) \in 0..Len(s)
  OBVIOUS
<1>8. Contents(f[Len(s)]) = Newest(c \o s)
  BY <1>6, <1>7
<1>9. f[Len(s)] \in QueuesOf(Items)
  BY <1>7
<1>. QED
  BY <1>1, <1>8, <1>9 DEF c

-----------------------------------------------------------------------------
(* What one poll of the device brings.                                      *)

\* The first i of presses numbered from lo + 1 on have left t.
Numbered(t, lo, i) ==
  /\ t \in Seq(Press) /\ Len(t) <= i
  /\ \A j \in 1..Len(t) : t[j].n \in (lo + 1)..(lo + i)
  /\ \A j \in 2..Len(t) : t[j].n > t[j - 1].n

LEMMA NumberedNext ==
  ASSUME NEW lo \in Nat, NEW i \in Nat \ {0}, NEW t, Numbered(t, lo, i - 1),
         NEW press \in Press, press.n = lo + i
  PROVE  Numbered(t, lo, i) /\ Numbered(Append(t, press), lo, i)
<1>. DEFINE u == Append(t, press)
<1>1. t \in Seq(Press) /\ Len(t) <= i - 1
  BY DEF Numbered
<1>2. u \in Seq(Press) /\ Len(u) = Len(t) + 1 /\ u[Len(t) + 1] = press
      /\ \A j \in 1..Len(t) : u[j] = t[j]
  BY <1>1
<1>. HIDE DEF u
<1>3. Numbered(t, lo, i)
  BY DEF Numbered
<1>4. ASSUME NEW j \in 1..Len(u) PROVE u[j].n \in (lo + 1)..(lo + i)
  <2>1. CASE j = Len(t) + 1
    BY <1>2, <2>1
  <2>2. CASE j \in 1..Len(t)
    BY <1>2, <1>3, <2>2 DEF Numbered
  <2>. QED
    BY <1>1, <1>2, <2>1, <2>2
<1>5. ASSUME NEW j \in 2..Len(u) PROVE u[j].n > u[j - 1].n
  <2>1. j - 1 \in 1..Len(t) /\ u[j - 1] = t[j - 1] /\ t[j - 1].n \in (lo + 1)..(lo + (i - 1))
    BY <1>1, <1>2 DEF Numbered
  <2>2. CASE j = Len(t) + 1
    BY <1>2, <2>1, <2>2
  <2>3. CASE j \in 2..Len(t)
    <3>1. t[j].n > t[j - 1].n
      BY <2>3 DEF Numbered
    <3>2. j \in 1..Len(t)
      BY ONLY <1>1, <2>3
    <3>. QED
      BY ONLY <1>2, <2>1, <3>1, <3>2
  <2>. QED
    BY <1>1, <1>2, <2>2, <2>3
<1>6. Len(u) <= i
  BY <1>1, <1>2
<1>7. Numbered(u, lo, i)
  BY <1>2, <1>4, <1>5, <1>6 DEF Numbered
<1>. QED
  BY <1>3, <1>7 DEF u

\* What the driver keeps of a poll's presses is in their order.
From(s, lo) == \A i \in 1..Len(s) : s[i].n = lo + i

LEMMA KeptInOrder ==
  ASSUME NEW lo \in Nat, NEW s \in Seq(Press), From(s, lo)
  PROVE  Numbered(Kept(s), lo, Len(s))
<1>. DEFINE n == Len(s)
            S == Seq(Press)
            none == <<>>
            Step(x, i) == IF Keeps(s[i]) THEN Append(x, s[i]) ELSE x
            D == [i \in 1..n |-> [x \in S |-> Step(x, i)]]
            Is(f) == f = [i \in 0..n |-> IF i = 0 THEN none ELSE Step(f[i - 1], i)]
            kept == CHOOSE f : Is(f)
<1>1. n \in Nat
  OBVIOUS
<1>2. none \in S /\ Numbered(none, lo, 0)
  BY DEF Numbered
<1>3. \A x \in S, i \in 1..n : Step(x, i) \in S
  OBVIOUS
<1>4. Kept(s) = kept[n]
  BY DEF Kept
<1>5. ASSUME NEW i \in 1..n, NEW x, Numbered(x, lo, i - 1) PROVE Numbered(Step(x, i), lo, i)
  <2>1. s[i] \in Press /\ s[i].n = lo + i /\ i \in Nat \ {0}
    BY DEF From
  <2>. HIDE DEF n
  <2>2. Numbered(x, lo, i) /\ Numbered(Append(x, s[i]), lo, i)
    BY <1>5, <2>1, NumberedNext
  <2>. QED
    BY <2>2
<1>. HIDE DEF n, S, none, Step
<1>6. PICK g \in [0..n -> S] : g[0] = none /\ \A i \in 1..n : g[i] = D[i][g[i - 1]]
  <2>1. D \in [1..n -> [S -> S]]
    BY <1>3
  <2>. HIDE DEF D
  <2>2. \E f \in [0..n -> S] : Steps(f, n, none, D)
    BY <1>1, <1>2, <2>1, Recursion
  <2>. QED
    BY <2>2 DEF Steps
<1>7. ASSUME NEW i \in 1..n PROVE g[i] = Step(g[i - 1], i)
  <2>1. g[i - 1] \in S
    BY ONLY <1>1, g \in [0..n -> S], i \in 1..n
  <2>2. D[i][g[i - 1]] = Step(g[i - 1], i)
    BY <2>1
  <2>. QED
    BY ONLY <1>6, <2>2, i \in 1..n
<1>8. Is(g)
  BY <1>1, <1>6, <1>7
<1>9. Is(kept)
  BY <1>8
<1>. HIDE DEF kept
<1>10. kept[0] = none /\ \A i \in 1..n : kept[i] = Step(kept[i - 1], i)
  BY <1>1, <1>9
<1>. DEFINE T == {i \in 0..n : Numbered(kept[i], lo, i)}
<1>11. 0 \in T
  BY <1>1, <1>2, <1>10
<1>12. \A i \in 1..n : i - 1 \in T => i \in T
  BY <1>1, <1>5, <1>10
<1>. HIDE DEF T
<1>13. \A i \in 0..n : i \in T
  BY <1>1, <1>11, <1>12, Induction
<1>14. n \in T
  BY <1>1, <1>13
<1>. QED
  BY <1>4, <1>14 DEF n, T

\* A press is put aside as often as it is registered.
LEMMA CopiesAreOfPress ==
  ASSUME NEW Items, NEW press \in Items, NEW k \in Nat, DOMAIN NotifyList = 1..k
  PROVE  Copies(press) \in Seq(Items)
<1>1. IsFiniteSet(1..k)
  BY FS_Interval
<1>2. Matching(press) \subseteq 1..k
  BY DEF Matching
<1>3. Cardinality(Matching(press)) \in Nat
  BY <1>1, <1>2, FS_Subset, FS_CardinalityType
<1>. QED
  BY <1>3 DEF Copies

LEMMA ForHandlerIsSequence ==
  ASSUME NEW Items, NEW s \in Seq(Items), NEW k \in Nat, DOMAIN NotifyList = 1..k
  PROVE  ForHandler(s) \in Seq(Items)
<1>. DEFINE n == Len(s)
            S == Seq(Items)
            none == <<>>
            Step(x, i) == x \o Copies(s[i])
            D == [i \in 1..n |-> [x \in S |-> Step(x, i)]]
            Is(f) == f = [i \in 0..n |-> IF i = 0 THEN none ELSE Step(f[i - 1], i)]
            copies == CHOOSE f : Is(f)
<1>1. n \in Nat
  OBVIOUS
<1>2. none \in S
  OBVIOUS
<1>3. \A x \in S, i \in 1..n : Step(x, i) \in S
  BY CopiesAreOfPress
<1>4. ForHandler(s) = copies[n]
  BY DEF ForHandler
<1>. HIDE DEF n, S, none, Step
<1>6. PICK g \in [0..n -> S] : g[0] = none /\ \A i \in 1..n : g[i] = D[i][g[i - 1]]
  <2>1. D \in [1..n -> [S -> S]]
    BY <1>3
  <2>. HIDE DEF D
  <2>2. \E f \in [0..n -> S] : Steps(f, n, none, D)
    BY <1>1, <1>2, <2>1, Recursion
  <2>. QED
    BY <2>2 DEF Steps
<1>7. ASSUME NEW i \in 1..n PROVE g[i] = Step(g[i - 1], i)
  <2>1. g[i - 1] \in S
    BY ONLY <1>1, g \in [0..n -> S], i \in 1..n
  <2>2. D[i][g[i - 1]] = Step(g[i - 1], i)
    BY <2>1
  <2>. QED
    BY ONLY <1>6, <2>2, i \in 1..n
<1>8. Is(g)
  BY <1>1, <1>6, <1>7
<1>9. Is(copies)
  BY <1>8
<1>. HIDE DEF copies
<1>10. copies[0] = none /\ \A i \in 1..n : copies[i] = Step(copies[i - 1], i)
  BY <1>1, <1>9
<1>. DEFINE T == {i \in 0..n : copies[i] \in S}
<1>11. 0 \in T
  BY <1>1, <1>2, <1>10
<1>12. \A i \in 1..n : i - 1 \in T => i \in T
  BY <1>1, <1>3, <1>10
<1>. HIDE DEF T
<1>13. \A i \in 0..n : i \in T
  BY <1>1, <1>11, <1>12, Induction
<1>14. n \in T
  BY <1>1, <1>13
<1>. QED
  BY <1>4, <1>14 DEF S, T

\* What one poll of the device does to the queues.
LEMMA PressesFollow ==
  ASSUME TypeOK, NEW strokes \in Polls, pressed + Len(strokes) <= MaxPresses
  PROVE  /\ Len(strokes) \in 0..MaxBatch
         /\ Presses(strokes) \in Seq(Press) /\ Len(Presses(strokes)) = Len(strokes)
         /\ From(Presses(strokes), pressed)
<1>1. PICK m \in 0..MaxBatch : strokes \in [1..m -> Strokes]
  BY DEF Polls
<1>2. Len(strokes) = m
  BY <1>1, ParametersAssumption DEF ParametersAssumption
<1>3. ASSUME NEW i \in 1..m
      PROVE  [key |-> strokes[i].key, state |-> strokes[i].state, n |-> pressed + i] \in Press
  <2>1. strokes[i].key \in Keys /\ strokes[i].state \in States
    BY <1>1 DEF Strokes
  <2>2. pressed + i \in 0..MaxPresses
    BY <1>2, ParametersAssumption DEF ParametersAssumption, TypeOK
  <2>. QED
    BY <2>1, <2>2 DEF Press
<1>4. Presses(strokes) \in [1..m -> Press]
  BY <1>1, <1>3 DEF Presses
<1>5. m \in Nat
  BY ParametersAssumption DEF ParametersAssumption
<1>6. Presses(strokes) \in Seq(Press) /\ Len(Presses(strokes)) = m
  BY <1>4, <1>5
<1>7. From(Presses(strokes), pressed)
  BY <1>1, <1>6 DEF Presses, From
<1>. QED
  BY <1>2, <1>6, <1>7

LEMMA PollBrings ==
  ASSUME TypeOK, NEW strokes \in Polls, pressed + Len(strokes) <= MaxPresses
  PROVE  LET kept == Kept(Presses(strokes)) IN
         /\ kept \in Seq(Press) /\ kept \in Batch /\ Len(strokes) \in Nat
         /\ \A i \in DOMAIN kept : kept[i].n \in (pressed + 1)..(pressed + Len(strokes))
         /\ Polled(strokes) \in QueuesOf(Press)
         /\ Contents(Polled(strokes)) = Newest(Contents(EfiKeyQueue) \o kept)
         /\ AfterPushes(EfiKeyQueueForNotify, ForHandler(kept)) \in QueuesOf(Press)
<1>. DEFINE m == Len(strokes)
            kept == Kept(Presses(strokes))
<1>1. m \in 0..MaxBatch /\ pressed \in Nat /\ MaxBatch \in Nat
  BY PressesFollow, ParametersAssumption DEF ParametersAssumption, TypeOK
<1>2. Numbered(kept, pressed, m)
  BY <1>1, PressesFollow, KeptInOrder
<1>. HIDE DEF kept, m
<1>3. /\ kept \in Seq(Press) /\ Len(kept) <= MaxBatch
      /\ \A i \in 1..Len(kept) : kept[i].n \in (pressed + 1)..(pressed + m)
      /\ \A i \in 1..Len(kept) : kept[i].n > 0 /\ (i > 1 => kept[i].n > kept[i - 1].n)
  BY <1>1, <1>2 DEF Numbered
<1>4. kept \in Batch
  <2>1. kept \in [1..Len(kept) -> Press] /\ Len(kept) \in 0..MaxBatch
    BY <1>1, <1>3
  <2>. QED
    BY <1>3, <2>1 DEF Batch
<1>5. EfiKeyQueue \in QueuesOf(Press) /\ EfiKeyQueueForNotify \in QueuesOf(Press)
      /\ NotifyList \in Seq(Registrations)
  BY DEF TypeOK
<1>6. /\ Polled(strokes) \in QueuesOf(Press)
      /\ Contents(Polled(strokes)) = Newest(Contents(EfiKeyQueue) \o kept)
  BY <1>3, <1>5, PushesKeepNewest DEF Polled, kept
<1>7. AfterPushes(EfiKeyQueueForNotify, ForHandler(kept)) \in QueuesOf(Press)
  <2>1. DOMAIN NotifyList = 1..Len(NotifyList) /\ Len(NotifyList) \in Nat
    BY <1>5
  <2>2. ForHandler(kept) \in Seq(Press)
    BY <1>3, <2>1, ForHandlerIsSequence
  <2>. QED
    BY <1>5, <2>2, PushesKeepNewest
<1>8. DOMAIN kept = 1..Len(kept)
  BY <1>3
<1>. QED
  BY <1>1, <1>3, <1>4, <1>6, <1>7, <1>8 DEF kept, m

\* Taking the oldest m keys away at once.
LEMMA SkipTakesOldest ==
  ASSUME NEW Items, NEW q \in QueuesOf(Items), NEW m \in 0..Waiting(q)
  PROVE  LET r == [q EXCEPT !.Head = (q.Head + m) % MaxCount] IN
         /\ r \in QueuesOf(Items)
         /\ Contents(r) = SubSeq(Contents(q), m + 1, Len(Contents(q)))
<1>. DEFINE h == (q.Head + m) % MaxCount
            r == [q EXCEPT !.Head = h]
            w == Waiting(q)
            c == Contents(q)
            t == SubSeq(c, m + 1, Len(c))
<1>1. q.Head \in Places /\ q.Tail \in Places
  BY DEF QueuesOf
<1>2. w \in 0..(MaxCount - 1) /\ c \in Seq(Items) /\ Len(c) = w
  BY ContentsValue
<1>3. w = IF q.Head <= q.Tail THEN q.Tail - q.Head ELSE MaxCount + q.Tail - q.Head
  BY WaitingValue
<1>4. \A i \in 1..w : c[i] = q.Buffer[PlaceOf(q, i)]
  BY ContentsValue
<1>. HIDE DEF w, c
<1>5. m \in 0..w
  BY DEF w
<1>6. h = (IF q.Head + m < MaxCount THEN q.Head + m ELSE q.Head + m - MaxCount) /\ h \in Places
  <2>. DEFINE x == q.Head + m
  <2>1. x \in 0..(2 * MaxCount - 1)
    BY <1>1, <1>2, <1>5, MaxCountAssumption DEF Places
  <2>. HIDE DEF x
  <2>2. x % MaxCount = IF x < MaxCount THEN x ELSE x - MaxCount
    BY <2>1, RingStep
  <2>3. (IF x < MaxCount THEN x ELSE x - MaxCount) \in Places
    BY <2>1, MaxCountAssumption DEF Places
  <2>4. h = x % MaxCount
    BY DEF x
  <2>. HIDE DEF h
  <2>5. h = (IF x < MaxCount THEN x ELSE x - MaxCount) /\ h \in Places
    BY <2>2, <2>3, <2>4
  <2>6. x = q.Head + m
    BY DEF x
  <2>. QED
    BY <1>1, <1>2, <1>5, <2>5, <2>6, MaxCountAssumption DEF Places
<1>. HIDE DEF h
<1>7. r \in QueuesOf(Items) /\ r.Head = h /\ r.Tail = q.Tail /\ r.Buffer = q.Buffer
  BY <1>6 DEF QueuesOf
<1>. HIDE DEF r
<1>8. Waiting(r) = w - m
  <2>1. Waiting(r) = IF r.Head <= r.Tail THEN r.Tail - r.Head ELSE MaxCount + r.Tail - r.Head
    BY <1>7, WaitingValue
  <2>2. Waiting(r) = IF h <= q.Tail THEN q.Tail - h ELSE MaxCount + q.Tail - h
    BY <1>7, <2>1
  <2>3. q.Head \in 0..(MaxCount - 1) /\ q.Tail \in 0..(MaxCount - 1)
    BY <1>1 DEF Places
  <2>. PICK a \in Int, b \in Int : a = q.Head /\ b = q.Tail
    BY <2>3
  <2>4. /\ MaxCount \in Nat /\ m \in Int /\ w \in Int /\ a \in 0..(MaxCount - 1) /\ b \in 0..(MaxCount - 1)
        /\ 0 <= m /\ m <= w
    BY <1>2, <1>5, <2>3, MaxCountAssumption
  <2>5. /\ w = IF a <= b THEN b - a ELSE MaxCount + b - a
        /\ h = IF a + m < MaxCount THEN a + m ELSE a + m - MaxCount
        /\ Waiting(r) = IF h <= b THEN b - h ELSE MaxCount + b - h
    BY <1>3, <1>6, <2>2
  <2>6. CASE a + m < MaxCount
    <3>1. h = a + m
      BY ONLY <2>5, <2>6
    <3>2. h <= b <=> a <= b
      BY ONLY <2>4, <2>5, <2>6, <3>1
    <3>. QED
      BY ONLY <2>4, <2>5, <3>1, <3>2
  <2>7. CASE ~(a + m < MaxCount)
    <3>1. h = a + m - MaxCount
      BY ONLY <2>5, <2>7
    <3>2. ~(a <= b) /\ h <= b
      BY ONLY <2>4, <2>5, <2>7, <3>1
    <3>. QED
      BY ONLY <2>4, <2>5, <3>1, <3>2
  <2>. QED
    BY <2>6, <2>7
<1>9. /\ Contents(r) \in Seq(Items) /\ Len(Contents(r)) = w - m
      /\ \A i \in 1..(w - m) : Contents(r)[i] = q.Buffer[PlaceOf(r, i)]
  BY <1>7, <1>8, ContentsValue
<1>10. /\ t \in Seq(Items) /\ Len(t) = w - m
       /\ \A i \in 1..(w - m) : t[i] = c[i + m]
  BY <1>2, <1>5
<1>. HIDE DEF t
<1>11. ASSUME NEW i \in 1..(w - m) PROVE Contents(r)[i] = t[i]
  <2>1. i + m \in 1..w
    BY <1>2, <1>5
  <2>2. PlaceOf(r, i) = PlaceOf(q, i + m)
    <3>1. q.Head \in Int /\ m \in Int /\ w \in Int /\ MaxCount \in Nat /\ q.Head < MaxCount /\ m + i <= w /\ w < MaxCount
      BY <1>1, <1>2, <1>5, MaxCountAssumption DEF Places
    <3>2. PICK a \in Int : a = q.Head
      BY <3>1
    <3>3. /\ PlaceOf(r, i) = IF h + i - 1 < MaxCount THEN h + i - 1 ELSE h + i - 1 - MaxCount
          /\ PlaceOf(q, i + m) = IF a + (i + m) - 1 < MaxCount THEN a + (i + m) - 1 ELSE a + (i + m) - 1 - MaxCount
      BY ONLY <1>7, <3>2 DEF PlaceOf
    <3>4. h = IF a + m < MaxCount THEN a + m ELSE a + m - MaxCount
      BY ONLY <1>6, <3>2
    <3>5. a < MaxCount
      BY ONLY <3>1, <3>2
    <3>6. CASE a + m < MaxCount
      BY ONLY <3>1, <3>3, <3>4, <3>6, a \in Int, i \in 1..(w - m)
    <3>7. CASE ~(a + m < MaxCount)
      BY ONLY <3>1, <3>3, <3>4, <3>5, <3>7, a \in Int, i \in 1..(w - m)
    <3>. QED
      BY <3>6, <3>7
  <2>. QED
    BY <1>4, <1>9, <1>10, <2>1, <2>2
<1>12. Contents(r) = t
  BY <1>9, <1>10, <1>11, SameSequence
<1>. QED
  BY <1>7, <1>12 DEF r, h, t, c

\* WaitForKey skips the partial keys at the head and nothing else.
LEMMA SkippedValue ==
  ASSUME NEW Items, NEW q \in QueuesOf(Items)
  PROVE  /\ Skipped(q) \in 0..Waiting(q)
         /\ \A i \in 1..Skipped(q) : IsPartial(Contents(q)[i])
         /\ Skipped(q) = Waiting(q) \/ ~IsPartial(Contents(q)[Skipped(q) + 1])
<1>. DEFINE Ends(n) == n = Waiting(q) \/ ~IsPartial(Contents(q)[n + 1])
            T == {n \in 0..Waiting(q) : Ends(n)}
<1>1. Waiting(q) \in Nat
  BY ContentsValue, MaxCountAssumption
<1>2. Waiting(q) \in T /\ T \in SUBSET Nat
  BY <1>1
<1>3. PICK n \in T : \A k \in T : n <= k
  <2>. HIDE DEF T
  <2>. QED
    BY <1>2, Least
<1>4. ASSUME NEW i \in 1..n PROVE IsPartial(Contents(q)[i])
  <2>1. i - 1 \notin T
    BY <1>1, <1>3
  <2>2. i - 1 \in 0..Waiting(q) /\ (i - 1) + 1 = i
    BY <1>1, <1>3
  <2>. QED
    BY <2>1, <2>2
<1>5. n \in 0..Waiting(q) /\ Ends(n)
  BY <1>3
<1>. QED
  BY <1>4, <1>5 DEF Skipped

-----------------------------------------------------------------------------
(* The reading queue.                                                       *)

\* What the application was promised is in the queue.
PromiseKept(q) == \E i \in 1..Len(Contents(q)) : ~IsPartial(Contents(q)[i])
PromiseInv == promised => PromiseKept(EfiKeyQueue)

\* Where all presses of a poll fit, they are put behind the others.
LEMMA FitAll ==
  ASSUME TypeOK, NEW strokes \in Polls, pressed + Len(strokes) <= MaxPresses,
         AllFit(Kept(Presses(strokes)))
  PROVE  Contents(Polled(strokes)) = Contents(EfiKeyQueue) \o Kept(Presses(strokes))
<1>. DEFINE c == Contents(EfiKeyQueue)
            kept == Kept(Presses(strokes))
<1>1. c \in Seq(Press) /\ Len(c) = Waiting(EfiKeyQueue)
  BY ContentsValue DEF TypeOK
<1>2. kept \in Seq(Press) /\ Contents(Polled(strokes)) = Newest(c \o kept)
  BY PollBrings
<1>3. Waiting(EfiKeyQueue) + Len(kept) < MaxCount
  BY DEF AllFit
<1>. HIDE DEF c, kept
<1>4. c \o kept \in Seq(Press) /\ Len(c \o kept) < MaxCount
  BY <1>1, <1>2, <1>3
<1>5. Newest(c \o kept) = c \o kept
  BY <1>4, NewestShort
<1>. QED
  BY <1>2, <1>5 DEF c, kept

LEMMA PromiseFits ==
  ASSUME TypeOK, PromiseInv, promised,
         NEW strokes \in Polls, pressed + Len(strokes) <= MaxPresses,
         AllFit(Kept(Presses(strokes)))
  PROVE  PromiseKept(Polled(strokes))
<1>. DEFINE c == Contents(EfiKeyQueue)
            kept == Kept(Presses(strokes))
            d == Contents(Polled(strokes))
<1>1. c \in Seq(Press) /\ kept \in Seq(Press) /\ d = c \o kept
  BY FitAll, PollBrings, ContentsValue DEF TypeOK
<1>2. PICK i \in 1..Len(c) : ~IsPartial(c[i])
  BY DEF PromiseInv, PromiseKept
<1>. HIDE DEF c, kept, d
<1>3. i \in 1..Len(d) /\ d[i] = c[i]
  BY <1>1
<1>. QED
  BY <1>2, <1>3 DEF PromiseKept, d

\* A step that takes what a poll brings and then spares the reader some of it.
LEMMA AcceptStep ==
  ASSUME TypeOK, NEW strokes \in Polls, pressed + Len(strokes) <= MaxPresses,
         pressed' = pressed + Len(strokes), resets' = resets,
         Contents(EfiKeyQueue') \in ReadQueue!Left(Contents(Polled(strokes)))
  PROVE  ReadQueue!Accept
<1>. DEFINE kept == Kept(Presses(strokes))
<1>1. /\ kept \in Batch /\ Len(strokes) \in Nat
      /\ \A i \in DOMAIN kept : kept[i].n \in (pressed + 1)..(pressed + Len(strokes))
      /\ Contents(Polled(strokes)) = ReadQueue!Newest(Contents(EfiKeyQueue) \o kept)
  BY PollBrings DEF Newest
<1>2. pressed \in Int /\ pressed' >= pressed
  BY <1>1, ParametersAssumption DEF ParametersAssumption, TypeOK
<1>. HIDE DEF kept
<1>3. Contents(EfiKeyQueue') \in ReadQueue!Left(ReadQueue!Newest(Contents(EfiKeyQueue) \o kept))
  BY <1>1
<1>4. \A i \in DOMAIN kept : kept[i].n \in (pressed + 1)..pressed'
  BY <1>1
<1>. QED
  BY <1>1, <1>2, <1>3, <1>4 DEF ReadQueue!Accept

\* Taking a key, where there is one.
LEMMA PopLeaves ==
  ASSUME NEW Items, NEW q \in QueuesOf(Items)
  PROVE  /\ PopEfikeyBufHead(q) \in QueuesOf(Items)
         /\ Contents(PopEfikeyBufHead(q)) \in ReadQueue!Left(Contents(q))
<1>1. CASE IsEfikeyBufEmpty(q)
  BY <1>1 DEF PopEfikeyBufHead, ReadQueue!Left
<1>2. CASE ~IsEfikeyBufEmpty(q)
  <2>. DEFINE c == Contents(q)
  <2>1. c \in Seq(Items) /\ c # <<>> /\ PopEfikeyBufHead(q) \in QueuesOf(Items)
        /\ Contents(PopEfikeyBufHead(q)) = Tail(c)
    BY <1>2, PopTakesOldest, ContentsValue
  <2>. HIDE DEF c
  <2>2. Tail(c) = SubSeq(c, 2, Len(c))
    BY <2>1
  <2>. QED
    BY <2>1, <2>2 DEF ReadQueue!Left, c
<1>. QED
  BY <1>1, <1>2

\* An empty queue is one with nothing in it.
LEMMA EmptyContents ==
  ASSUME NEW Items, NEW q \in QueuesOf(Items)
  PROVE  IsEfikeyBufEmpty(q) <=> Len(Contents(q)) = 0
<1>1. Waiting(q) = (IF q.Head <= q.Tail THEN q.Tail - q.Head ELSE MaxCount + q.Tail - q.Head)
  BY WaitingValue
<1>2. q.Head \in 0..(MaxCount - 1) /\ q.Tail \in 0..(MaxCount - 1)
  BY DEF QueuesOf, Places
<1>3. Waiting(q) = 0 <=> q.Head = q.Tail
  BY <1>1, <1>2, MaxCountAssumption
<1>. QED
  BY <1>3, ContentsValue DEF IsEfikeyBufEmpty

\* What Worker does to the queue, and to a promise that is not used up.
LEMMA WorkerStep ==
  ASSUME TypeOK, PromiseInv, NEW strokes \in Polls, Worker(strokes)
  PROVE  /\ {EfiKeyQueue', EfiKeyQueueForNotify'} \subseteq QueuesOf(Press)
         /\ {signalled', promised'} \subseteq BOOLEAN /\ pressed' \in 0..MaxPresses
         /\ PromiseInv'
         /\ resets' = resets => ReadQueue!Accept
<1>. DEFINE kept == Kept(Presses(strokes))
            queue == Polled(strokes)
<1>1. /\ pressed + Len(strokes) <= MaxPresses /\ pressed' = pressed + Len(strokes)
      /\ EfiKeyQueueForNotify' = AfterPushes(EfiKeyQueueForNotify, ForHandler(kept))
      /\ signalled' = Signals(ForHandler(kept))
      /\ EfiKeyQueue' = PopEfikeyBufHead(queue)
      /\ promised' = (promised /\ AllFit(kept) /\ (IsEfikeyBufEmpty(queue) \/ IsPartial(HeadKey(queue))))
  BY DEF Worker, Poll
<1>2. queue \in QueuesOf(Press) /\ Len(strokes) \in Nat
      /\ AfterPushes(EfiKeyQueueForNotify, ForHandler(kept)) \in QueuesOf(Press)
  BY <1>1, PollBrings
<1>3. promised /\ AllFit(kept) => PromiseKept(queue)
  BY <1>1, PromiseFits
<1>. HIDE DEF kept, queue
<1>4. EfiKeyQueue' \in QueuesOf(Press) /\ Contents(EfiKeyQueue') \in ReadQueue!Left(Contents(queue))
  BY <1>1, <1>2, PopLeaves
<1>5. {signalled', promised'} \subseteq BOOLEAN
  BY <1>1 DEF Signals, TypeOK
<1>6. pressed' \in 0..MaxPresses
  BY <1>1, <1>2, ParametersAssumption DEF ParametersAssumption, TypeOK
<1>7. ASSUME promised' PROVE PromiseKept(EfiKeyQueue')
  <2>. DEFINE c == Contents(queue)
              d == Contents(EfiKeyQueue')
  <2>1. PromiseKept(queue) /\ (IsEfikeyBufEmpty(queue) \/ IsPartial(HeadKey(queue)))
    BY <1>1, <1>3, <1>7
  <2>2. c \in Seq(Press)
    BY <1>2, ContentsValue
  <2>3. PICK i \in 1..Len(c) : ~IsPartial(c[i])
    BY <2>1 DEF PromiseKept
  <2>4. ~IsEfikeyBufEmpty(queue)
    BY <1>2, <2>2, <2>3, EmptyContents
  <2>5. HeadKey(queue) = Head(c) /\ d = Tail(c)
    BY <1>1, <1>2, <2>4, PopTakesOldest
  <2>. HIDE DEF c, d
  <2>6. Head(c) = c[1]
    BY <2>2, <2>3
  <2>7. i # 1
    BY <2>1, <2>3, <2>4, <2>5, <2>6
  <2>8. i - 1 \in 1..Len(d) /\ d[i - 1] = c[i]
    BY <2>2, <2>3, <2>5, <2>7
  <2>. QED
    BY <2>3, <2>8 DEF PromiseKept, d
<1>8. resets' = resets => ReadQueue!Accept
  BY <1>1, <1>4, AcceptStep DEF queue
<1>. QED
  BY <1>1, <1>2, <1>4, <1>5, <1>6, <1>7, <1>8 DEF PromiseInv

LEMMA TimerPollStep ==
  ASSUME TypeOK, PromiseInv, TimerPoll
  PROVE  /\ {EfiKeyQueue', EfiKeyQueueForNotify'} \subseteq QueuesOf(Press)
         /\ {signalled', promised'} \subseteq BOOLEAN /\ pressed' \in 0..MaxPresses
         /\ PromiseInv' /\ ReadQueue!Accept
<1>. PICK strokes \in Polls :
       LET kept == Kept(Presses(strokes))
       IN  /\ Poll(kept, strokes)
           /\ EfiKeyQueue' = AfterPushes(EfiKeyQueue, kept)
           /\ promised' = (promised /\ AllFit(kept))
  BY DEF TimerPoll
<1>. DEFINE kept == Kept(Presses(strokes))
            queue == Polled(strokes)
<1>1. /\ pressed + Len(strokes) <= MaxPresses /\ pressed' = pressed + Len(strokes)
      /\ EfiKeyQueueForNotify' = AfterPushes(EfiKeyQueueForNotify, ForHandler(kept))
      /\ signalled' = Signals(ForHandler(kept))
      /\ EfiKeyQueue' = queue
      /\ promised' = (promised /\ AllFit(kept))
      /\ resets' = resets
  BY DEF TimerPoll, Poll, Polled
<1>2. queue \in QueuesOf(Press) /\ Len(strokes) \in Nat
      /\ AfterPushes(EfiKeyQueueForNotify, ForHandler(kept)) \in QueuesOf(Press)
  BY <1>1, PollBrings
<1>3. promised /\ AllFit(kept) => PromiseKept(queue)
  BY <1>1, PromiseFits
<1>. HIDE DEF kept, queue
<1>4. Contents(queue) \in ReadQueue!Left(Contents(queue))
  BY DEF ReadQueue!Left
<1>5. {signalled', promised'} \subseteq BOOLEAN
  BY <1>1 DEF Signals, TypeOK
<1>6. pressed' \in 0..MaxPresses
  BY <1>1, <1>2, ParametersAssumption DEF ParametersAssumption, TypeOK
<1>7. ReadQueue!Accept
  BY <1>1, <1>4, AcceptStep DEF queue
<1>. QED
  BY <1>1, <1>2, <1>3, <1>5, <1>6, <1>7 DEF PromiseInv

LEMMA WaitForKeyStep ==
  ASSUME TypeOK, WaitForKey
  PROVE  /\ {EfiKeyQueue', EfiKeyQueueForNotify'} \subseteq QueuesOf(Press)
         /\ {signalled', promised'} \subseteq BOOLEAN /\ pressed' \in 0..MaxPresses
         /\ PromiseInv' /\ ReadQueue!Accept
<1>. PICK strokes \in Polls :
       LET kept  == Kept(Presses(strokes))
           queue == AfterPushes(EfiKeyQueue, kept)
       IN  /\ Poll(kept, strokes)
           /\ EfiKeyQueue' = [queue EXCEPT !.Head = (queue.Head + Skipped(queue)) % MaxCount]
           /\ promised' = (Skipped(queue) < Waiting(queue))
  BY DEF WaitForKey
<1>. DEFINE kept == Kept(Presses(strokes))
            queue == Polled(strokes)
            n == Skipped(queue)
            c == Contents(queue)
<1>1. /\ pressed + Len(strokes) <= MaxPresses /\ pressed' = pressed + Len(strokes)
      /\ EfiKeyQueueForNotify' = AfterPushes(EfiKeyQueueForNotify, ForHandler(kept))
      /\ signalled' = Signals(ForHandler(kept))
      /\ EfiKeyQueue' = [queue EXCEPT !.Head = (queue.Head + n) % MaxCount]
      /\ promised' = (n < Waiting(queue))
      /\ resets' = resets
  BY DEF WaitForKey, Poll, Polled
<1>2. queue \in QueuesOf(Press) /\ Len(strokes) \in Nat
      /\ AfterPushes(EfiKeyQueueForNotify, ForHandler(kept)) \in QueuesOf(Press)
  BY <1>1, PollBrings
<1>. HIDE DEF kept, queue
<1>3. /\ n \in 0..Waiting(queue) /\ \A i \in 1..n : IsPartial(c[i])
      /\ n = Waiting(queue) \/ ~IsPartial(c[n + 1])
  BY <1>2, SkippedValue
<1>4. c \in Seq(Press) /\ Len(c) = Waiting(queue)
  BY <1>2, ContentsValue
<1>5. EfiKeyQueue' \in QueuesOf(Press) /\ Contents(EfiKeyQueue') = SubSeq(c, n + 1, Len(c))
  <2>1. PICK m \in 0..Waiting(queue) : m = n
    BY ONLY <1>3
  <2>2. EfiKeyQueue' = [queue EXCEPT !.Head = (queue.Head + m) % MaxCount]
    BY ONLY <1>1, <2>1
  <2>3. /\ [queue EXCEPT !.Head = (queue.Head + m) % MaxCount] \in QueuesOf(Press)
        /\ Contents([queue EXCEPT !.Head = (queue.Head + m) % MaxCount]) = SubSeq(c, m + 1, Len(c))
    BY ONLY <1>2, SkipTakesOldest, m \in 0..Waiting(queue)
  <2>. QED
    BY ONLY <2>1, <2>2, <2>3
<1>. HIDE DEF n, c
<1>6. SubSeq(c, n + 1, Len(c)) \in ReadQueue!Left(c)
  <2>1. CASE n = 0
    <3>1. SubSeq(c, n + 1, Len(c)) = c
      BY <1>4, <2>1
    <3>. QED
      BY <3>1 DEF ReadQueue!Left
  <2>2. CASE n # 0
    <3>1. n \in DOMAIN c
      BY <1>3, <1>4, <2>2
    <3>. QED
      BY <1>3, <3>1 DEF ReadQueue!Left
  <2>. QED
    BY <2>1, <2>2
<1>7. ReadQueue!Accept
  BY <1>1, <1>5, <1>6, AcceptStep DEF queue, c
<1>8. ASSUME promised' PROVE PromiseKept(EfiKeyQueue')
  <2>. DEFINE d == Contents(EfiKeyQueue')
  <2>0. n < Waiting(queue)
    BY <1>1, <1>8
  <2>1. n < Len(c) /\ n \in Nat /\ ~IsPartial(c[n + 1])
    BY <1>3, <1>4, <2>0
  <2>2. d = SubSeq(c, n + 1, Len(c))
    BY <1>5
  <2>. HIDE DEF d
  <2>3. 1 \in 1..Len(d) /\ d[1] = c[n + 1]
    BY <1>4, <2>1, <2>2
  <2>. QED
    BY <2>1, <2>3 DEF PromiseKept, d
<1>9. {signalled', promised'} \subseteq BOOLEAN
  BY <1>1 DEF Signals, TypeOK
<1>10. pressed' \in 0..MaxPresses
  BY <1>1, <1>2, ParametersAssumption DEF ParametersAssumption, TypeOK
<1>. QED
  BY <1>1, <1>2, <1>5, <1>7, <1>8, <1>9, <1>10 DEF PromiseInv

-----------------------------------------------------------------------------
(* The list of notifications and the walk over it.                          *)

Handlers == [pc : {"idle", "pop", "walk", "call", "lost"}, key : Press,
             link : Links, own : BOOLEAN, next : Links]

ListOK == NotifyList \in Seq(Registrations)

LEMMA LinkAtValue ==
  ASSUME ListOK, NEW i \in Nat
  PROVE  /\ LinkAt(i) \in Links
         /\ LinkAt(i) = NoHandle \/ \E j \in DOMAIN NotifyList : NotifyList[j].handle = LinkAt(i)
<1>1. ASSUME NEW j \in DOMAIN NotifyList PROVE NotifyList[j].handle \in Handles
  <2>1. NotifyList[j] \in Registrations
    BY DEF ListOK
  <2>. QED
    BY <2>1 DEF Registrations
<1>. QED
  BY <1>1 DEF LinkAt, Links

LEMMA PositionValue ==
  ASSUME ListOK, LinkIsAlive
  PROVE  /\ Position(handler.link) \in DOMAIN NotifyList /\ Position(handler.link) \in Nat
         /\ NotifyList[Position(handler.link)].handle = handler.link
<1>1. /\ Position(handler.link) \in DOMAIN NotifyList
      /\ NotifyList[Position(handler.link)].handle = handler.link
  BY DEF Position, LinkIsAlive
<1>2. DOMAIN NotifyList \subseteq Nat
  BY DEF ListOK
<1>. QED
  BY <1>1, <1>2

\* A registration is added at the end, or not at all.
LEMMA RegisterStep ==
  ASSUME ListOK, NEW fn \in Functions, NEW stroke \in Registers, Register(fn, stroke)
  PROVE  ListOK' /\ \A h : (\E i \in DOMAIN NotifyList : NotifyList[i].handle = h)
                          => \E i \in DOMAIN NotifyList' : NotifyList'[i].handle = h
<1>1. CASE UNCHANGED NotifyList
  BY <1>1 DEF ListOK
<1>2. CASE ~UNCHANGED NotifyList
  <2>. PICK h \in Handles : NotifyList' = Append(NotifyList, [handle |-> h, fn |-> fn, stroke |-> stroke])
    BY <1>2 DEF Register
  <2>1. [handle |-> h, fn |-> fn, stroke |-> stroke] \in Registrations
    BY DEF Registrations
  <2>2. ListOK'
    BY <2>1 DEF ListOK
  <2>3. \A i \in DOMAIN NotifyList : i \in DOMAIN NotifyList' /\ NotifyList'[i] = NotifyList[i]
    BY <2>1 DEF ListOK
  <2>. QED
    BY <2>2, <2>3
<1>. QED
  BY <1>1, <1>2

\* c has a's items and then b's.
Joins(c, a, b) ==
  /\ Len(c) = Len(a) + Len(b)
  /\ \A i \in 1..Len(a) : c[i] = a[i]
  /\ \A i \in 1..Len(b) : c[Len(a) + i] = b[i]

LEMMA Concatenation ==
  \A Items : \A a, b \in Seq(Items) : a \o b \in Seq(Items) /\ Joins(a \o b, a, b)
  BY DEF Joins

\* A registration is taken out, and the others stay.
LEMMA UnregisterStep ==
  ASSUME ListOK, NEW h, Unregister(h)
  PROVE  ListOK' /\ \A k : k # h /\ (\E i \in DOMAIN NotifyList : NotifyList[i].handle = k)
                          => \E i \in DOMAIN NotifyList' : NotifyList'[i].handle = k
<1>. PICK p \in DOMAIN NotifyList : NotifyList[p].handle = h /\ NotifyList' = RemoveAt(NotifyList, p)
  BY DEF Unregister
<1>. DEFINE n == Len(NotifyList)
<1>1. n \in Nat /\ p \in 1..n /\ DOMAIN NotifyList = 1..n
  BY DEF ListOK
<1>2. NotifyList' = SubSeq(NotifyList, 1, p - 1) \o SubSeq(NotifyList, p + 1, n)
  BY DEF RemoveAt
<1>3. /\ NotifyList' \in Seq(Registrations) /\ Len(NotifyList') = n - 1
      /\ \A i \in 1..(n - 1) : NotifyList'[i] = IF i < p THEN NotifyList[i] ELSE NotifyList[i + 1]
  <2>. DEFINE a == SubSeq(NotifyList, 1, p - 1)
              b == SubSeq(NotifyList, p + 1, n)
  <2>1. /\ a \in Seq(Registrations) /\ Len(a) = p - 1
        /\ \A i \in 1..(p - 1) : a[i] = NotifyList[i]
    BY <1>1 DEF ListOK
  <2>2. /\ b \in Seq(Registrations) /\ Len(b) = n - p
        /\ \A i \in 1..(n - p) : b[i] = NotifyList[p + i]
    BY <1>1 DEF ListOK
  <2>. HIDE DEF a, b, n
  <2>. DEFINE c == a \o b
  <2>3. c \in Seq(Registrations) /\ Joins(c, a, b)
    BY <2>1, <2>2, Concatenation
  <2>4. NotifyList' = c
    BY <1>2 DEF a, b
  <2>. HIDE DEF c
  <2>5. ASSUME NEW i \in p..(n - 1) PROVE c[i] = NotifyList[i + 1]
    <3>. DEFINE j == i - (p - 1)
    <3>1. j \in 1..(n - p) /\ p + j = i + 1 /\ Len(a) + j = i
      BY <1>1, <2>1
    <3>. HIDE DEF j
    <3>2. b[j] = NotifyList[p + j] /\ c[Len(a) + j] = b[j]
      BY <2>2, <2>3, <3>1 DEF Joins
    <3>. QED
      BY <3>1, <3>2
  <2>6. ASSUME NEW i \in 1..(p - 1) PROVE c[i] = NotifyList[i]
    BY <2>1, <2>3 DEF Joins
  <2>7. ASSUME NEW i \in 1..(n - 1)
        PROVE  c[i] = IF i < p THEN NotifyList[i] ELSE NotifyList[i + 1]
    <3>1. CASE i < p
      <4>1. i \in 1..(p - 1)
        BY <1>1, <3>1
      <4>. QED
        BY <2>6, <3>1, <4>1
    <3>2. CASE ~(i < p)
      <4>1. i \in p..(n - 1)
        BY <1>1, <3>2
      <4>. QED
        BY <2>5, <3>2, <4>1
    <3>. QED
      BY <3>1, <3>2
  <2>8. Len(c) = n - 1
    BY <1>1, <2>1, <2>2, <2>3 DEF Joins
  <2>. QED
    BY <2>3, <2>4, <2>7, <2>8
<1>. HIDE DEF n
<1>4. DOMAIN NotifyList' = 1..(n - 1)
  BY <1>3
<1>5. ASSUME NEW k, k # h, NEW i \in DOMAIN NotifyList, NotifyList[i].handle = k
      PROVE  \E j \in DOMAIN NotifyList' : NotifyList'[j].handle = k
  <2>1. i # p /\ i \in 1..n
    BY <1>1, <1>5
  <2>2. CASE i < p
    <3>1. i \in 1..(n - 1) /\ NotifyList'[i] = NotifyList[i]
      BY <1>1, <1>3, <2>1, <2>2
    <3>. QED
      BY <1>4, <1>5, <3>1
  <2>3. CASE i > p
    <3>1. i - 1 \in 1..(n - 1) /\ NotifyList'[i - 1] = NotifyList[i]
      BY <1>1, <1>3, <2>1, <2>3
    <3>. QED
      BY <1>4, <1>5, <3>1
  <2>. QED
    BY <1>1, <2>1, <2>2, <2>3
<1>. QED
  BY <1>3, <1>5 DEF ListOK
-----------------------------------------------------------------------------
(* The invariant, and the steps.                                            *)

\* Besides what the run checks, that a promised key is in the queue.
IInv == NotifyListSound /\ PromiseInv

LEMMA NoPressIsPress == NoPress \in Press
  BY ParametersAssumption DEF ParametersAssumption, NoPress, Press

LEMMA NewQueueIsEmpty ==
  NewQueue(NoPress) \in QueuesOf(Press) /\ Contents(NewQueue(NoPress)) = <<>>
<1>. DEFINE q == NewQueue(NoPress)
<1>1. q \in QueuesOf(Press)
  BY NoPressIsPress, MaxCountAssumption DEF NewQueue, QueuesOf, Places
<1>2. IsEfikeyBufEmpty(q)
  BY DEF NewQueue, IsEfikeyBufEmpty
<1>. HIDE DEF q
<1>3. Len(Contents(q)) = 0 /\ Contents(q) \in Seq(Press)
  BY <1>1, <1>2, EmptyContents, ContentsValue
<1>. QED
  BY <1>1, <1>3 DEF q

LEMMA InitOK == Init => IInv /\ ReadQueue!Init
<1>. SUFFICES ASSUME Init PROVE IInv /\ ReadQueue!Init
  OBVIOUS
<1>1. TypeOK
  <2>1. handler \in Handlers
    BY NoPressIsPress DEF Init, IdleState, Handlers, Links
  <2>2. {EfiKeyQueue, EfiKeyQueueForNotify} \subseteq QueuesOf(Press)
    BY NewQueueIsEmpty DEF Init
  <2>3. NotifyList \in Seq(Registrations)
    BY DEF Init
  <2>4. pressed \in 0..MaxPresses /\ changes \in 0..MaxChanges
    BY ParametersAssumption DEF ParametersAssumption, Init
  <2>. QED
    BY <2>1, <2>2, <2>3, <2>4 DEF Init, TypeOK, Handlers
<1>2. WalkOnLiveList /\ PromiseInv
  BY DEF Init, IdleState, WalkOnLiveList, PromiseInv
<1>3. ReadQueue!Init
  BY NewQueueIsEmpty DEF Init, ReadQueue!Init
<1>. QED
  BY <1>1, <1>2, <1>3 DEF IInv, NotifyListSound

\* A step that leaves the list and the walk alone.
LEMMA QueueStep ==
  ASSUME IInv, UNCHANGED <<NotifyList, handler, changes>>,
         {EfiKeyQueue', EfiKeyQueueForNotify'} \subseteq QueuesOf(Press),
         {IsSupportPartialKey', signalled', promised', resets'} \subseteq BOOLEAN,
         pressed' \in 0..MaxPresses, app' \in {"idle", "reading", "not_ready"}, PromiseInv'
  PROVE  IInv'
<1>1. TypeOK'
  BY DEF IInv, NotifyListSound, TypeOK
<1>2. WalkOnLiveList'
  BY DEF IInv, NotifyListSound, WalkOnLiveList, LinkIsAlive
<1>. QED
  BY <1>1, <1>2 DEF IInv, NotifyListSound

\* A step that leaves the queues alone but, it may be, a press for the handler.
LEMMA ListStep ==
  ASSUME IInv, UNCHANGED <<EfiKeyQueue, IsSupportPartialKey, app, pressed, promised, resets>>,
         EfiKeyQueueForNotify' \in QueuesOf(Press), signalled' \in BOOLEAN,
         ListOK', changes' \in 0..MaxChanges,
         handler' \in Handlers,
         WalkOnLiveList'
  PROVE  IInv' /\ UNCHANGED ReadQueue!vars
<1>1. TypeOK'
  BY DEF IInv, NotifyListSound, TypeOK, ListOK, Handlers
<1>2. PromiseInv'
  BY DEF IInv, PromiseInv
<1>3. UNCHANGED ReadQueue!vars
  BY DEF ReadQueue!vars
<1>. QED
  BY <1>1, <1>2, <1>3 DEF IInv, NotifyListSound

\* Where the walk goes next.
LEMMA StandingStep ==
  ASSUME IInv, NEW pc \in {"walk", "call", "lost"}, NEW link \in Links, NEW own \in BOOLEAN
  PROVE  /\ Standing(pc, link, own) \in Handlers
         /\ Standing(pc, link, own).pc = pc
         /\ Standing(pc, link, own).link = link
         /\ Standing(pc, link, own).own = own
<1>1. handler.key \in Press
  BY DEF IInv, NotifyListSound, TypeOK
<1>. QED
  BY <1>1, NoPressIsPress DEF Standing, IdleState, Handlers, Links

LEMMA OnwardStep ==
  ASSUME IInv, LinkIsAlive
  PROVE  /\ Onward \in Handlers /\ Onward.pc = "walk"
         /\ Onward.link = NoHandle
              \/ \E i \in DOMAIN NotifyList : NotifyList[i].handle = Onward.link
<1>. DEFINE l == LinkAt(Position(handler.link) + 1)
<1>1. ListOK
  BY DEF IInv, NotifyListSound, TypeOK, ListOK
<1>2. Position(handler.link) + 1 \in Nat
  BY <1>1, PositionValue
<1>3. l \in Links
      /\ (l = NoHandle \/ \E i \in DOMAIN NotifyList : NotifyList[i].handle = l)
  BY <1>1, <1>2, LinkAtValue
<1>4. Onward = Standing("walk", l, FALSE)
  BY DEF Onward
<1>. HIDE DEF l
<1>5. Onward \in Handlers /\ Onward.pc = "walk" /\ Onward.link = l
  BY <1>3, <1>4, StandingStep
<1>. QED
  BY <1>3, <1>5

\* The handler's own steps.
LEMMA HandlerStep ==
  ASSUME IInv, Handler
  PROVE  IInv' /\ UNCHANGED ReadQueue!vars
<1>1. /\ ListOK /\ handler \in Handlers /\ signalled \in BOOLEAN /\ WalkOnLiveList
      /\ EfiKeyQueueForNotify \in QueuesOf(Press) /\ changes \in 0..MaxChanges
  BY DEF IInv, NotifyListSound, TypeOK, ListOK, Handlers
<1>2. /\ IdleState \in Handlers /\ IdleState.pc = "idle" /\ IdleState.link = NoHandle
      /\ handler.link \in Links
  BY <1>1, NoPressIsPress DEF IdleState, Handlers, Links
<1>3. CASE HandlerPops
  <2>1. /\ UNCHANGED <<EfiKeyQueue, NotifyList, IsSupportPartialKey, signalled, app, pressed,
                       promised, resets, changes>>
        /\ EfiKeyQueueForNotify' = PopEfikeyBufHead(EfiKeyQueueForNotify)
    BY <1>3 DEF HandlerPops
  <2>2. EfiKeyQueueForNotify' \in QueuesOf(Press)
    BY <1>1, <2>1, PopLeaves
  <2>3. HeadKey(EfiKeyQueueForNotify) \in Press
    BY <1>1 DEF HeadKey, QueuesOf
  <2>4. handler' = IdleState
        \/ handler' = [IdleState EXCEPT !.pc = "walk", !.key = HeadKey(EfiKeyQueueForNotify),
                                       !.link = LinkAt(1)]
    BY <1>3 DEF HandlerPops
  <2>5. LinkAt(1) \in Links
        /\ (LinkAt(1) = NoHandle \/ \E j \in DOMAIN NotifyList : NotifyList[j].handle = LinkAt(1))
    BY <1>1, LinkAtValue
  <2>6. handler' \in Handlers
        /\ (handler'.pc = "idle" \/ (handler'.pc = "walk" /\ handler'.link = LinkAt(1)))
    BY <1>2, <2>3, <2>4, <2>5 DEF Handlers
  <2>7. WalkOnLiveList'
    BY <2>1, <2>5, <2>6 DEF WalkOnLiveList, LinkIsAlive
  <2>8. ListOK'
    BY <1>1, <2>1 DEF ListOK
  <2>. QED
    BY <1>1, <2>1, <2>2, <2>6, <2>7, <2>8, ListStep
<1>4. CASE HandlerWalks
  <2>1. UNCHANGED <<queues, NotifyList, IsSupportPartialKey, signalled, app, pressed, promised,
                    resets, changes>>
    BY <1>4 DEF HandlerWalks
  <2>2. ListOK' /\ EfiKeyQueueForNotify' \in QueuesOf(Press) /\ changes' \in 0..MaxChanges
    BY <1>1, <2>1 DEF ListOK, queues
  <2>3. handler' \in Handlers /\ WalkOnLiveList'
    <3>1. CASE handler' = [IdleState EXCEPT !.pc = "pop"]
      <4>1. handler' \in Handlers /\ handler'.pc = "pop"
        BY <3>1, NoPressIsPress DEF IdleState, Handlers, Links
      <4>. QED
        BY <4>1 DEF WalkOnLiveList
    <3>2. CASE LinkIsAlive /\ handler' = Standing("call", handler.link, FALSE)
      <4>1. handler' \in Handlers /\ handler'.pc = "call" /\ handler'.link = handler.link
        BY <1>2, <3>2, StandingStep
      <4>. QED
        BY <2>1, <3>2, <4>1 DEF WalkOnLiveList, LinkIsAlive
    <3>3. CASE LinkIsAlive /\ handler' = Onward
      <4>1. handler' \in Handlers /\ handler'.pc = "walk"
        BY <3>3, OnwardStep
      <4>. QED
        BY <2>1, <3>3, <4>1, OnwardStep DEF WalkOnLiveList, LinkIsAlive
    <3>4. CASE handler.link # NoHandle /\ ~LinkIsAlive /\ handler' = [handler EXCEPT !.pc = "lost"]
      <4>1. handler.own
        BY <1>1, <1>4, <3>4 DEF WalkOnLiveList, HandlerWalks
      <4>2. handler' \in Handlers /\ handler'.pc = "lost" /\ handler'.own = handler.own
        BY <1>1, <3>4 DEF Handlers
      <4>. QED
        BY <4>1, <4>2 DEF WalkOnLiveList
    <3>. QED
      BY <1>4, <3>1, <3>2, <3>3, <3>4 DEF HandlerWalks
  <2>4. UNCHANGED <<EfiKeyQueue, IsSupportPartialKey, app, pressed, promised, resets>>
        /\ signalled' \in BOOLEAN
    BY <1>1, <2>1 DEF queues
  <2>. QED
    BY <2>2, <2>3, <2>4, ListStep
<1>5. CASE CallbackReturns
  <2>1. /\ UNCHANGED <<queues, NotifyList, IsSupportPartialKey, signalled, app, pressed, promised,
                       resets, changes>>
        /\ (LinkIsAlive /\ handler' = Onward) \/ (~LinkIsAlive /\ handler' \in OnwardFromFreed)
    BY <1>5 DEF CallbackReturns
  <2>2. ListOK' /\ EfiKeyQueueForNotify' \in QueuesOf(Press) /\ changes' \in 0..MaxChanges
    BY <1>1, <2>1 DEF ListOK, queues
  <2>3. handler' \in Handlers /\ WalkOnLiveList'
    <3>1. CASE LinkIsAlive /\ handler' = Onward
      <4>1. handler' \in Handlers /\ handler'.pc = "walk"
        BY <3>1, OnwardStep
      <4>. QED
        BY <2>1, <3>1, <4>1, OnwardStep DEF WalkOnLiveList, LinkIsAlive
    <3>2. CASE handler' \in OnwardFromFreed
      <4>1. handler.next \in Links
        BY <1>1 DEF Handlers
      <4>2. /\ handler' \in Handlers
            /\ handler'.own = TRUE
        <5>1. \/ handler' = Standing("walk", handler.next, TRUE)
              \/ handler' = Standing("lost", handler.link, TRUE)
          BY <3>2 DEF OnwardFromFreed
        <5>2. /\ Standing("walk", handler.next, TRUE) \in Handlers
              /\ Standing("walk", handler.next, TRUE).own = TRUE
          BY <4>1, StandingStep
        <5>3. /\ Standing("lost", handler.link, TRUE) \in Handlers
              /\ Standing("lost", handler.link, TRUE).own = TRUE
          BY <1>2, StandingStep
        <5>. QED
          BY <5>1, <5>2, <5>3
      <4>. QED
        BY <4>2 DEF WalkOnLiveList
    <3>. QED
      BY <2>1, <3>1, <3>2
  <2>5. UNCHANGED <<EfiKeyQueue, IsSupportPartialKey, app, pressed, promised, resets>>
        /\ signalled' \in BOOLEAN
    BY <1>1, <2>1 DEF queues
  <2>. QED
    BY <2>2, <2>3, <2>5, ListStep
<1>. QED
  BY <1>3, <1>4, <1>5 DEF Handler

\* What a notification function does.
LEMMA CallbackStep ==
  ASSUME IInv, Callback
  PROVE  IInv' /\ [ReadQueue!Next]_ReadQueue!vars
<1>1. /\ ListOK /\ signalled \in BOOLEAN /\ TypeOK /\ PromiseInv /\ WalkOnLiveList
      /\ EfiKeyQueueForNotify \in QueuesOf(Press)
      /\ handler \in Handlers
  BY DEF IInv, NotifyListSound, TypeOK, ListOK, Handlers
<1>2. changes \in 0..MaxChanges /\ MaxChanges \in Nat
  BY <1>1, ParametersAssumption DEF ParametersAssumption, TypeOK
<1>3. CASE CallbackReads
  <2>. PICK strokes \in Polls : Worker(strokes)
    BY <1>3 DEF CallbackReads
  <2>1. UNCHANGED <<NotifyList, IsSupportPartialKey, handler, app, resets, changes>>
    BY <1>3 DEF CallbackReads
  <2>2. /\ {EfiKeyQueue', EfiKeyQueueForNotify'} \subseteq QueuesOf(Press)
        /\ {signalled', promised'} \subseteq BOOLEAN /\ pressed' \in 0..MaxPresses
        /\ PromiseInv' /\ ReadQueue!Accept
    BY <1>1, <2>1, WorkerStep
  <2>3. IInv'
    BY <1>1, <2>1, <2>2, QueueStep DEF TypeOK
  <2>. QED
    BY <2>2, <2>3 DEF ReadQueue!Next
<1>4. CASE CallbackRegisters \/ CallbackUnregisters
  <2>1. /\ UNCHANGED <<queues, IsSupportPartialKey, signalled, app, pressed, promised, resets>>
        /\ handler.pc = "call" /\ changes < MaxChanges /\ changes' = changes + 1
    BY <1>4 DEF CallbackRegisters, CallbackUnregisters, MayChange
  <2>2. ListOK' /\ handler' \in Handlers /\ WalkOnLiveList'
    <3>1. CASE CallbackRegisters
      <4>. PICK fn \in Functions, stroke \in Registers : Register(fn, stroke)
        BY <3>1 DEF CallbackRegisters
      <4>1. handler' = handler
        BY <3>1 DEF CallbackRegisters
      <4>2. ListOK' /\ (LinkIsAlive => LinkIsAlive')
        BY <1>1, <4>1, RegisterStep DEF LinkIsAlive
      <4>. QED
        BY <1>1, <4>1, <4>2 DEF WalkOnLiveList
    <3>2. CASE CallbackUnregisters
      <4>. PICK h \in Handles :
             /\ Unregister(h)
             /\ handler' = IF h = handler.link
                             THEN [handler EXCEPT !.own = TRUE, !.next = LinkAt(Position(h) + 1)]
                             ELSE handler
        BY <3>2 DEF CallbackUnregisters
      <4>1. ListOK'
        BY <1>1, UnregisterStep
      <4>2. CASE h = handler.link
        <5>1. LinkIsAlive
          BY <4>2 DEF Unregister, LinkIsAlive
        <5>2. LinkAt(Position(h) + 1) \in Links
          BY <1>1, <4>2, <5>1, PositionValue, LinkAtValue
        <5>3. handler' \in Handlers /\ handler'.own = TRUE
          BY <1>1, <4>2, <5>2 DEF Handlers
        <5>. QED
          BY <4>1, <5>3 DEF WalkOnLiveList
      <4>3. CASE h # handler.link
        <5>1. handler' = handler /\ (LinkIsAlive => LinkIsAlive')
          BY <1>1, <4>3, UnregisterStep DEF LinkIsAlive
        <5>. QED
          BY <1>1, <4>1, <5>1 DEF WalkOnLiveList
      <4>. QED
        BY <4>2, <4>3
    <3>. QED
      BY <1>4, <3>1, <3>2
  <2>3. changes' \in 0..MaxChanges
    BY <1>2, <2>1
  <2>4. /\ UNCHANGED <<EfiKeyQueue, IsSupportPartialKey, app, pressed, promised, resets>>
        /\ EfiKeyQueueForNotify' \in QueuesOf(Press) /\ signalled' \in BOOLEAN
    BY <1>1, <2>1 DEF queues
  <2>. QED
    BY <2>2, <2>3, <2>4, ListStep
<1>. QED
  BY <1>3, <1>4 DEF Callback

\* The steps of the application.
LEMMA AppStep ==
  ASSUME IInv, App
  PROVE  IInv' /\ [ReadQueue!Next]_ReadQueue!vars
<1>1. /\ ListOK /\ TypeOK /\ PromiseInv /\ WalkOnLiveList 
      /\ {EfiKeyQueue, EfiKeyQueueForNotify} \subseteq QueuesOf(Press)
      /\ {IsSupportPartialKey, signalled, promised, resets} \subseteq BOOLEAN
      /\ pressed \in 0..MaxPresses /\ changes \in 0..MaxChanges
      /\ app \in {"idle", "reading", "not_ready"}
      /\ handler \in Handlers
  BY DEF IInv, NotifyListSound, TypeOK, ListOK, Handlers
<1>2. CASE WaitForKey
  <2>1. UNCHANGED <<NotifyList, IsSupportPartialKey, handler, app, resets, changes>>
    BY <1>2 DEF WaitForKey
  <2>2. /\ {EfiKeyQueue', EfiKeyQueueForNotify'} \subseteq QueuesOf(Press)
        /\ {signalled', promised'} \subseteq BOOLEAN /\ pressed' \in 0..MaxPresses
        /\ PromiseInv' /\ ReadQueue!Accept
    BY <1>1, <1>2, WaitForKeyStep
  <2>3. IInv'
    BY <1>1, <2>1, <2>2, QueueStep
  <2>. QED
    BY <2>2, <2>3 DEF ReadQueue!Next
<1>3. CASE ReadTurn \/ ReadKeyStrokeEx
  <2>. PICK strokes \in Polls : Worker(strokes)
    BY <1>3 DEF ReadTurn, ReadKeyStrokeEx
  <2>1. /\ UNCHANGED <<NotifyList, IsSupportPartialKey, handler, resets, changes>>
        /\ app' \in {"idle", "reading", "not_ready"}
    BY <1>1, <1>3 DEF ReadTurn, ReadKeyStrokeEx
  <2>2. /\ {EfiKeyQueue', EfiKeyQueueForNotify'} \subseteq QueuesOf(Press)
        /\ {signalled', promised'} \subseteq BOOLEAN /\ pressed' \in 0..MaxPresses
        /\ PromiseInv' /\ ReadQueue!Accept
    BY <1>1, <2>1, WorkerStep
  <2>3. IInv'
    BY <1>1, <2>1, <2>2, QueueStep
  <2>. QED
    BY <2>2, <2>3 DEF ReadQueue!Next
<1>4. CASE ReadKeyStroke \/ SetState
  <2>1. /\ UNCHANGED <<queues, NotifyList, signalled, handler, pressed, promised, resets, changes>>
        /\ IsSupportPartialKey' \in BOOLEAN /\ app' \in {"idle", "reading", "not_ready"}
    BY <1>1, <1>4 DEF ReadKeyStroke, SetState
  <2>2. PromiseInv' /\ UNCHANGED ReadQueue!vars
    BY <1>1, <2>1 DEF PromiseInv, queues, ReadQueue!vars
  <2>3. IInv'
    BY <1>1, <2>1, <2>2, QueueStep DEF queues
  <2>. QED
    BY <2>2, <2>3
<1>5. CASE Reset
  <2>1. /\ EfiKeyQueue' = Cleared(EfiKeyQueue) /\ EfiKeyQueueForNotify' = Cleared(EfiKeyQueueForNotify)
        /\ IsSupportPartialKey' = FALSE /\ resets' = ~resets /\ promised' = FALSE
        /\ UNCHANGED <<NotifyList, signalled, handler, app, pressed, changes>>
    BY <1>5 DEF Reset
  <2>2. ASSUME NEW q \in QueuesOf(Press)
        PROVE  Cleared(q) \in QueuesOf(Press) /\ Contents(Cleared(q)) = <<>>
    <3>. DEFINE r == Cleared(q)
    <3>0. 0 \in Places
      BY MaxCountAssumption DEF Places
    <3>1. r \in QueuesOf(Press) /\ IsEfikeyBufEmpty(r)
      BY <3>0 DEF Cleared, QueuesOf, IsEfikeyBufEmpty
    <3>. HIDE DEF r
    <3>2. Len(Contents(r)) = 0 /\ Contents(r) \in Seq(Press)
      BY <3>1, EmptyContents, ContentsValue
    <3>. QED
      BY <3>1, <3>2 DEF r
  <2>3. {EfiKeyQueue', EfiKeyQueueForNotify'} \subseteq QueuesOf(Press) /\ Contents(EfiKeyQueue') = <<>>
    BY <1>1, <2>1, <2>2
  <2>4. ReadQueue!Clear
    BY <2>1, <2>3 DEF ReadQueue!Clear
  <2>5. PromiseInv' /\ {IsSupportPartialKey', signalled', promised', resets'} \subseteq BOOLEAN
    BY <1>1, <2>1 DEF PromiseInv
  <2>6. IInv'
    BY <1>1, <2>1, <2>3, <2>5, QueueStep
  <2>. QED
    BY <2>4, <2>6 DEF ReadQueue!Next
<1>6. CASE RegisterKeyNotify \/ UnregisterKeyNotify
  <2>1. /\ UNCHANGED <<queues, IsSupportPartialKey, signalled, handler, app, pressed, promised, resets, changes>>
        /\ handler.pc = "idle"
    BY <1>6 DEF RegisterKeyNotify, UnregisterKeyNotify, AppRuns
  <2>2. ListOK'
    <3>1. CASE RegisterKeyNotify
      <4>. PICK fn \in Functions, stroke \in Registers : Register(fn, stroke)
        BY <3>1 DEF RegisterKeyNotify
      <4>. QED
        BY <1>1, RegisterStep
    <3>2. CASE UnregisterKeyNotify
      <4>. PICK h \in Handles : Unregister(h)
        BY <3>2 DEF UnregisterKeyNotify
      <4>. QED
        BY <1>1, UnregisterStep
    <3>. QED
      BY <1>6, <3>1, <3>2
  <2>3. WalkOnLiveList' 
    BY <2>1 DEF WalkOnLiveList
  <2>. QED
    BY <1>1, <2>1, <2>2, <2>3, ListStep DEF queues
<1>. QED
  BY <1>2, <1>3, <1>4, <1>5, <1>6 DEF App

LEMMA Step ==
  ASSUME IInv, [Next]_vars
  PROVE  IInv' /\ [ReadQueue!Next]_ReadQueue!vars
<1>1. /\ TypeOK /\ PromiseInv /\ ListOK
      /\ {EfiKeyQueue, EfiKeyQueueForNotify} \subseteq QueuesOf(Press)
      /\ {IsSupportPartialKey, signalled, promised, resets} \subseteq BOOLEAN
      /\ pressed \in 0..MaxPresses /\ changes \in 0..MaxChanges
      /\ app \in {"idle", "reading", "not_ready"}
      /\ handler \in Handlers
  BY DEF IInv, NotifyListSound, TypeOK, ListOK, Handlers
<1>2. CASE TimerPoll
  <2>1. UNCHANGED <<NotifyList, IsSupportPartialKey, handler, app, resets, changes>>
    BY <1>2 DEF TimerPoll
  <2>2. /\ {EfiKeyQueue', EfiKeyQueueForNotify'} \subseteq QueuesOf(Press)
        /\ {signalled', promised'} \subseteq BOOLEAN /\ pressed' \in 0..MaxPresses
        /\ PromiseInv' /\ ReadQueue!Accept
    BY <1>1, <1>2, TimerPollStep
  <2>3. IInv'
    BY <1>1, <2>1, <2>2, QueueStep
  <2>. QED
    BY <2>2, <2>3 DEF ReadQueue!Next
<1>3. CASE App
  BY <1>3, AppStep
<1>4. CASE Dispatch
  <2>1. /\ UNCHANGED <<queues, NotifyList, IsSupportPartialKey, app, pressed, promised, resets, changes>>
        /\ signalled' = FALSE /\ handler' = [handler EXCEPT !.pc = "pop"]
    BY <1>4 DEF Dispatch
  <2>2. handler' \in Handlers
        /\ handler'.pc = "pop"
    BY <1>1, <2>1 DEF Handlers
  <2>3. ListOK' /\ WalkOnLiveList' 
    BY <1>1, <2>1, <2>2 DEF ListOK, WalkOnLiveList
  <2>. QED
    BY <1>1, <2>1, <2>2, <2>3, ListStep DEF queues
<1>5. CASE Handler
  BY <1>5, HandlerStep
<1>6. CASE Callback
  BY <1>6, CallbackStep
<1>7. CASE UNCHANGED vars
  <2>1. UNCHANGED <<EfiKeyQueue, EfiKeyQueueForNotify, NotifyList, IsSupportPartialKey, signalled,
                    handler, app, pressed, promised, resets, changes>>
    BY <1>7 DEF vars, queues
  <2>2. PromiseInv' /\ UNCHANGED ReadQueue!vars
    BY <1>1, <2>1 DEF PromiseInv, ReadQueue!vars
  <2>3. IInv'
    BY <1>1, <2>1, <2>2, QueueStep
  <2>. QED
    BY <2>2, <2>3
<1>. QED
  BY <1>2, <1>3, <1>4, <1>5, <1>6, <1>7 DEF Next

LEMMA IInvHolds == Spec => []IInv
<1>1. Init => IInv
  BY InitOK
<1>2. IInv /\ [Next]_vars => IInv'
  BY Step
<1>. QED
  BY <1>1, <1>2, PTL DEF Spec

-----------------------------------------------------------------------------
\* The list of notifications and the queues keep their shape, and the walk of
\* KeyNotifyProcessHandler (KeypadTextIn.c:631-668), which holds no lock while a
\* notification function runs and may register or unregister any, stands on a registration
\* that has been freed only where the function it served unregistered its own.
THEOREM WalkIsSound == Spec => []NotifyListSound
<1>1. IInv => NotifyListSound
  BY DEF IInv
<1>. QED
  BY <1>1, IInvHolds, PTL

\* The reading queue is a LossyQueue: whatever polls bring, and whoever reads, presses
\* come out in the order they were made, and one is lost only to MaxCount - 1 newer
\* ones or to a reset.
THEOREM ReadingQueueIsLossyQueue == Spec => ImplementsLossyQueue
<1>1. Init => ReadQueue!Init
  BY InitOK
<1>2. IInv /\ [Next]_vars => [ReadQueue!Next]_ReadQueue!vars
  BY Step
<1>. QED
  BY <1>1, <1>2, IInvHolds, PTL DEF Spec, ReadQueue!Spec, ImplementsLossyQueue

\* When ReadKeyStroke finds its queue empty after a poll, no promise was open.
LEMMA EmptyBreaksNoPromise ==
  ASSUME IInv, [Next]_vars, app = "reading", app' = "not_ready"
  PROVE  ~promised
<1>1. TypeOK /\ PromiseInv
  BY DEF IInv, NotifyListSound
<1>2. ReadTurn
  <2>1. app' # app
    OBVIOUS
  <2>2. [Next]_vars
    OBVIOUS
  <2>. QED
    BY <2>1, <2>2 DEF Next, vars, TimerPoll, App, WaitForKey, ReadKeyStroke, ReadKeyStrokeEx, Reset, SetState,
       RegisterKeyNotify, UnregisterKeyNotify, Dispatch, Handler, HandlerPops, HandlerWalks,
       CallbackReturns, Callback, CallbackReads, CallbackRegisters, CallbackUnregisters
<1>. PICK strokes \in Polls :
       /\ Worker(strokes)
       /\ app' = IF IsEfikeyBufEmpty(Polled(strokes)) THEN "not_ready"
                 ELSE IF IsPartial(HeadKey(Polled(strokes))) THEN "reading" ELSE "idle"
  BY <1>2 DEF ReadTurn
<1>. DEFINE c == Contents(EfiKeyQueue)
            kept == Kept(Presses(strokes))
            d == Contents(Polled(strokes))
<1>3. IsEfikeyBufEmpty(Polled(strokes)) /\ pressed + Len(strokes) <= MaxPresses
  BY DEF Worker, Poll
<1>4. /\ Polled(strokes) \in QueuesOf(Press) /\ kept \in Seq(Press) /\ d = Newest(c \o kept)
      /\ c \in Seq(Press)
  BY <1>1, <1>3, PollBrings, ContentsValue DEF TypeOK
<1>5. Len(d) = 0
  BY <1>3, <1>4, EmptyContents
<1>. HIDE DEF c, kept, d
<1>6. Len(c) = 0
  <2>1. c \o kept \in Seq(Press) /\ Len(c \o kept) = Len(c) + Len(kept)
    BY <1>4
  <2>2. Len(Newest(c \o kept)) = 0
    BY <1>4, <1>5
  <2>. DEFINE all == c \o kept
  <2>3. all \in Seq(Press) /\ Len(all) = Len(c) + Len(kept) /\ Len(Newest(all)) = 0
    BY <2>1, <2>2
  <2>. HIDE DEF all
  <2>4. Len(Newest(all)) = Len(all) - Cut(all)
    BY <2>3, NewestValue
  <2>5. Len(all) \in Nat
    BY <2>3
  <2>6. Len(all) = 0
    BY <2>3, <2>4, <2>5, MaxCountAssumption DEF Cut
  <2>7. Len(c) \in Nat /\ Len(kept) \in Nat
    BY <1>4
  <2>8. Len(c) + Len(kept) = 0
    BY <2>3, <2>6
  <2>. QED
    BY <2>7, <2>8
<1>. QED
  BY <1>1, <1>6 DEF PromiseInv, PromiseKept, c

\* "if there is pending value key, signal the event" (KeypadTextIn.c:314): once WaitForKey
\* has reported a key, ReadKeyStroke does not come back without one, unless it was read,
\* reset away or pushed out meanwhile.
THEOREM WaitedKeyIsThere == Spec => WaitTellsTruth
<1>1. IInv /\ [Next]_vars => [app = "reading" /\ app' = "not_ready" => ~promised]_vars
  BY EmptyBreaksNoPromise
<1>. QED
  BY <1>1, IInvHolds, PTL DEF Spec, WaitTellsTruth

=============================================================================
