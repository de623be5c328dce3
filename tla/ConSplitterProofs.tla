-------------------------- MODULE ConSplitterProofs --------------------------
(***************************************************************************)
(* What ConSplitterIn shows of the splitter's input on two keyboards holds *)
(* of any number of them, of registrations, key presses and calls, and for *)
(* any unit by which the lists grow.                                       *)
(***************************************************************************)
EXTENDS ConSplitterIn, WellFoundedInduction, TLAPS

-----------------------------------------------------------------------------
(* The inductive invariant, one part for each thing that can go wrong.      *)
DeviceState ==
  [keys : Seq(Keys), n : 0..MaxPresses, caps : BOOLEAN, exposed : BOOLEAN,
   regs : SUBSET Registrations, pend : Seq(BOOLEAN)]
Entry == [reg : Registrations, handles : Seq(Handles)]
Calls == [active : BOOLEAN, caps : BOOLEAN, exposed : BOOLEAN, next : Nat \ {0}]

ListTypes ==
  /\ ex \in SUBSET Devices /\ opened \in SUBSET Devices
  /\ textIn \in Seq(Devices) /\ textInEx \in Seq(Devices)
  /\ textInCount \in Nat /\ exCount \in Nat /\ queueSize \in Nat
  /\ NotifyList \in Seq(Entry)
KeyTypes ==
  /\ KeyQueue \in Seq(Keys) /\ KeyEventSignalState \in BOOLEAN
  /\ last \in [Devices -> Nat] /\ pressed \in 0..MaxPresses
ToggleTypes ==
  /\ toggle \in BOOLEAN /\ exported \in BOOLEAN /\ call \in Calls
  /\ torn \in BOOLEAN /\ refused \in SUBSET Devices
  /\ removed \in SUBSET Devices /\ shifted \in BOOLEAN /\ calls \in Nat
Types == ListTypes /\ KeyTypes /\ ToggleTypes /\ dev \in [Devices -> DeviceState]

\* The lists name each keyboard once, the second only those of the first.
Lists ==
  /\ IsInjective(textIn) /\ ToSet(textIn) \subseteq opened
  /\ IsInjective(textInEx) /\ ToSet(textInEx) \subseteq ToSet(textIn) \cap ex

\* KeyQueue and each NotifyHandleList are as long as TextInExList or, when
\* memory ran out in between, by one unit longer.
Room ==
  /\ Len(textIn) <= textInCount /\ Len(textInEx) <= exCount
  /\ queueSize \in {exCount, exCount + AllocUnit}
  /\ Len(KeyQueue) <= queueSize
  /\ \A i \in DOMAIN NotifyList : exCount <= Len(NotifyList[i].handles)

\* A keyboard holds its own keys, and none is younger than its last press.
KeyNumbers ==
  /\ \A d \in Devices :
       /\ dev[d].n <= pressed /\ last[d] <= dev[d].n
       /\ \A i \in DOMAIN dev[d].keys : dev[d].keys[i].dev = d /\ dev[d].keys[i].n <= dev[d].n
  /\ \A i \in DOMAIN KeyQueue : KeyQueue[i].n <= dev[KeyQueue[i].dev].n
KeyOrder == KeyNumbers /\ KeysInOrder

\* No registration covers a later one, and the splitter's own is never gone.
Apart(list) ==
  /\ \A i, j \in DOMAIN list : i < j => ~Covers(list[i].reg, list[j].reg)
  /\ \E i \in DOMAIN list : list[i].reg = ToggleSync
  /\ \A i \in DOMAIN list : \A j \in DOMAIN list[i].handles :
       LET h == list[i].handles[j] IN h = NoHandle \/ h.reg.fn = list[i].reg.fn
Entries == Apart(NotifyList) /\ \A d \in ToSet(textInEx) : ToggleSync \in dev[d].regs

\* Until a keyboard other than the last is removed, each place of a
\* NotifyHandleList has the handle of the keyboard at that place.
HandlesInPlace ==
  ~shifted => \A i \in DOMAIN NotifyList, j \in DOMAIN textInEx :
    textInEx[j] \notin removed =>
      NotifyList[i].handles[j] = [dev |-> textInEx[j], reg |-> NotifyList[i].reg]
RegistrationOrder == Entries /\ HandlesInPlace /\ RegistrationsAgree

\* A keyboard that does not have the state recorded, or the state being set,
\* has a notification under way for the state it has.
Settled(d, caps) ==
  d \notin refused =>
    /\ dev[d].exposed
    /\ dev[d].caps = caps \/ (dev[d].pend # <<>> /\ Last(dev[d].pend) = dev[d].caps)
Toggles ==
  ~torn => IF call.active
           THEN \A i \in DOMAIN textInEx : i < call.next => Settled(textInEx[i], call.caps)
           ELSE \A d \in ToSet(textInEx) : Settled(d, toggle)

IInv == Types /\ Lists /\ Room /\ KeyOrder /\ RegistrationOrder /\ Toggles

-----------------------------------------------------------------------------
(* Sequences                                                                *)

\* A nonempty set of naturals has a least element.
LEMMA LeastOf == ASSUME NEW S \in SUBSET Nat, S # {} PROVE Min(S) \in S /\ \A x \in S : Min(S) <= x
<1>1. PICK x \in S : \A y \in S : ~(<<y, x>> \in OpToRel(<, Nat))
  BY NatLessThanWellFounded, WFMin, Zenon
<1>2. \A y \in S : x <= y
  <2>1. \A y \in S : ~(y < x) /\ x \in Nat /\ y \in Nat
    BY <1>1, Zenon DEF OpToRel
  <2>. QED
    BY <2>1
<1>. QED
  BY <1>2 DEF Min

\* Whatever holds at 0 and after each number for which it holds, for a set.
LEMMA UpTo == ASSUME NEW n \in Nat, NEW S, 0 \in S, \A i \in 0..n : i \in S /\ i < n => i + 1 \in S
  PROVE \A i \in 0..n : i \in S
<1>. SUFFICES ASSUME NEW m \in 0..n, m \notin S PROVE FALSE
  OBVIOUS
<1>. DEFINE T == {i \in 0..n : i \notin S}
<1>1. T \in SUBSET Nat /\ T # {}
  OBVIOUS
<1>2. Min(T) \in T /\ \A x \in T : Min(T) <= x
  <2>. HIDE DEF T
  <2>. QED
    BY <1>1, LeastOf
<1>3. PICK x \in T : \A y \in T : x <= y
  BY <1>2
<1>4. x # 0 /\ x - 1 \in 0..n /\ x - 1 < n
  OBVIOUS
<1>5. x - 1 \in S
  BY <1>3, <1>4
<1>. QED
  BY <1>4, <1>5

\* s is what is left of t when some of its first elements are gone.
Suffix(s, t) ==
  \E k \in Nat : k <= Len(t) /\ Len(s) = Len(t) - k /\ \A i \in 1..Len(s) : s[i] = t[i + k]

LEMMA SuffixSelf == ASSUME NEW S, NEW t \in Seq(S) PROVE Suffix(t, t)
<1>1. 0 \in Nat /\ 0 <= Len(t) /\ Len(t) = Len(t) - 0
  OBVIOUS
<1>2. \A i \in 1..Len(t) : t[i] = t[i + 0]
  OBVIOUS
<1>. QED
  BY <1>1, <1>2, Zenon DEF Suffix

LEMMA SuffixEmpty == ASSUME NEW S, NEW t \in Seq(S) PROVE Suffix(<<>>, t) /\ <<>> \in Seq(S)
<1>0. <<>> \in Seq(S) /\ Len(<<>>) = 0
  OBVIOUS
<1>1. PICK s : s = <<>> /\ Len(s) = 0 /\ s \in Seq(S)
  BY <1>0
<1>2. PICK k \in Nat : k = Len(t)
  OBVIOUS
<1>3. k <= Len(t) /\ Len(s) = Len(t) - k /\ \A i \in 1..Len(s) : s[i] = t[i + k]
  BY <1>1, <1>2
<1>4. Suffix(s, t)
  BY <1>3 DEF Suffix
<1>. QED
  BY <1>1, <1>4

LEMMA SuffixAgain ==
  ASSUME NEW S, NEW t \in Seq(S), NEW s \in Seq(S), NEW r \in Seq(S), Suffix(s, t), Suffix(r, s)
  PROVE Suffix(r, t)
<1>1. PICK k \in Nat : k <= Len(t) /\ Len(s) = Len(t) - k /\ \A i \in 1..Len(s) : s[i] = t[i + k]
  BY DEF Suffix
<1>2. PICK m \in Nat : m <= Len(s) /\ Len(r) = Len(s) - m /\ \A i \in 1..Len(r) : r[i] = s[i + m]
  BY DEF Suffix
<1>3. k + m \in Nat /\ k + m <= Len(t) /\ Len(r) = Len(t) - (k + m)
  BY <1>1, <1>2
<1>4. ASSUME NEW i \in 1..Len(r) PROVE r[i] = t[i + (k + m)]
  <2>1. i + m \in 1..Len(s) /\ (i + m) + k = i + (k + m)
    BY <1>2
  <2>. QED
    BY <1>1, <1>2, <2>1
<1>. QED
  BY <1>3, <1>4 DEF Suffix

LEMMA TailIs == ASSUME NEW S, NEW t \in Seq(S), t # <<>>
  PROVE /\ Tail(t) \in Seq(S) /\ Len(Tail(t)) = Len(t) - 1 /\ Suffix(Tail(t), t)
        /\ Head(t) = t[1] /\ 1 \in DOMAIN t /\ Head(t) \in S
        /\ \A i \in 1..Len(Tail(t)) : Tail(t)[i] = t[i + 1]
        /\ ToSet(t) = {Head(t)} \cup ToSet(Tail(t))
<1>1. Tail(t) \in Seq(S) /\ Len(Tail(t)) = Len(t) - 1 /\ Len(t) \in Nat \ {0} /\ Head(t) = t[1]
  OBVIOUS
<1>2. \A i \in 1..Len(Tail(t)) : Tail(t)[i] = t[i + 1]
  OBVIOUS
<1>3. Suffix(Tail(t), t)
  BY <1>1, <1>2 DEF Suffix
<1>4. DOMAIN t = 1..Len(t) /\ DOMAIN Tail(t) = 1..Len(Tail(t))
  BY <1>1
<1>5. ASSUME NEW i \in DOMAIN t PROVE t[i] \in {Head(t)} \cup ToSet(Tail(t))
  <2>1. CASE i = 1
    BY <2>1, <1>1
  <2>2. CASE i # 1
    <3>1. i - 1 \in 1..Len(Tail(t)) /\ (i - 1) + 1 = i
      BY <2>2, <1>1, <1>4
    <3>. QED
      BY <3>1, <1>2, <1>4 DEF ToSet
  <2>. QED
    BY <2>1, <2>2
<1>6. ASSUME NEW i \in DOMAIN Tail(t) PROVE Tail(t)[i] \in ToSet(t)
  <2>1. i + 1 \in DOMAIN t
    BY <1>1, <1>4
  <2>. QED
    BY <2>1, <1>2, <1>4 DEF ToSet
<1>7. Head(t) \in ToSet(t)
  BY <1>1, <1>4 DEF ToSet
<1>8. ToSet(t) = {Head(t)} \cup ToSet(Tail(t))
  BY <1>5, <1>6, <1>7 DEF ToSet
<1>. QED
  BY <1>1, <1>2, <1>3, <1>4, <1>8

LEMMA SubSeqIs == ASSUME NEW S, NEW t \in Seq(S), NEW m \in 1..Len(t)
  PROVE LET s == SubSeq(t, m, Len(t))
        IN /\ s \in Seq(S) /\ Len(s) = Len(t) - m + 1 /\ Suffix(s, t) /\ s # <<>> /\ Head(s) = t[m]
           /\ \A i \in m..Len(t) : t[i] \in ToSet(s)
<1>. DEFINE s == SubSeq(t, m, Len(t))
<1>1. s \in Seq(S) /\ Len(s) = Len(t) - m + 1 /\ Len(t) \in Nat
  OBVIOUS
<1>2. \A i \in 1..Len(s) : s[i] = t[i + (m - 1)]
  OBVIOUS
<1>. HIDE DEF s
<1>3. DOMAIN s = 1..Len(s) /\ s # <<>> /\ Head(s) = s[1] /\ s[1] = t[m]
  <2>1. Len(s) # 0 /\ 1 \in 1..Len(s) /\ 1 + (m - 1) = m
    BY <1>1
  <2>. QED
    BY <2>1, <1>1, <1>2
<1>4. Suffix(s, t)
  <2>1. m - 1 \in Nat /\ m - 1 <= Len(t) /\ Len(s) = Len(t) - (m - 1)
    BY <1>1
  <2>. QED
    BY <2>1, <1>2 DEF Suffix
<1>5. ASSUME NEW i \in m..Len(t) PROVE t[i] \in ToSet(s)
  <2>1. i - (m - 1) \in 1..Len(s) /\ (i - (m - 1)) + (m - 1) = i
    BY <1>1
  <2>2. t[i] = s[i - (m - 1)]
    BY <1>2, <2>1
  <2>. QED
    BY <2>1, <2>2, <1>3 DEF ToSet
<1>. QED
  BY <1>1, <1>3, <1>4, <1>5 DEF s

\* What DropPartial leaves starts with a complete key, and has every complete key.
LEMMA DropIs == ASSUME NEW ks \in Seq(Keys)
  PROVE /\ DropPartial(ks) \in Seq(Keys) /\ Suffix(DropPartial(ks), ks)
        /\ DropPartial(ks) # <<>> => Complete(Head(DropPartial(ks)))
        /\ \A i \in DOMAIN ks : Complete(ks[i]) => ks[i] \in ToSet(DropPartial(ks))
<1>. DEFINE whole == {i \in DOMAIN ks : Complete(ks[i])}
<1>1. CASE whole = {}
  <2>1. DropPartial(ks) = <<>>
    BY <1>1 DEF DropPartial
  <2>. QED
    BY <1>1, <2>1, SuffixEmpty
<1>2. CASE whole # {}
  <2>1. DOMAIN ks = 1..Len(ks) /\ Len(ks) \in Nat
    OBVIOUS
  <2>2. whole \in SUBSET Nat
    BY <2>1
  <2>3. Min(whole) \in whole /\ \A i \in whole : Min(whole) <= i
    <3>. HIDE DEF whole
    <3>. QED
      BY <1>2, <2>2, LeastOf
  <2>4. PICK m : m = Min(whole)
    OBVIOUS
  <2>5. m \in 1..Len(ks) /\ Complete(ks[m]) /\ \A i \in whole : m <= i
    BY <2>1, <2>3, <2>4
  <2>6. DropPartial(ks) = SubSeq(ks, m, Len(ks))
    BY <1>2, <2>4 DEF DropPartial
  <2>7. /\ DropPartial(ks) \in Seq(Keys) /\ Suffix(DropPartial(ks), ks) /\ Head(DropPartial(ks)) = ks[m]
        /\ \A i \in m..Len(ks) : ks[i] \in ToSet(DropPartial(ks))
    BY <2>5, <2>6, SubSeqIs, Zenon
  <2>8. ASSUME NEW i \in DOMAIN ks, Complete(ks[i]) PROVE i \in m..Len(ks)
    BY <2>1, <2>5, <2>8
  <2>. QED
    BY <2>5, <2>7, <2>8
<1>. QED
  BY <1>1, <1>2

LEMMA SuffixSet == ASSUME NEW S, NEW t \in Seq(S), NEW s \in Seq(S), Suffix(s, t)
  PROVE ToSet(s) \subseteq ToSet(t)
<1>1. PICK k \in Nat : k <= Len(t) /\ Len(s) = Len(t) - k /\ \A i \in 1..Len(s) : s[i] = t[i + k]
  BY DEF Suffix
<1>2. DOMAIN s = 1..Len(s) /\ DOMAIN t = 1..Len(t) /\ Len(t) \in Nat
  OBVIOUS
<1>3. ASSUME NEW i \in DOMAIN s PROVE s[i] \in ToSet(t)
  <2>1. i + k \in DOMAIN t
    BY <1>1, <1>2
  <2>. QED
    BY <2>1, <1>1, <1>2 DEF ToSet
<1>. QED
  BY <1>3 DEF ToSet

\* A function that is given from 0 up, each value by the one before, exists.
LEMMA Recursion ==
  ASSUME NEW T, NEW a \in T, NEW n \in Nat, NEW G \in [1..n -> [T -> T]]
  PROVE \E f \in [0..n -> T] : f[0] = a /\ \A i \in 1..n : f[i] = G[i][f[i - 1]]
<1>. DEFINE Is(f, m) == f[0] = a /\ \A i \in 1..m : f[i] = G[i][f[i - 1]]
            S == {m \in 0..n : \E f \in [0..m -> T] : Is(f, m)}
<1>1. 0 \in S
  <2>. DEFINE f == [i \in 0..0 |-> a]
  <2>1. f \in [0..0 -> T] /\ f[0] = a /\ 1..0 = {}
    OBVIOUS
  <2>. HIDE DEF f
  <2>2. Is(f, 0)
    BY <2>1
  <2>. QED
    BY <2>1, <2>2
<1>2. ASSUME NEW m \in 0..n, m \in S, m < n PROVE m + 1 \in S
  <2>1. PICK f \in [0..m -> T] : Is(f, m)
    BY <1>2
  <2>. DEFINE g == [i \in 0..(m + 1) |-> IF i = m + 1 THEN G[m + 1][f[m]] ELSE f[i]]
  <2>2. m + 1 \in 1..n /\ m \in 0..m
    BY <1>2
  <2>3. G[m + 1][f[m]] \in T
    BY <2>1, <2>2
  <2>4. g \in [0..(m + 1) -> T]
    BY <2>3
  <2>5. g[m + 1] = G[m + 1][f[m]] /\ \A i \in 0..m : g[i] = f[i]
    BY <1>2
  <2>. HIDE DEF g
  <2>6. g[0] = a
    BY <1>2, <2>1, <2>5
  <2>7. ASSUME NEW i \in 1..(m + 1) PROVE g[i] = G[i][g[i - 1]]
    <3>1. CASE i = m + 1
      BY <3>1, <2>2, <2>5
    <3>2. CASE i # m + 1
      <4>1. i \in 1..m /\ i - 1 \in 0..m /\ i \in 0..m
        BY <3>2, <1>2
      <4>. QED
        BY <4>1, <2>1, <2>5
    <3>. QED
      BY <3>1, <3>2
  <2>. QED
    BY <1>2, <2>2, <2>4, <2>6, <2>7
<1>3. \A i \in 0..n : i \in S
  <2>. HIDE DEF S
  <2>. QED
    BY <1>1, <1>2, UpTo
<1>4. n \in 0..n
  OBVIOUS
<1>. QED
  BY <1>3, <1>4

-----------------------------------------------------------------------------
(* Registrations                                                            *)

LEMMA RegistrationsAre == ASSUME SplitterAssumption
  PROVE /\ ToggleSync \in Registrations /\ NoHandle \in Handles
        /\ \A r \in Requests : r.fn # ToggleSync.fn /\ r \in Registrations /\ r # ToggleSync
        /\ \A r \in Registrations : Covers(r, r) /\ (Covers(r, ToggleSync) <=> r = ToggleSync)
        /\ \A r, s \in Registrations : Covers(r, s) => r.fn = s.fn
        /\ \A r \in Registrations : r.fn = ToggleSync.fn => r = ToggleSync
        /\ \A d \in Devices : \A r \in Registrations : [dev |-> d, reg |-> r] \in Handles
        /\ \A h \in Handles : h.reg \in Registrations
BY DEF SplitterAssumption, Requests, Registrations, ToggleSync, Handles, NoHandle, Covers

LEMMA RegisterIs ==
  ASSUME SplitterAssumption, NEW d \in Devices, NEW regs \in SUBSET Registrations, NEW r \in Registrations
  PROVE LET m == Register(d, regs, r)
        IN /\ m.regs \in SUBSET Registrations /\ regs \subseteq m.regs /\ m.regs \subseteq regs \cup {r}
           /\ m.handle \in Handles /\ m.handle.dev = d /\ m.handle.reg \in m.regs
           /\ Covers(m.handle.reg, r)
           /\ (\A s \in regs : ~Covers(s, r)) =>
                m.regs = regs \cup {r} /\ m.handle = [dev |-> d, reg |-> r]
<1>. DEFINE old == {s \in regs : Covers(s, r)}
<1>1. CASE old = {}
  <2>1. Register(d, regs, r) = [regs |-> regs \cup {r}, handle |-> [dev |-> d, reg |-> r]]
    BY <1>1 DEF Register
  <2>. QED
    BY <2>1, RegistrationsAre
<1>2. CASE old # {}
  <2>1. PICK s \in old : s = CHOOSE x \in old : TRUE
    BY <1>2
  <2>2. Register(d, regs, r) = [regs |-> regs \cup {s}, handle |-> [dev |-> d, reg |-> s]]
    BY <1>2, <2>1 DEF Register
  <2>3. ~\A t \in regs : ~Covers(t, r)
    BY <1>2
  <2>. QED
    BY <2>1, <2>2, <2>3, RegistrationsAre
<1>. QED
  BY <1>1, <1>2

\* RegisterFirst as what its first k steps make of each other.
Progress == [regs : SUBSET Registrations, handles : Seq(Handles)]
RegisterNext(d, p, r) ==
  LET m == Register(d, p.regs, r) IN [regs |-> m.regs, handles |-> Append(p.handles, m.handle)]

LEMMA RegisterNextIs ==
  ASSUME SplitterAssumption, NEW d \in Devices, NEW p \in Progress, NEW r \in Registrations
  PROVE LET q == RegisterNext(d, p, r)
            m == Register(d, p.regs, r)
        IN /\ q \in Progress /\ q.regs = m.regs /\ Len(q.handles) = Len(p.handles) + 1
           /\ q.handles[Len(p.handles) + 1] = m.handle
           /\ \A i \in 1..Len(p.handles) : q.handles[i] = p.handles[i]
<1>1. p.regs \in SUBSET Registrations /\ p.handles \in Seq(Handles)
  BY DEF Progress
<1>2. PICK m : m = Register(d, p.regs, r)
  OBVIOUS
<1>3. m.regs \in SUBSET Registrations /\ m.handle \in Handles
  <2>1. ASSUME NEW regs \in SUBSET Registrations
        PROVE Register(d, regs, r).regs \in SUBSET Registrations /\ Register(d, regs, r).handle \in Handles
    BY RegisterIs
  <2>. QED
    BY <1>1, <1>2, <2>1
<1>4. RegisterNext(d, p, r) = [regs |-> m.regs, handles |-> Append(p.handles, m.handle)]
  BY <1>2 DEF RegisterNext
<1>. QED
  BY <1>1, <1>2, <1>3, <1>4 DEF Progress

LEMMA RegisterFirstIs ==
  ASSUME SplitterAssumption, Types, NEW d \in Devices, NEW k \in 0..Len(NotifyList)
  PROVE \E Made \in [0..k -> Progress] :
          /\ RegisterFirst(d, k) = Made[k]
          /\ Made[0] = [regs |-> dev[d].regs, handles |-> <<>>]
          /\ \A i \in 1..k : Made[i] = RegisterNext(d, Made[i - 1], NotifyList[i].reg)
<1>. DEFINE a == [regs |-> dev[d].regs, handles |-> <<>>]
            Is(f) == f = [i \in 0..k |-> IF i = 0 THEN a ELSE RegisterNext(d, f[i - 1], NotifyList[i].reg)]
            G == [i \in 1..k |-> [p \in Progress |-> RegisterNext(d, p, NotifyList[i].reg)]]
            made == CHOOSE f : Is(f)
<1>1. k \in Nat /\ \A i \in 1..k : NotifyList[i].reg \in Registrations
  <2>1. NotifyList \in Seq(Entry)
    BY DEF Types, ListTypes
  <2>2. k \in Nat /\ \A i \in 1..k : NotifyList[i] \in Entry
    BY <2>1
  <2>. QED
    BY <2>2 DEF Entry
<1>2. a \in Progress
  <2>1. dev[d].regs \in SUBSET Registrations /\ <<>> \in Seq(Handles)
    BY DEF Types, DeviceState
  <2>. QED
    BY <2>1 DEF Progress
<1>3. G \in [1..k -> [Progress -> Progress]]
  <2>1. \A i \in 1..k : \A p \in Progress : RegisterNext(d, p, NotifyList[i].reg) \in Progress
    BY <1>1, RegisterNextIs, Zenon
  <2>. QED
    BY <2>1
<1>4. PICK W \in [0..k -> Progress] : W[0] = a /\ \A i \in 1..k : W[i] = G[i][W[i - 1]]
  <2>. HIDE DEF a, G
  <2>. QED
    BY <1>1, <1>2, <1>3, Recursion
<1>5. \A i \in 1..k : W[i] = RegisterNext(d, W[i - 1], NotifyList[i].reg)
  <2>1. \A i \in 1..k : i - 1 \in 0..k /\ W[i - 1] \in Progress
    BY <1>1, <1>4
  <2>. QED
    BY <1>4, <2>1
<1>6. Is(W)
  <2>1. \A i \in 0..k : W[i] = IF i = 0 THEN a ELSE RegisterNext(d, W[i - 1], NotifyList[i].reg)
    BY <1>1, <1>4, <1>5
  <2>. HIDE DEF a
  <2>. QED
    BY <2>1
<1>7. Is(made)
  BY <1>6
<1>8. RegisterFirst(d, k) = made[k]
  BY DEF RegisterFirst, RegisterNext
<1>. HIDE DEF made, a
<1>9. made[0] = a /\ \A i \in 1..k : made[i] = RegisterNext(d, made[i - 1], NotifyList[i].reg)
  BY <1>1, <1>7
<1>10. \A i \in 0..k : made[i] = W[i]
  <2>. DEFINE T == {i \in 0..k : made[i] = W[i]}
  <2>1. 0 \in T
    BY <1>1, <1>4, <1>9
  <2>2. \A i \in 0..k : i \in T /\ i < k => i + 1 \in T
    <3>1. SUFFICES ASSUME NEW i \in 0..k, made[i] = W[i], i < k PROVE made[i + 1] = W[i + 1] /\ i + 1 \in 0..k
      OBVIOUS
    <3>2. i + 1 \in 1..k /\ (i + 1) - 1 = i
      BY <3>1
    <3>. QED
      BY <3>1, <3>2, <1>5, <1>9
  <2>. HIDE DEF T
  <2>3. \A i \in 0..k : i \in T
    BY <1>1, <2>1, <2>2, UpTo
  <2>. QED
    BY <2>3 DEF T
<1>11. RegisterFirst(d, k) = W[k]
  BY <1>1, <1>8, <1>10
<1>. QED
  BY <1>4, <1>5, <1>11 DEF a

LEMMA ListOfEntries == ASSUME Types
  PROVE /\ NotifyList \in Seq(Entry) /\ Len(NotifyList) \in Nat /\ DOMAIN NotifyList = 1..Len(NotifyList)
        /\ \A i \in DOMAIN NotifyList :
             /\ NotifyList[i] \in Entry /\ NotifyList[i].reg \in Registrations
             /\ NotifyList[i].handles \in Seq(Handles)
<1>1. NotifyList \in Seq(Entry)
  BY DEF Types, ListTypes
<1>2. Len(NotifyList) \in Nat /\ DOMAIN NotifyList = 1..Len(NotifyList) /\ \A i \in DOMAIN NotifyList : NotifyList[i] \in Entry
  BY <1>1
<1>. QED
  BY <1>1, <1>2 DEF Entry

LEMMA FieldsAre == ASSUME NEW s \in DeviceState
  PROVE /\ s.keys \in Seq(Keys) /\ s.n \in 0..MaxPresses /\ s.caps \in BOOLEAN /\ s.exposed \in BOOLEAN
        /\ s.regs \in SUBSET Registrations /\ s.pend \in Seq(BOOLEAN)
BY DEF DeviceState

\* A handle for each entry, of the keyboard, for a registration that covers it.
LEMMA RegisterFirstMakes ==
  ASSUME SplitterAssumption, Types, NEW d \in Devices, NEW k \in 0..Len(NotifyList)
  PROVE LET m == RegisterFirst(d, k)
        IN /\ m.regs \in SUBSET Registrations /\ dev[d].regs \subseteq m.regs
           /\ m.handles \in Seq(Handles) /\ Len(m.handles) = k
           /\ \A i \in 1..k : /\ m.handles[i].dev = d /\ m.handles[i].reg \in m.regs
                              /\ Covers(m.handles[i].reg, NotifyList[i].reg)
<1>1. PICK Made \in [0..k -> Progress] :
        /\ RegisterFirst(d, k) = Made[k]
        /\ Made[0] = [regs |-> dev[d].regs, handles |-> <<>>]
        /\ \A i \in 1..k : Made[i] = RegisterNext(d, Made[i - 1], NotifyList[i].reg)
  BY RegisterFirstIs
<1>. DEFINE Good(m, j) ==
       /\ dev[d].regs \subseteq m.regs /\ Len(m.handles) = j
       /\ \A i \in 1..j : /\ m.handles[i].dev = d /\ m.handles[i].reg \in m.regs
                          /\ Covers(m.handles[i].reg, NotifyList[i].reg)
     S == {j \in 0..k : Good(Made[j], j)}
<1>2. k \in Nat /\ k <= Len(NotifyList)
  BY ListOfEntries
<1>3. 0 \in S
  <2>1. Len(Made[0].handles) = 0 /\ Made[0].regs = dev[d].regs
    BY <1>1
  <2>2. 1..0 = {}
    OBVIOUS
  <2>. QED
    BY <1>2, <2>1, <2>2
<1>4. ASSUME NEW j \in 0..k, j \in S, j < k PROVE j + 1 \in S
  <2>. DEFINE r == NotifyList[j + 1].reg
              p == Made[j]
              m == Register(d, p.regs, r)
              q == Made[j + 1]
  <2>1. j + 1 \in 1..k /\ (j + 1) - 1 = j /\ j + 1 \in 0..k /\ j \in Nat
    BY <1>2, <1>4
  <2>2. r \in Registrations
    BY <1>2, <2>1, ListOfEntries
  <2>3. p \in Progress /\ p.regs \in SUBSET Registrations
    BY <1>1 DEF Progress
  <2>4. q = RegisterNext(d, p, r)
    BY <1>1, <2>1
  <2>5. Good(p, j)
    BY <1>4
  <2>. HIDE DEF r, p, q
  <2>6. /\ q.regs = m.regs /\ Len(q.handles) = Len(p.handles) + 1
        /\ q.handles[Len(p.handles) + 1] = m.handle
        /\ \A i \in 1..Len(p.handles) : q.handles[i] = p.handles[i]
    BY <2>2, <2>3, <2>4, RegisterNextIs
  <2>7. /\ p.regs \subseteq m.regs
        /\ m.handle.dev = d /\ m.handle.reg \in m.regs /\ Covers(m.handle.reg, r)
    BY <2>2, <2>3, RegisterIs
  <2>8. ASSUME NEW i \in 1..(j + 1)
        PROVE /\ q.handles[i].dev = d /\ q.handles[i].reg \in q.regs
              /\ Covers(q.handles[i].reg, NotifyList[i].reg)
    <3>1. CASE i = j + 1
      BY <3>1, <2>5, <2>6, <2>7 DEF r
    <3>2. CASE i # j + 1
      <4>1. i \in 1..j
        BY <3>2, <2>1
      <4>. QED
        BY <4>1, <2>5, <2>6, <2>7
    <3>. QED
      BY <3>1, <3>2
  <2>9. Good(q, j + 1)
    BY <2>5, <2>6, <2>7, <2>8
  <2>. QED
    BY <2>1, <2>9 DEF q
<1>5. k \in S
  <2>. HIDE DEF S
  <2>1. \A j \in 0..k : j \in S
    BY <1>2, <1>3, <1>4, UpTo
  <2>. QED
    BY <1>2, <2>1
<1>6. Good(RegisterFirst(d, k), k) /\ RegisterFirst(d, k) \in Progress
  BY <1>1, <1>5
<1>. QED
  BY <1>6 DEF Progress

\* On a keyboard without registrations each entry is registered as it is.
LEMMA RegisterFirstOnFresh ==
  ASSUME SplitterAssumption, Types, NEW d \in Devices, NEW k \in 0..Len(NotifyList)
  PROVE dev[d].regs = {} /\ Entries =>
        LET m == RegisterFirst(d, k)
        IN /\ m.regs = {NotifyList[i].reg : i \in 1..k}
           /\ \A i \in 1..k : m.handles[i] = [dev |-> d, reg |-> NotifyList[i].reg]
<1>1. PICK Made \in [0..k -> Progress] :
        /\ RegisterFirst(d, k) = Made[k]
        /\ Made[0] = [regs |-> dev[d].regs, handles |-> <<>>]
        /\ \A i \in 1..k : Made[i] = RegisterNext(d, Made[i - 1], NotifyList[i].reg)
  BY RegisterFirstIs
<1>. HAVE dev[d].regs = {} /\ Entries
<1>. DEFINE Good(m, j) ==
       /\ m.regs = {NotifyList[i].reg : i \in 1..j} /\ Len(m.handles) = j
       /\ \A i \in 1..j : m.handles[i] = [dev |-> d, reg |-> NotifyList[i].reg]
     S == {j \in 0..k : Good(Made[j], j)}
<1>2. k \in Nat /\ k <= Len(NotifyList) /\ DOMAIN NotifyList = 1..Len(NotifyList) /\ Len(NotifyList) \in Nat
  BY ListOfEntries
<1>3. 0 \in S
  <2>1. Len(Made[0].handles) = 0 /\ Made[0].regs = {}
    BY <1>1
  <2>2. 1..0 = {}
    OBVIOUS
  <2>. QED
    BY <1>2, <2>1, <2>2
<1>4. ASSUME NEW j \in 0..k, j \in S, j < k PROVE j + 1 \in S
  <2>. DEFINE r == NotifyList[j + 1].reg
              p == Made[j]
              m == Register(d, p.regs, r)
              q == Made[j + 1]
  <2>1. j + 1 \in 1..k /\ (j + 1) - 1 = j /\ j + 1 \in 0..k /\ j \in Nat
    BY <1>2, <1>4
  <2>2. r \in Registrations
    BY <1>2, <2>1, ListOfEntries
  <2>3. p \in Progress /\ p.regs \in SUBSET Registrations
    BY <1>1 DEF Progress
  <2>4. q = RegisterNext(d, p, r)
    BY <1>1, <2>1
  <2>5. Good(p, j)
    BY <1>4
  <2>6. \A i \in 1..j : ~Covers(NotifyList[i].reg, r)
    <3>1. \A i \in 1..j : i < j + 1 /\ i \in DOMAIN NotifyList /\ j + 1 \in DOMAIN NotifyList
      BY <1>2, <2>1
    <3>. QED
      BY <3>1 DEF Entries, Apart
  <2>. HIDE DEF r, p, q
  <2>7. /\ q.regs = m.regs /\ Len(q.handles) = Len(p.handles) + 1
        /\ q.handles[Len(p.handles) + 1] = m.handle
        /\ \A i \in 1..Len(p.handles) : q.handles[i] = p.handles[i]
    BY <2>2, <2>3, <2>4, RegisterNextIs
  <2>8. \A s \in p.regs : ~Covers(s, r)
    BY <2>5, <2>6
  <2>9. m.regs = p.regs \cup {r} /\ m.handle = [dev |-> d, reg |-> r]
    <3>1. Register(d, p.regs, r) = [regs |-> p.regs \cup {r}, handle |-> [dev |-> d, reg |-> r]]
      BY <2>8 DEF Register
    <3>. QED
      BY <3>1
  <2>10. ASSUME NEW i \in 1..(j + 1) PROVE q.handles[i] = [dev |-> d, reg |-> NotifyList[i].reg]
    <3>1. CASE i = j + 1
      BY <3>1, <2>5, <2>7, <2>9 DEF r
    <3>2. CASE i # j + 1
      <4>1. i \in 1..j
        BY <3>2, <2>1
      <4>. QED
        BY <4>1, <2>5, <2>7
    <3>. QED
      BY <3>1, <3>2
  <2>11. 1..(j + 1) = (1..j) \cup {j + 1}
    BY <2>1
  <2>12. q.regs = {NotifyList[i].reg : i \in 1..(j + 1)}
    BY <2>5, <2>7, <2>9, <2>11 DEF r
  <2>13. Len(q.handles) = j + 1
    BY <2>5, <2>7
  <2>. QED
    BY <2>1, <2>10, <2>12, <2>13 DEF q
<1>5. k \in S
  <2>. HIDE DEF S
  <2>1. \A j \in 0..k : j \in S
    BY <1>2, <1>3, <1>4, UpTo
  <2>. QED
    BY <1>2, <2>1
<1>6. Good(RegisterFirst(d, k), k)
  BY <1>1, <1>5
<1>. QED
  BY <1>6

-----------------------------------------------------------------------------
(* Saving keys                                                              *)

\* The keys of KeyQueue are of different keyboards, each the first of its keyboard.
SavedFrom(ks, D, j) ==
  /\ Len(ks) <= j
  /\ \A i \in 1..Len(ks) : \E x \in 1..j : textInEx[x] \in D /\ ks[i] = Head(dev[textInEx[x]].keys)
  /\ \A i, l \in 1..Len(ks) : ks[i].dev = ks[l].dev => i = l
  /\ \A x \in 1..j : textInEx[x] \in D /\ (exported \/ Complete(Head(dev[textInEx[x]].keys)))
       => \E i \in 1..Len(ks) : ks[i] = Head(dev[textInEx[x]].keys)

SaveNext(ks, D, d) ==
  IF d \in D /\ (exported \/ Complete(Head(dev[d].keys))) THEN Append(ks, Head(dev[d].keys)) ELSE ks

LEMMA SavedIs ==
  ASSUME Types, NEW D \in SUBSET ToSet(textInEx), \A d \in D : dev[d].keys # <<>>
  PROVE \E After \in [0..Len(textInEx) -> Seq(Keys)] :
          /\ Saved(D) = After[Len(textInEx)] /\ After[0] = <<>>
          /\ \A i \in 1..Len(textInEx) : After[i] = SaveNext(After[i - 1], D, textInEx[i])
<1>. DEFINE n == Len(textInEx)
            a == <<>>
            Is(f) == f = [i \in 0..n |-> IF i = 0 THEN a ELSE SaveNext(f[i - 1], D, textInEx[i])]
            G == [i \in 1..n |-> [ks \in Seq(Keys) |-> SaveNext(ks, D, textInEx[i])]]
            after == CHOOSE f : Is(f)
<1>1. n \in Nat /\ \A i \in 1..n : textInEx[i] \in Devices
  <2>1. textInEx \in Seq(Devices)
    BY DEF Types, ListTypes
  <2>. QED
    BY <2>1
<1>2. a \in Seq(Keys)
  OBVIOUS
<1>3. G \in [1..n -> [Seq(Keys) -> Seq(Keys)]]
  <2>1. ASSUME NEW i \in 1..n, NEW ks \in Seq(Keys) PROVE SaveNext(ks, D, textInEx[i]) \in Seq(Keys)
    <3>1. CASE textInEx[i] \in D
      <4>1. dev[textInEx[i]].keys \in Seq(Keys) /\ dev[textInEx[i]].keys # <<>>
        BY <3>1, <1>1, FieldsAre DEF Types
      <4>2. Head(dev[textInEx[i]].keys) \in Keys
        BY <4>1
      <4>. QED
        BY <4>2 DEF SaveNext
    <3>2. CASE textInEx[i] \notin D
      BY <3>2 DEF SaveNext
    <3>. QED
      BY <3>1, <3>2
  <2>. QED
    BY <2>1
<1>4. PICK W \in [0..n -> Seq(Keys)] : W[0] = a /\ \A i \in 1..n : W[i] = G[i][W[i - 1]]
  <2>. HIDE DEF a, G, n
  <2>. QED
    <3>1. PICK T : T = Seq(Keys)
      OBVIOUS
    <3>2. a \in T /\ n \in Nat /\ G \in [1..n -> [T -> T]]
      BY <1>1, <1>2, <1>3, <3>1, Zenon
    <3>3. \E f \in [0..n -> T] : f[0] = a /\ \A i \in 1..n : f[i] = G[i][f[i - 1]]
      <4>1. PICK m, g : m = n /\ g = G
        OBVIOUS
      <4>2. a \in T /\ m \in Nat /\ g \in [1..m -> [T -> T]]
        BY <3>2, <4>1, Zenon
      <4>3. \E f \in [0..m -> T] : f[0] = a /\ \A i \in 1..m : f[i] = g[i][f[i - 1]]
        BY ONLY <4>2, Recursion
      <4>. QED
        BY <4>1, <4>3, Zenon
    <3>. QED
      BY <3>1, <3>3, Zenon
<1>5. \A i \in 1..n : W[i] = SaveNext(W[i - 1], D, textInEx[i])
  <2>1. \A i \in 1..n : i - 1 \in 0..n /\ W[i - 1] \in Seq(Keys)
    BY <1>1, <1>4
  <2>. QED
    BY <1>4, <2>1
<1>6. Is(W)
  <2>1. \A i \in 0..n : W[i] = IF i = 0 THEN a ELSE SaveNext(W[i - 1], D, textInEx[i])
    BY <1>1, <1>4, <1>5
  <2>. HIDE DEF a
  <2>. QED
    BY <2>1
<1>7. Is(after)
  BY <1>6
<1>8. Saved(D) = after[n]
  BY DEF Saved, SaveNext
<1>. HIDE DEF after, a, n
<1>9. after[0] = a /\ \A i \in 1..n : after[i] = SaveNext(after[i - 1], D, textInEx[i])
  BY <1>1, <1>7
<1>10. \A i \in 0..n : after[i] = W[i]
  <2>. DEFINE T == {i \in 0..n : after[i] = W[i]}
  <2>1. 0 \in T
    BY <1>1, <1>4, <1>9
  <2>2. \A i \in 0..n : i \in T /\ i < n => i + 1 \in T
    <3>1. SUFFICES ASSUME NEW i \in 0..n, after[i] = W[i], i < n PROVE after[i + 1] = W[i + 1] /\ i + 1 \in 0..n
      OBVIOUS
    <3>2. i + 1 \in 1..n /\ (i + 1) - 1 = i
      BY <1>1, <3>1
    <3>. QED
      BY <3>1, <3>2, <1>5, <1>9
  <2>. HIDE DEF T
  <2>3. \A i \in 0..n : i \in T
    BY <1>1, <2>1, <2>2, UpTo
  <2>. QED
    BY <2>3 DEF T
<1>11. Saved(D) = W[n]
  BY <1>1, <1>8, <1>10
<1>. QED
  BY <1>4, <1>5, <1>11 DEF a, n

LEMMA SavedKeys ==
  ASSUME Types, Lists, KeyNumbers, NEW D \in SUBSET ToSet(textInEx), \A d \in D : dev[d].keys # <<>>
  PROVE Saved(D) \in Seq(Keys) /\ SavedFrom(Saved(D), D, Len(textInEx))
<1>. DEFINE n == Len(textInEx)
<1>1. PICK W \in [0..n -> Seq(Keys)] :
        /\ Saved(D) = W[n] /\ W[0] = <<>>
        /\ \A i \in 1..n : W[i] = SaveNext(W[i - 1], D, textInEx[i])
  BY SavedIs
<1>2. textInEx \in Seq(Devices) /\ n \in Nat /\ DOMAIN textInEx = 1..n /\ \A i \in 1..n : textInEx[i] \in Devices
  <2>1. textInEx \in Seq(Devices)
    BY DEF Types, ListTypes
  <2>. QED
    BY <2>1
<1>3. \A i, j \in 1..n : textInEx[i] = textInEx[j] => i = j
  BY <1>2 DEF Lists, IsInjective
<1>4. ASSUME NEW i \in 1..n, textInEx[i] \in D
      PROVE Head(dev[textInEx[i]].keys) \in Keys /\ Head(dev[textInEx[i]].keys).dev = textInEx[i]
  <2>1. dev[textInEx[i]].keys \in Seq(Keys) /\ dev[textInEx[i]].keys # <<>>
    BY <1>2, <1>4, FieldsAre DEF Types
  <2>2. PICK ks \in Seq(Keys) : ks = dev[textInEx[i]].keys /\ ks # <<>>
    BY <2>1
  <2>3. Head(ks) = ks[1] /\ 1 \in DOMAIN ks /\ Head(ks) \in Keys
    BY <2>2
  <2>4. \A l \in DOMAIN ks : ks[l].dev = textInEx[i]
    BY <1>2, <2>2 DEF KeyNumbers
  <2>. QED
    BY <2>2, <2>3, <2>4
<1>. DEFINE S == {j \in 0..n : SavedFrom(W[j], D, j)}
<1>5. 0 \in S
  <2>1. Len(W[0]) = 0 /\ 1..0 = {} /\ 0 \in 0..n
    BY <1>1, <1>2
  <2>. QED
    BY <2>1 DEF SavedFrom
<1>6. ASSUME NEW j \in 0..n, j \in S, j < n PROVE j + 1 \in S
  <2>. DEFINE d == textInEx[j + 1]
              h == Head(dev[d].keys)
              p == W[j]
              q == W[j + 1]
  <2>1. j + 1 \in 1..n /\ (j + 1) - 1 = j /\ j + 1 \in 0..n /\ j \in Nat
    BY <1>2, <1>6
  <2>2. p \in Seq(Keys) /\ Len(p) \in Nat /\ q = SaveNext(p, D, d)
    BY <1>1, <2>1
  <2>3. SavedFrom(p, D, j)
    BY <1>6
  <2>4. 1..(j + 1) = (1..j) \cup {j + 1} /\ Len(p) <= j
    BY <2>1, <2>3 DEF SavedFrom
  <2>5. CASE d \in D /\ (exported \/ Complete(h))
    <3>1. q = Append(p, h) /\ h \in Keys /\ h.dev = d
      BY <2>1, <2>2, <2>5, <1>4 DEF SaveNext
    <3>. HIDE DEF h, p, q
    <3>2. /\ Len(q) = Len(p) + 1 /\ q[Len(p) + 1] = h /\ \A i \in 1..Len(p) : q[i] = p[i]
          /\ 1..Len(q) = (1..Len(p)) \cup {Len(p) + 1}
      BY <2>2, <3>1
    <3>3. \A i \in 1..Len(q) : \E x \in 1..(j + 1) : textInEx[x] \in D /\ q[i] = Head(dev[textInEx[x]].keys)
      <4>1. ASSUME NEW i \in 1..Len(p) PROVE \E x \in 1..(j + 1) : textInEx[x] \in D /\ p[i] = Head(dev[textInEx[x]].keys)
        BY <2>3, <2>4 DEF SavedFrom
      <4>2. textInEx[j + 1] \in D /\ h = Head(dev[textInEx[j + 1]].keys) /\ j + 1 \in 1..(j + 1)
        BY <2>1, <2>5 DEF h
      <4>3. ASSUME NEW i \in 1..Len(q) PROVE \E x \in 1..(j + 1) : textInEx[x] \in D /\ q[i] = Head(dev[textInEx[x]].keys)
        <5>1. CASE i = Len(p) + 1
          BY <5>1, <3>2, <4>2
        <5>2. CASE i # Len(p) + 1
          <6>1. i \in 1..Len(p) /\ q[i] = p[i]
            BY <5>2, <3>2
          <6>. QED
            BY <6>1, <4>1
        <5>. QED
          BY <5>1, <5>2
      <4>. QED
        BY <4>3
    <3>4. \A i \in 1..Len(p) : q[i].dev # d
      <4>1. ASSUME NEW i \in 1..Len(p) PROVE p[i].dev # d
        <5>1. PICK x \in 1..j : textInEx[x] \in D /\ p[i] = Head(dev[textInEx[x]].keys)
          BY <2>3 DEF SavedFrom
        <5>2. p[i].dev = textInEx[x] /\ x \in 1..n /\ x # j + 1
          BY <5>1, <1>4, <2>1, <1>2
        <5>. QED
          BY <5>2, <1>3, <2>1
      <4>. QED
        BY <4>1, <3>2
    <3>5. \A i, l \in 1..Len(q) : q[i].dev = q[l].dev => i = l
      BY <2>3, <3>1, <3>2, <3>4 DEF SavedFrom
    <3>6. ASSUME NEW x \in 1..(j + 1), textInEx[x] \in D, exported \/ Complete(Head(dev[textInEx[x]].keys))
          PROVE \E i \in 1..Len(q) : q[i] = Head(dev[textInEx[x]].keys)
      <4>1. CASE x = j + 1
        BY <4>1, <3>2 DEF h
      <4>2. CASE x \in 1..j
        <5>1. PICK i \in 1..Len(p) : p[i] = Head(dev[textInEx[x]].keys)
          BY <2>3, <4>2, <3>6 DEF SavedFrom
        <5>2. i \in 1..Len(q) /\ q[i] = p[i]
          BY <3>2
        <5>. QED
          BY <5>1, <5>2
      <4>. QED
        BY <2>4, <4>1, <4>2
    <3>7. Len(q) <= j + 1
      BY <2>2, <2>4, <2>1, <3>2
    <3>8. SavedFrom(q, D, j + 1)
      BY <3>3, <3>5, <3>6, <3>7 DEF SavedFrom
    <3>. QED
      BY <2>1, <3>8 DEF q
  <2>6. CASE ~(d \in D /\ (exported \/ Complete(h)))
    <3>1. q = p
      BY <2>2, <2>6 DEF SaveNext
    <3>2. Len(p) <= j + 1
      BY <2>1, <2>2, <2>4
    <3>3. \A x \in 1..(j + 1) : textInEx[x] \in D /\ (exported \/ Complete(Head(dev[textInEx[x]].keys))) => x \in 1..j
      BY <2>4, <2>6
    <3>. HIDE DEF p, q
    <3>4. SavedFrom(q, D, j + 1)
      BY <2>3, <2>4, <3>1, <3>2, <3>3 DEF SavedFrom
    <3>. QED
      BY <2>1, <3>4 DEF q
  <2>. QED
    BY <2>5, <2>6
<1>7. \A j \in 0..n : j \in S
  <2>. HIDE DEF S, n
  <2>. QED
    BY <1>2, <1>5, <1>6, UpTo
<1>8. n \in 0..n
  BY <1>2
<1>. QED
  BY <1>1, <1>7, <1>8

-----------------------------------------------------------------------------
(* What a step does to the keyboards, field by field.                       *)

KeysStay == \A d \in Devices : dev'[d].keys = dev[d].keys /\ dev'[d].n = dev[d].n
KeysGo == \A d \in Devices : Suffix(dev'[d].keys, dev[d].keys) /\ dev'[d].n = dev[d].n
RegsStay == \A d \in Devices : dev'[d].regs = dev[d].regs
TogglesStay == \A d \in Devices :
  dev'[d].caps = dev[d].caps /\ dev'[d].exposed = dev[d].exposed /\ dev'[d].pend = dev[d].pend

LEMMA NothingChanges == ASSUME Types, dev' = dev
  PROVE KeysStay /\ RegsStay /\ TogglesStay /\ dev' \in [Devices -> DeviceState]
BY DEF Types, KeysStay, RegsStay, TogglesStay

LEMMA StayGo == ASSUME Types, KeysStay PROVE KeysGo
<1>1. \A d \in Devices : dev[d].keys \in Seq(Keys)
  BY FieldsAre DEF Types
<1>. QED
  BY <1>1, SuffixSelf DEF KeysGo, KeysStay

LEMMA WithKeys == ASSUME NEW s \in DeviceState, NEW ks \in Seq(Keys)
  PROVE LET t == [s EXCEPT !.keys = ks]
        IN /\ t \in DeviceState /\ t.keys = ks /\ t.n = s.n /\ t.regs = s.regs
           /\ t.caps = s.caps /\ t.exposed = s.exposed /\ t.pend = s.pend
BY DEF DeviceState

LEMMA WithRegs == ASSUME NEW s \in DeviceState, NEW regs \in SUBSET Registrations
  PROVE LET t == [s EXCEPT !.regs = regs]
        IN /\ t \in DeviceState /\ t.keys = s.keys /\ t.n = s.n /\ t.regs = regs
           /\ t.caps = s.caps /\ t.exposed = s.exposed /\ t.pend = s.pend
BY DEF DeviceState

LEMMA WithCaps == ASSUME NEW s \in DeviceState, NEW c \in BOOLEAN
  PROVE LET t == [s EXCEPT !.caps = c, !.exposed = TRUE]
        IN /\ t \in DeviceState /\ t.keys = s.keys /\ t.n = s.n /\ t.regs = s.regs
           /\ t.caps = c /\ t.exposed = TRUE /\ t.pend = s.pend
BY DEF DeviceState

LEMMA WithPend == ASSUME NEW s \in DeviceState, NEW p \in Seq(BOOLEAN)
  PROVE LET t == [s EXCEPT !.pend = p]
        IN /\ t \in DeviceState /\ t.keys = s.keys /\ t.n = s.n /\ t.regs = s.regs
           /\ t.caps = s.caps /\ t.exposed = s.exposed /\ t.pend = p
BY DEF DeviceState

ToggledTo(devs, D, caps, new) ==
  /\ new \in [Devices -> DeviceState]
  /\ \A d \in Devices :
       /\ new[d].keys = devs[d].keys /\ new[d].n = devs[d].n /\ new[d].regs = devs[d].regs
       /\ new[d].pend = devs[d].pend
       /\ d \in D => new[d].caps = caps /\ new[d].exposed = TRUE
       /\ d \notin D => new[d].caps = devs[d].caps /\ new[d].exposed = devs[d].exposed

LEMMA ToggledIs ==
  ASSUME NEW devs \in [Devices -> DeviceState], NEW D, NEW caps \in BOOLEAN,
         NEW new, new = Toggled(devs, D, caps)
  PROVE ToggledTo(devs, D, caps, new)
<1>1. Toggled(devs, D, caps) = [d \in Devices |-> IF d \in D THEN [devs[d] EXCEPT !.caps = caps, !.exposed = TRUE] ELSE devs[d]]
  BY DEF Toggled
<1>2. \A d \in Devices : d \in D => Toggled(devs, D, caps)[d] = [devs[d] EXCEPT !.caps = caps, !.exposed = TRUE]
  BY <1>1, Zenon
<1>3. \A d \in Devices : d \notin D => Toggled(devs, D, caps)[d] = devs[d]
  BY <1>1, Zenon
<1>4. ASSUME NEW d \in Devices
      PROVE LET t == Toggled(devs, D, caps)[d]
            IN /\ t \in DeviceState
               /\ t.keys = devs[d].keys /\ t.n = devs[d].n /\ t.regs = devs[d].regs
               /\ t.pend = devs[d].pend
               /\ d \in D => t.caps = caps /\ t.exposed = TRUE
               /\ d \notin D => t.caps = devs[d].caps /\ t.exposed = devs[d].exposed
  <2>1. PICK s \in DeviceState : s = devs[d]
    OBVIOUS
  <2>2. CASE d \in D
    <3>1. Toggled(devs, D, caps)[d] = [s EXCEPT !.caps = caps, !.exposed = TRUE]
      BY <1>2, <2>1, <2>2, Zenon
    <3>2. PICK t : t = [s EXCEPT !.caps = caps, !.exposed = TRUE]
      OBVIOUS
    <3>3. /\ t \in DeviceState /\ t.keys = s.keys /\ t.n = s.n /\ t.regs = s.regs
          /\ t.caps = caps /\ t.exposed = TRUE /\ t.pend = s.pend
      BY ONLY <3>2, WithCaps
    <3>4. Toggled(devs, D, caps)[d] = t
      BY <3>1, <3>2, Zenon
    <3>. QED
      BY <2>1, <2>2, <3>3, <3>4
  <2>3. CASE d \notin D
    BY <1>3, <2>1, <2>3
  <2>. QED
    BY <2>2, <2>3
<1>5. Toggled(devs, D, caps) \in [Devices -> DeviceState]
  BY <1>1, <1>4
<1>. QED
  BY <1>4, <1>5 DEF ToggledTo

\* A keyboard that was asked for its keys has none left but those behind a complete one.
LEMMA CheckedIs == ASSUME NEW s \in DeviceState
  PROVE LET t == Checked(s)
        IN /\ t \in DeviceState /\ t.keys = DropPartial(s.keys) /\ t.n = s.n /\ t.regs = s.regs
           /\ t.caps = s.caps /\ t.exposed = s.exposed /\ t.pend = s.pend
<1>1. DropPartial(s.keys) \in Seq(Keys)
  BY FieldsAre, DropIs
<1>2. Checked(s) = [s EXCEPT !.keys = DropPartial(s.keys)]
  BY DEF Checked
<1>. QED
  BY <1>1, <1>2, WithKeys

\* One keyboard is checked and its registrations become regs.
Attached(d, regs) ==
  /\ dev' \in [Devices -> DeviceState]
  /\ \A x \in Devices :
       /\ dev'[x].n = dev[x].n
       /\ dev'[x].keys = IF x = d THEN DropPartial(dev[x].keys) ELSE dev[x].keys
       /\ dev'[x].regs = IF x = d THEN regs ELSE dev[x].regs

LEMMA AttachIs == ASSUME Types, NEW d \in Devices, NEW regs \in SUBSET Registrations,
    dev' = [dev EXCEPT ![d] = [Checked(@) EXCEPT !.regs = regs]]
  PROVE Attached(d, regs) /\ TogglesStay
<1>1. PICK s \in DeviceState : s = dev[d]
  BY DEF Types
<1>2. PICK t \in DeviceState : t = Checked(s)
  BY <1>1, CheckedIs
<1>3. PICK u \in DeviceState : u = [t EXCEPT !.regs = regs]
  BY <1>2, WithRegs
<1>4. dev' = [dev EXCEPT ![d] = u] /\ dev \in [Devices -> DeviceState]
  BY <1>1, <1>2, <1>3 DEF Types
<1>5. /\ u.keys = DropPartial(dev[d].keys) /\ u.n = dev[d].n /\ u.regs = regs
      /\ u.caps = dev[d].caps /\ u.exposed = dev[d].exposed /\ u.pend = dev[d].pend
  <2>1. /\ t.keys = DropPartial(s.keys) /\ t.n = s.n
        /\ t.caps = s.caps /\ t.exposed = s.exposed /\ t.pend = s.pend
    BY <1>2, CheckedIs
  <2>2. /\ u.keys = t.keys /\ u.n = t.n /\ u.regs = regs
        /\ u.caps = t.caps /\ u.exposed = t.exposed /\ u.pend = t.pend
    BY <1>3, WithRegs
  <2>. QED
    BY <1>1, <2>1, <2>2
<1>6. \A x \in Devices : dev'[x] = IF x = d THEN u ELSE dev[x]
  BY <1>4
<1>7. dev' \in [Devices -> DeviceState]
  BY <1>4
<1>8. Attached(d, regs)
  <2>1. ASSUME NEW x \in Devices
        PROVE /\ dev'[x].n = dev[x].n
              /\ dev'[x].keys = IF x = d THEN DropPartial(dev[x].keys) ELSE dev[x].keys
              /\ dev'[x].regs = IF x = d THEN regs ELSE dev[x].regs
    <3>1. CASE x = d
      <4>1. dev'[x] = u
        BY <3>1, <1>6
      <4>. QED
        BY <3>1, <4>1, <1>5, Zenon
    <3>2. CASE x # d
      <4>1. dev'[x] = dev[x]
        BY <3>2, <1>6
      <4>. QED
        BY <3>2, <4>1
    <3>. QED
      BY <3>1, <3>2
  <2>. QED
    BY <1>7, <2>1, Zenon DEF Attached
<1>9. TogglesStay
  BY <1>5, <1>6 DEF TogglesStay
<1>. QED
  BY <1>8, <1>9

LEMMA PlainIs == ASSUME Types, NEW d \in Devices, dev' = [dev EXCEPT ![d] = Checked(@)]
  PROVE Attached(d, dev[d].regs) /\ TogglesStay
<1>1. PICK s \in DeviceState : s = dev[d]
  BY DEF Types
<1>2. PICK t \in DeviceState : t = Checked(s)
  BY <1>1, CheckedIs
<1>3. /\ t.keys = DropPartial(s.keys) /\ t.n = s.n /\ t.regs = s.regs
      /\ t.caps = s.caps /\ t.exposed = s.exposed /\ t.pend = s.pend
  BY <1>2, CheckedIs
<1>4. dev' = [dev EXCEPT ![d] = t] /\ dev \in [Devices -> DeviceState]
  BY <1>1, <1>2 DEF Types
<1>5. \A x \in Devices : dev'[x] = IF x = d THEN t ELSE dev[x]
  BY <1>4
<1>6. dev' \in [Devices -> DeviceState]
  BY <1>4
<1>. QED
  BY <1>1, <1>3, <1>5, <1>6 DEF Attached, TogglesStay

LEMMA AttachedGo == ASSUME Types, NEW d \in Devices, NEW regs, Attached(d, regs) PROVE KeysGo
<1>1. \A x \in Devices : dev[x].keys \in Seq(Keys)
  BY FieldsAre DEF Types
<1>2. \A x \in Devices : Suffix(dev[x].keys, dev[x].keys) /\ Suffix(DropPartial(dev[x].keys), dev[x].keys)
  BY <1>1, SuffixSelf, DropIs
<1>. QED
  BY <1>2 DEF Attached, KeysGo

-----------------------------------------------------------------------------
(* The actions, in these terms.                                             *)

NewKey(d, partial) == [dev |-> d, n |-> dev[d].n + 1, partial |-> partial]

LEMMA PressIs == ASSUME SplitterAssumption, Types, KeyNumbers, NEW d \in Devices, Press(d)
  PROVE /\ dev' \in [Devices -> DeviceState] /\ RegsStay
        /\ \A x \in Devices : x # d => dev'[x] = dev[x]
        /\ pressed' = pressed + 1 /\ pressed' \in 0..MaxPresses /\ dev'[d].n = dev[d].n + 1
        /\ \/ dev'[d].keys = dev[d].keys
           \/ \E partial \in BOOLEAN :
                NewKey(d, partial) \in Keys /\ dev'[d].keys = Append(dev[d].keys, NewKey(d, partial))
        /\ dev'[d].exposed = dev[d].exposed
        /\ \/ dev'[d].caps = dev[d].caps /\ dev'[d].pend = dev[d].pend
           \/ /\ dev'[d].caps = ~dev[d].caps
              /\ dev[d].exposed /\ ToggleSync \in dev[d].regs => dev'[d].pend = Append(dev[d].pend, dev'[d].caps)
<1>1. PICK s \in DeviceState : s = dev[d] /\ dev \in [Devices -> DeviceState]
  BY DEF Types
<1>2. /\ s.keys \in Seq(Keys) /\ s.n \in 0..MaxPresses /\ s.caps \in BOOLEAN /\ s.exposed \in BOOLEAN
      /\ s.regs \in SUBSET Registrations /\ s.pend \in Seq(BOOLEAN)
  BY FieldsAre
<1>3. pressed < MaxPresses /\ pressed' = pressed + 1 /\ pressed \in 0..MaxPresses /\ s.n <= pressed /\ MaxPresses \in Nat
  BY <1>1 DEF Press, KeyNumbers, Types, KeyTypes, SplitterAssumption
<1>4. s.n + 1 \in 1..MaxPresses /\ s.n + 1 \in 0..MaxPresses /\ pressed' \in 0..MaxPresses
  BY <1>2, <1>3
<1>5. \A p \in BOOLEAN : NewKey(d, p) \in Keys
  BY <1>1, <1>4 DEF NewKey, Keys
<1>. DEFINE n == s.n + 1
            Full == [s EXCEPT !.keys = Append(s.keys, NewKey(d, FALSE)), !.n = n]
            pend == IF s.exposed /\ ToggleSync \in s.regs THEN Append(s.pend, ~s.caps) ELSE s.pend
            heard == IF s.exposed THEN Append(s.keys, NewKey(d, TRUE)) ELSE s.keys
            Caps == [s EXCEPT !.caps = ~s.caps, !.n = n, !.keys = heard, !.pend = pend]
<1>6. dev' = [dev EXCEPT ![d] = Full] \/ dev' = [dev EXCEPT ![d] = Caps]
  <2>1. \/ dev' = [dev EXCEPT ![d].keys = Append(@, NewKey(d, FALSE)), ![d].n = n]
        \/ dev' = [dev EXCEPT ![d].caps = ~dev[d].caps, ![d].n = n,
                ![d].keys = IF dev[d].exposed THEN Append(@, NewKey(d, TRUE)) ELSE @,
                ![d].pend = IF dev[d].exposed /\ ToggleSync \in dev[d].regs
                            THEN Append(@, ~dev[d].caps) ELSE @]
    BY <1>1 DEF Press, NewKey
  <2>2. CASE dev' = [dev EXCEPT ![d].keys = Append(@, NewKey(d, FALSE)), ![d].n = n]
    BY <1>1, <2>2
  <2>3. CASE dev' = [dev EXCEPT ![d].caps = ~dev[d].caps, ![d].n = n,
                ![d].keys = IF dev[d].exposed THEN Append(@, NewKey(d, TRUE)) ELSE @,
                ![d].pend = IF dev[d].exposed /\ ToggleSync \in dev[d].regs
                            THEN Append(@, ~dev[d].caps) ELSE @]
    BY <1>1, <2>3
  <2>. QED
    BY <2>1, <2>2, <2>3
<1>7. heard \in Seq(Keys) /\ pend \in Seq(BOOLEAN) /\ Append(s.keys, NewKey(d, FALSE)) \in Seq(Keys)
  <2>1. PICK k1, k2 \in Keys : k1 = NewKey(d, FALSE) /\ k2 = NewKey(d, TRUE)
    BY <1>5
  <2>2. Append(s.keys, k1) \in Seq(Keys) /\ Append(s.keys, k2) \in Seq(Keys) /\ Append(s.pend, ~s.caps) \in Seq(BOOLEAN)
    BY <1>2
  <2>. QED
    BY <1>2, <2>1, <2>2
<1>. HIDE DEF pend, heard
<1>8. CASE dev' = [dev EXCEPT ![d] = Full]
  <2>1. PICK t : t = Full
    OBVIOUS
  <2>2. /\ t \in DeviceState /\ t.keys = Append(s.keys, NewKey(d, FALSE)) /\ t.n = n
        /\ t.caps = s.caps /\ t.exposed = s.exposed /\ t.regs = s.regs /\ t.pend = s.pend
    BY <1>4, <1>7, <2>1 DEF DeviceState
  <2>3. dev' \in [Devices -> DeviceState] /\ dev'[d] = t /\ \A x \in Devices : x # d => dev'[x] = dev[x]
    BY <1>1, <1>8, <2>1, <2>2
  <2>4. RegsStay
    BY <1>1, <2>2, <2>3 DEF RegsStay
  <2>. QED
    BY <1>1, <1>3, <1>4, <1>5, <2>2, <2>3, <2>4
<1>9. CASE dev' = [dev EXCEPT ![d] = Caps]
  <2>1. PICK t : t = Caps
    OBVIOUS
  <2>2. /\ t \in DeviceState /\ t.keys = heard /\ t.n = n
        /\ t.caps = ~s.caps /\ t.exposed = s.exposed /\ t.regs = s.regs /\ t.pend = pend
    BY <1>2, <1>4, <1>7, <2>1 DEF DeviceState
  <2>3. dev' \in [Devices -> DeviceState] /\ dev'[d] = t /\ \A x \in Devices : x # d => dev'[x] = dev[x]
    BY <1>1, <1>9, <2>1, <2>2
  <2>4. RegsStay
    BY <1>1, <2>2, <2>3 DEF RegsStay
  <2>5. \/ dev'[d].keys = dev[d].keys
        \/ \E partial \in BOOLEAN :
             NewKey(d, partial) \in Keys /\ dev'[d].keys = Append(dev[d].keys, NewKey(d, partial))
    BY <1>1, <1>5, <2>2, <2>3 DEF heard
  <2>6. dev[d].exposed /\ ToggleSync \in dev[d].regs => dev'[d].pend = Append(dev[d].pend, dev'[d].caps)
    BY <1>1, <2>2, <2>3 DEF pend
  <2>. QED
    BY <1>1, <1>3, <1>4, <2>2, <2>3, <2>4, <2>5, <2>6
<1>. QED
  BY <1>6, <1>8, <1>9

\* The state c is set on the keyboards of TextInExList but those in R, and recorded.
SetOn(R, c) ==
  /\ R \in SUBSET ToSet(textInEx)
  /\ refused' = (refused \cup R) \ (ToSet(textInEx) \ R)
  /\ \A d \in Devices : d \in ToSet(textInEx) \ R => dev'[d].caps = c /\ dev'[d].exposed

LEMMA NotificationIs == ASSUME Types, NEW d \in Devices, ToggleStateSyncKeyNotify(d)
  PROVE /\ dev' \in [Devices -> DeviceState] /\ KeysStay /\ RegsStay
        /\ dev[d].pend # <<>>
        /\ \A x \in Devices : dev'[x].pend = IF x = d THEN Tail(dev[d].pend) ELSE dev[x].pend
        /\ \/ /\ Head(dev[d].pend) = toggle /\ toggle' = toggle /\ refused' = refused
              /\ torn' = (torn \/ call.active)
              /\ \A x \in Devices : dev'[x].caps = dev[x].caps /\ dev'[x].exposed = dev[x].exposed
           \/ /\ toggle' = Head(dev[d].pend) /\ torn' = call.active
              /\ \E R : SetOn(R, toggle')
<1>. DEFINE c == Head(dev[d].pend)
            D == ToSet(textInEx)
            heard == [dev EXCEPT ![d].pend = Tail(@)]
<1>1. PICK s \in DeviceState : s = dev[d] /\ dev \in [Devices -> DeviceState]
  BY DEF Types
<1>2. s.pend \in Seq(BOOLEAN) /\ s.pend # <<>>
  BY <1>1, FieldsAre DEF ToggleStateSyncKeyNotify
<1>3. Tail(s.pend) \in Seq(BOOLEAN) /\ c \in BOOLEAN
  <2>1. PICK p \in Seq(BOOLEAN) : p = s.pend /\ p # <<>>
    BY <1>2
  <2>2. Tail(p) \in Seq(BOOLEAN) /\ Head(p) \in BOOLEAN
    BY <2>1, TailIs
  <2>. QED
    BY <1>1, <2>1, <2>2
<1>4. PICK t : t = [s EXCEPT !.pend = Tail(s.pend)]
  OBVIOUS
<1>5. /\ t \in DeviceState /\ t.keys = s.keys /\ t.n = s.n /\ t.regs = s.regs
      /\ t.caps = s.caps /\ t.exposed = s.exposed /\ t.pend = Tail(s.pend)
  BY <1>3, <1>4, WithPend
<1>6. heard = [dev EXCEPT ![d] = t]
  BY <1>1, <1>4
<1>7. heard \in [Devices -> DeviceState] /\ \A x \in Devices : heard[x] = IF x = d THEN t ELSE dev[x]
  BY <1>1, <1>5, <1>6
<1>. HIDE DEF heard
<1>8. \A x \in Devices : /\ heard[x].keys = dev[x].keys /\ heard[x].n = dev[x].n /\ heard[x].regs = dev[x].regs
                         /\ heard[x].caps = dev[x].caps /\ heard[x].exposed = dev[x].exposed
                         /\ heard[x].pend = IF x = d THEN Tail(dev[d].pend) ELSE dev[x].pend
  BY <1>1, <1>5, <1>7
<1>9. CASE SyncNeeded(c)
  <2>1. PICK R \in SUBSET D : Taken(D, R) /\ dev' = Toggled(heard, D \ R, c) /\ toggle' = c /\ torn' = call.active
    BY <1>9 DEF ToggleStateSyncKeyNotify, heard
  <2>2. /\ dev' \in [Devices -> DeviceState]
        /\ \A x \in Devices :
             /\ dev'[x].keys = heard[x].keys /\ dev'[x].n = heard[x].n /\ dev'[x].regs = heard[x].regs
             /\ dev'[x].pend = heard[x].pend
             /\ x \in D \ R => dev'[x].caps = c /\ dev'[x].exposed = TRUE
    <3>. HIDE DEF c, D
    <3>1. PICK E : E = D \ R
      OBVIOUS
    <3>2. ToggledTo(heard, E, c, dev')
      <4>1. dev' = Toggled(heard, E, c)
        BY <2>1, <3>1
      <4>. QED
        BY <4>1, <1>3, <1>7, ToggledIs
    <3>. QED
      BY <3>1, <3>2 DEF ToggledTo
  <2>3. SetOn(R, c)
    BY <2>1, <2>2 DEF SetOn, Taken
  <2>4. KeysStay /\ RegsStay
    BY <1>8, <2>2 DEF KeysStay, RegsStay
  <2>5. dev[d].pend # <<>> /\ \A x \in Devices : dev'[x].pend = IF x = d THEN Tail(dev[d].pend) ELSE dev[x].pend
    BY <1>1, <1>2, <1>8, <2>2
  <2>6. toggle' = c /\ torn' = call.active
    BY <2>1
  <2>7. \E Q : SetOn(Q, toggle')
    BY <2>3, <2>6
  <2>. QED
    BY <2>2, <2>4, <2>5, <2>6, <2>7
<1>10. CASE ~SyncNeeded(c)
  <2>1. dev' = heard /\ torn' = (torn \/ call.active) /\ refused' = refused /\ toggle' = toggle /\ c = toggle
    BY <1>10 DEF ToggleStateSyncKeyNotify, heard, SyncNeeded
  <2>2. KeysStay /\ RegsStay
    BY <1>8, <2>1 DEF KeysStay, RegsStay
  <2>. QED
    BY <1>1, <1>2, <1>7, <1>8, <2>1, <2>2
<1>. QED
  BY <1>9, <1>10

LEMMA ListIs == ASSUME Types
  PROVE /\ textInEx \in Seq(Devices) /\ Len(textInEx) \in Nat /\ DOMAIN textInEx = 1..Len(textInEx)
        /\ \A i \in 1..Len(textInEx) : textInEx[i] \in Devices
        /\ textIn \in Seq(Devices) /\ Len(textIn) \in Nat /\ DOMAIN textIn = 1..Len(textIn)
        /\ \A i \in 1..Len(textIn) : textIn[i] \in Devices
        /\ ToSet(textInEx) \in SUBSET Devices /\ ToSet(textIn) \in SUBSET Devices
<1>1. textIn \in Seq(Devices) /\ textInEx \in Seq(Devices)
  BY DEF Types, ListTypes
<1>2. /\ Len(textInEx) \in Nat /\ DOMAIN textInEx = 1..Len(textInEx)
      /\ \A i \in 1..Len(textInEx) : textInEx[i] \in Devices
      /\ Len(textIn) \in Nat /\ DOMAIN textIn = 1..Len(textIn)
      /\ \A i \in 1..Len(textIn) : textIn[i] \in Devices
  BY <1>1
<1>. QED
  BY <1>1, <1>2 DEF ToSet

\* One step of SetState: the next keyboard takes the state, or the call ends.
LEMMA SetStateStepIs == ASSUME Types, SetStateStep
  PROVE /\ call.active /\ call.next \in 1..Len(textInEx)
        /\ dev' \in [Devices -> DeviceState] /\ KeysStay /\ RegsStay
        /\ \A x \in Devices : dev'[x].pend = dev[x].pend
        /\ call.next \in Nat \ {0}
        /\ \/ /\ call' = [call EXCEPT !.next = @ + 1] /\ torn' = torn
              /\ refused' = refused \ {textInEx[call.next]}
              /\ \A x \in Devices : x # textInEx[call.next] => dev'[x].caps = dev[x].caps /\ dev'[x].exposed = dev[x].exposed
              /\ dev'[textInEx[call.next]].caps = call.caps /\ dev'[textInEx[call.next]].exposed
           \/ /\ call' = NoCall /\ torn' = TRUE /\ refused' \in SUBSET Devices
<1>. DEFINE d == textInEx[call.next]
<1>1. call \in Calls /\ dev \in [Devices -> DeviceState] /\ refused \in SUBSET Devices
  BY DEF Types, ToggleTypes
<1>2. call.next \in Nat \ {0} /\ call.caps \in BOOLEAN
  BY <1>1 DEF Calls
<1>3. call.active /\ call.next <= Len(textInEx) /\ call.next \in 1..Len(textInEx) /\ d \in Devices
  BY <1>2, ListIs DEF SetStateStep
<1>4. CASE Taken({d}, {}) /\ dev' = Toggled(dev, {d}, call.caps) /\ call' = [call EXCEPT !.next = @ + 1] /\ torn' = torn
  <2>. HIDE DEF d
  <2>1. refused' = refused \ {d}
    BY <1>4 DEF Taken
  <2>2. PICK E, c : E = {d} /\ c = call.caps
    OBVIOUS
  <2>3. dev' = Toggled(dev, E, c)
    BY <1>4, <2>2
  <2>4. ToggledTo(dev, E, c, dev')
    BY <1>1, <1>2, <2>2, <2>3, ToggledIs
  <2>5. KeysStay /\ RegsStay
    BY <2>4 DEF KeysStay, RegsStay, ToggledTo
  <2>6. dev' \in [Devices -> DeviceState] /\ \A x \in Devices : dev'[x].pend = dev[x].pend
    BY <2>4 DEF ToggledTo
  <2>7. \A x \in Devices : x # d => dev'[x].caps = dev[x].caps /\ dev'[x].exposed = dev[x].exposed
    BY <2>2, <2>4 DEF ToggledTo
  <2>8. dev'[d].caps = call.caps /\ dev'[d].exposed
    BY <1>3, <2>2, <2>4 DEF ToggledTo
  <2>. QED
    BY <1>2, <1>3, <1>4, <2>1, <2>5, <2>6, <2>7, <2>8 DEF d
<1>5. CASE Taken({d}, {d}) /\ dev' = dev /\ call' = NoCall /\ torn' = TRUE
  <2>1. KeysStay /\ RegsStay /\ TogglesStay /\ dev' \in [Devices -> DeviceState]
    BY <1>5, NothingChanges
  <2>2. refused' \in SUBSET Devices
    BY <1>1, <1>3, <1>5 DEF Taken
  <2>. QED
    BY <1>2, <1>3, <1>5, <2>1, <2>2 DEF TogglesStay
<1>. QED
  BY <1>4, <1>5 DEF SetStateStep

LEMMA ResetIs == ASSUME Types, NEW D \in SUBSET Devices, Reset(D)
  PROVE /\ Idle /\ dev' \in [Devices -> DeviceState] /\ KeysGo /\ RegsStay
        /\ KeyQueue' = KeyQueue \/ KeyQueue' = <<>>
        /\ \/ /\ torn' = FALSE /\ toggle' = FALSE /\ exported' = FALSE
              /\ \E R : R \in SUBSET ToSet(textInEx) /\ refused' = R
                        /\ \A d \in Devices : d \in ToSet(textInEx) \ R => dev'[d].caps = toggle' /\ dev'[d].exposed
           \/ torn' = TRUE /\ toggle' = toggle /\ exported' = exported /\ refused' = refused
<1>1. PICK R \in SUBSET D, X \in SUBSET ToSet(textInEx), keep \in BOOLEAN :
        /\ LET reset == [d \in Devices |-> IF d \in D \ R
                           THEN ResetDevice(dev[d], IF keep THEN dev[d].pend ELSE <<>>) ELSE dev[d]]
           IN dev' = IF R = {} THEN Toggled(reset, ToSet(textInEx) \ X, FALSE) ELSE reset
        /\ IF R = {}
           THEN /\ toggle' = FALSE /\ exported' = FALSE /\ KeyQueue' = <<>>
                /\ refused' = X /\ torn' = FALSE
           ELSE torn' = TRUE /\ UNCHANGED <<toggle, exported, KeyQueue, refused>>
  BY DEF Reset
<1>. DEFINE Pend(d) == IF keep THEN dev[d].pend ELSE <<>>
            reset == [d \in Devices |-> IF d \in D \ R THEN ResetDevice(dev[d], Pend(d)) ELSE dev[d]]
<1>2. ASSUME NEW d \in Devices
      PROVE /\ reset[d] \in DeviceState /\ Suffix(reset[d].keys, dev[d].keys)
            /\ reset[d].n = dev[d].n /\ reset[d].regs = dev[d].regs
  <2>1. PICK s \in DeviceState : s = dev[d]
    BY DEF Types
  <2>2. s.keys \in Seq(Keys) /\ s.pend \in Seq(BOOLEAN) /\ <<>> \in Seq(Keys) /\ <<>> \in Seq(BOOLEAN)
    BY FieldsAre
  <2>3. CASE d \in D \ R
    <3>1. PICK p : p = Pend(d) /\ p \in Seq(BOOLEAN)
      BY <2>1, <2>2
    <3>2. PICK t : t = [s EXCEPT !.keys = <<>>, !.caps = FALSE, !.exposed = FALSE, !.pend = p]
      OBVIOUS
    <3>3. t \in DeviceState /\ t.keys = <<>> /\ t.n = s.n /\ t.regs = s.regs
      BY <2>2, <3>1, <3>2 DEF DeviceState
    <3>4. reset[d] = t
      BY <2>1, <2>3, <3>1, <3>2 DEF ResetDevice
    <3>. QED
      BY <2>1, <2>2, <3>3, <3>4, SuffixEmpty
  <2>4. CASE d \notin D \ R
    BY <2>1, <2>2, <2>4, SuffixSelf
  <2>. QED
    BY <2>3, <2>4
<1>3. reset \in [Devices -> DeviceState]
  BY <1>2
<1>4. Idle
  BY DEF Reset, Call
<1>5. CASE R = {}
  <2>1. PICK E, r : E = ToSet(textInEx) \ X /\ r = reset
    OBVIOUS
  <2>2. dev' = Toggled(r, E, FALSE)
    BY <1>1, <1>5, <2>1
  <2>. HIDE DEF reset
  <2>3. ToggledTo(r, E, FALSE, dev')
    BY <1>3, <2>1, <2>2, ToggledIs
  <2>4. dev' \in [Devices -> DeviceState] /\ KeysGo /\ RegsStay
    BY <1>2, <2>1, <2>3 DEF KeysGo, RegsStay, ToggledTo
  <2>5. \A d \in Devices : d \in ToSet(textInEx) \ X => dev'[d].caps = FALSE /\ dev'[d].exposed
    BY <2>1, <2>3 DEF ToggledTo
  <2>. QED
    BY <1>1, <1>4, <1>5, <2>4, <2>5
<1>6. CASE R # {}
  <2>1. dev' = reset
    BY <1>1, <1>6
  <2>. HIDE DEF reset
  <2>2. dev' \in [Devices -> DeviceState] /\ KeysGo /\ RegsStay
    BY <1>2, <1>3, <2>1 DEF KeysGo, RegsStay
  <2>. QED
    BY <1>1, <1>4, <1>6, <2>2
<1>. QED
  BY <1>5, <1>6

\* The keys ks of a queue or a keyboard become those of left: partial ones may be
\* dropped, and if a key is taken it is the first complete one.
KeepsFull(left, ks) == Suffix(left, ks) /\ \A i \in DOMAIN ks : Complete(ks[i]) => ks[i] \in ToSet(left)

LEMMA DropKeeps == ASSUME NEW ks \in Seq(Keys) PROVE DropPartial(ks) \in Seq(Keys) /\ KeepsFull(DropPartial(ks), ks)
BY DropIs DEF KeepsFull

LEMMA SelfKeeps == ASSUME NEW ks \in Seq(Keys) PROVE KeepsFull(ks, ks)
BY SuffixSelf DEF KeepsFull, ToSet

\* A read returns the first key of KeyQueue, with the partial ones before it dropped or not,
FromQueue ==
  /\ dev' = dev
  /\ \E ks \in Seq(Keys) : /\ KeepsFull(ks, KeyQueue) /\ ks # <<>> /\ KeyQueue' = Tail(ks)
                           /\ Head(ks).dev \in Devices
                           /\ last' = [last EXCEPT ![Head(ks).dev] = Head(ks).n]

\* or the first complete key of a keyboard; the others keep their complete keys.
Passes(d) == last'[d] = last[d] /\ dev'[d].keys \in Seq(Keys) /\ KeepsFull(dev'[d].keys, dev[d].keys)
Takes(d) ==
  LET ks == DropPartial(dev[d].keys)
  IN ks # <<>> /\ dev'[d].keys = Tail(ks) /\ last'[d] = Head(ks).n
FromKeyboard ==
  /\ last' \in [Devices -> Nat]
  /\ \A d \in Devices : Passes(d) \/ Takes(d)

\* or the key of one keyboard while those of others are saved.
Saves ==
  /\ KeyQueue = <<>>
  /\ \E D \in SUBSET ToSet(textInEx) :
       /\ \A d \in D : dev[d].keys # <<>>
       /\ \A d \in Devices : dev'[d].keys = IF d \in D THEN Tail(dev[d].keys) ELSE dev[d].keys
       /\ IF Saved(D) = <<>> THEN last' = last /\ KeyQueue' = KeyQueue
          ELSE last' = [last EXCEPT ![Saved(D)[1].dev] = Saved(D)[1].n] /\ KeyQueue' = Tail(Saved(D))

LEMMA KeysTyped == ASSUME Types
  PROVE /\ KeyQueue \in Seq(Keys) /\ last \in [Devices -> Nat] /\ dev \in [Devices -> DeviceState]
        /\ \A d \in Devices : dev[d] \in DeviceState /\ dev[d].keys \in Seq(Keys)
<1>1. KeyQueue \in Seq(Keys) /\ last \in [Devices -> Nat] /\ dev \in [Devices -> DeviceState]
  BY DEF Types, KeyTypes
<1>2. \A d \in Devices : dev[d] \in DeviceState /\ dev[d].keys \in Seq(Keys)
  BY <1>1, FieldsAre
<1>. QED
  BY <1>1, <1>2

LEMMA KeysAre == ASSUME NEW k \in Keys PROVE k.dev \in Devices /\ k.n \in Nat /\ k.n >= 1 /\ k.partial \in BOOLEAN
BY DEF Keys

LEMMA ReadKeyStrokeIs == ASSUME SplitterAssumption, Types, KeyNumbers, ReadKeyStroke
  PROVE /\ Idle /\ dev' \in [Devices -> DeviceState] /\ RegsStay /\ TogglesStay /\ KeysGo
        /\ FromQueue \/ (KeyQueue' = <<>> /\ (\A i \in DOMAIN KeyQueue : ~Complete(KeyQueue[i])) /\ FromKeyboard)
<1>1. KeyQueue \in Seq(Keys) /\ last \in [Devices -> Nat] /\ dev \in [Devices -> DeviceState]
  BY KeysTyped
<1>2. CASE DropPartial(KeyQueue) # <<>>
  <2>1. PICK ks \in Seq(Keys) : ks = DropPartial(KeyQueue) /\ KeepsFull(ks, KeyQueue)
    BY <1>1, DropKeeps
  <2>2. ks # <<>> /\ KeyQueue' = Tail(ks) /\ dev' = dev /\ last' = [last EXCEPT ![Head(ks).dev] = Head(ks).n] /\ Idle
    BY <1>2, <2>1 DEF ReadKeyStroke, Returns
  <2>3. Head(ks).dev \in Devices
    BY <2>2, TailIs, KeysAre
  <2>4. FromQueue
    BY <2>1, <2>2, <2>3 DEF FromQueue
  <2>. QED
    BY <2>2, <2>4, NothingChanges, StayGo
<1>3. CASE DropPartial(KeyQueue) = <<>>
  <2>1. \A i \in DOMAIN KeyQueue : ~Complete(KeyQueue[i])
    <3>1. ToSet(<<>>) = {}
      BY DEF ToSet
    <3>. QED
      BY <1>1, <1>3, <3>1, DropIs
  <2>2. PICK mute \in SUBSET ToSet(textIn) :
          LET Full(d) == DropPartial(dev[d].keys)
              ready == {i \in DOMAIN textIn : textIn[i] \notin mute /\ Full(textIn[i]) # <<>>}
              first == IF ready = {} THEN Len(textIn) + 1 ELSE Min(ready)
              drained == {textIn[i] : i \in 1..(first - 1)} \ mute
          IN /\ dev' = [d \in Devices |->
                  IF d \in drained THEN [dev[d] EXCEPT !.keys = <<>>]
                  ELSE IF ready # {} /\ d = textIn[first]
                  THEN [dev[d] EXCEPT !.keys = Tail(DropPartial(@))] ELSE dev[d]]
             /\ IF ready = {} THEN UNCHANGED last ELSE Returns(Head(Full(textIn[first])))
    BY <1>3, Zenon DEF ReadKeyStroke
  <2>. DEFINE Full(d) == DropPartial(dev[d].keys)
              ready == {i \in DOMAIN textIn : textIn[i] \notin mute /\ Full(textIn[i]) # <<>>}
              first == IF ready = {} THEN Len(textIn) + 1 ELSE Min(ready)
              drained == {textIn[i] : i \in 1..(first - 1)} \ mute
  <2>3. DOMAIN textIn = 1..Len(textIn) /\ Len(textIn) \in Nat /\ \A i \in 1..Len(textIn) : textIn[i] \in Devices
    BY ListIs
  <2>4. /\ ready # {} => first \in ready /\ first \in 1..Len(textIn)
        /\ first \in 1..(Len(textIn) + 1)
        /\ \A i \in 1..(first - 1) : i \in DOMAIN textIn /\ i \notin ready
    <3>1. ready \in SUBSET Nat /\ ready \subseteq 1..Len(textIn)
      BY <2>3
    <3>. HIDE DEF ready
    <3>2. CASE ready = {}
      BY <2>3, <3>1, <3>2
    <3>3. CASE ready # {}
      <4>1. PICK m : m = Min(ready)
        OBVIOUS
      <4>2. m \in ready /\ \A i \in ready : m <= i
        BY <3>1, <3>3, <4>1, LeastOf
      <4>3. first = m /\ m \in 1..Len(textIn)
        BY <3>1, <3>3, <4>1, <4>2
      <4>. HIDE DEF first
      <4>. QED
        BY <2>3, <4>2, <4>3
    <3>. QED
      BY <3>2, <3>3
  <2>. HIDE DEF first
  <2>5. \A d \in Devices : d \in drained => Full(d) = <<>>
    BY <2>3, <2>4
  <2>6. ready # {} => textIn[first] \in Devices /\ Full(textIn[first]) # <<>>
    BY <2>3, <2>4
  <2>7. dev' = [d \in Devices |->
                  IF d \in drained THEN [dev[d] EXCEPT !.keys = <<>>]
                  ELSE IF ready # {} /\ d = textIn[first]
                  THEN [dev[d] EXCEPT !.keys = Tail(DropPartial(@))] ELSE dev[d]]
    BY <2>2, Zenon DEF first
  <2>8. IF ready = {} THEN last' = last ELSE Returns(Head(Full(textIn[first])))
    BY <2>2, Zenon DEF first
  <2>. DEFINE taker == ready # {}
              taken == textIn[first]
  <2>9. /\ dev' = [d \in Devices |->
                  IF d \in drained THEN [dev[d] EXCEPT !.keys = <<>>]
                  ELSE IF taker /\ d = taken
                  THEN [dev[d] EXCEPT !.keys = Tail(Full(d))] ELSE dev[d]]
        /\ taker => taken \in Devices /\ Full(taken) # <<>> /\ Returns(Head(Full(taken)))
        /\ ~taker => last' = last
    BY <2>6, <2>7, <2>8
  <2>. HIDE DEF ready, drained, taker, taken
  <2>10. /\ last' \in [Devices -> Nat]
         /\ \A d \in Devices : ~(taker /\ d = taken) => last'[d] = last[d]
         /\ taker => last'[taken] = Head(Full(taken)).n
    <3>1. CASE ~taker
      BY <1>1, <2>9, <3>1
    <3>2. CASE taker
      <4>1. PICK ks \in Seq(Keys) : ks = dev[taken].keys
        BY <2>9, <3>2, KeysTyped
      <4>2. Full(taken) \in Seq(Keys) /\ Suffix(Full(taken), ks) /\ Full(taken) # <<>>
        BY <2>9, <3>2, <4>1, DropIs
      <4>3. PICK h \in Keys : h = Head(Full(taken)) /\ h \in ToSet(Full(taken))
        BY <4>2, TailIs
      <4>4. h \in ToSet(ks)
        BY <4>2, <4>3, SuffixSet
      <4>5. h.dev = taken
        BY <2>9, <3>2, <4>1, <4>4 DEF KeyNumbers, ToSet
      <4>6. last' = [last EXCEPT ![taken] = h.n]
        BY <2>9, <3>2, <4>3, <4>5 DEF Returns
      <4>. QED
        BY <1>1, <2>9, <3>2, <4>3, <4>6, KeysAre
    <3>. QED
      BY <3>1, <3>2
  <2>11. ASSUME NEW d \in Devices
         PROVE /\ dev'[d] \in DeviceState
               /\ dev'[d].n = dev[d].n /\ dev'[d].regs = dev[d].regs
               /\ dev'[d].caps = dev[d].caps /\ dev'[d].exposed = dev[d].exposed /\ dev'[d].pend = dev[d].pend
               /\ Suffix(dev'[d].keys, dev[d].keys)
               /\ Passes(d) \/ Takes(d)
    <3>1. PICK s \in DeviceState : s = dev[d] /\ s.keys \in Seq(Keys)
      BY KeysTyped
    <3>2. PICK full \in Seq(Keys) : full = Full(d) /\ KeepsFull(full, s.keys)
      BY <3>1, DropKeeps
    <3>3. CASE d \in drained
      <4>1. PICK t : t = [s EXCEPT !.keys = full]
        OBVIOUS
      <4>2. dev'[d] = t
        <5>1. full = <<>>
          BY <2>5, <3>2, <3>3
        <5>. QED
          BY <2>9, <3>1, <3>3, <4>1, <5>1
      <4>3. ~(taker /\ d = taken)
        BY <2>5, <2>9, <3>3
      <4>4. /\ t \in DeviceState /\ t.keys = full /\ t.n = s.n /\ t.regs = s.regs
            /\ t.caps = s.caps /\ t.exposed = s.exposed /\ t.pend = s.pend
        BY <4>1, WithKeys
      <4>5. Passes(d)
        BY <2>10, <3>1, <3>2, <4>2, <4>3, <4>4 DEF Passes
      <4>. QED
        BY <3>1, <3>2, <4>2, <4>4, <4>5 DEF KeepsFull
    <3>4. CASE d \notin drained /\ taker /\ d = taken
      <4>1. full # <<>>
        BY <2>9, <3>2, <3>4
      <4>2. PICK rest \in Seq(Keys) : rest = Tail(full) /\ Suffix(rest, full)
        BY <4>1, TailIs
      <4>3. PICK t : t = [s EXCEPT !.keys = rest]
        OBVIOUS
      <4>4. dev'[d] = t
        BY <2>9, <3>1, <3>2, <3>4, <4>2, <4>3
      <4>5. /\ t \in DeviceState /\ t.keys = rest /\ t.n = s.n /\ t.regs = s.regs
            /\ t.caps = s.caps /\ t.exposed = s.exposed /\ t.pend = s.pend
        BY <4>3, WithKeys
      <4>6. Takes(d)
        BY <2>10, <3>2, <3>4, <4>1, <4>2, <4>4, <4>5 DEF Takes
      <4>7. Suffix(rest, s.keys)
        BY <3>1, <3>2, <4>2, SuffixAgain DEF KeepsFull
      <4>. QED
        BY <3>1, <4>4, <4>5, <4>6, <4>7
    <3>5. CASE d \notin drained /\ ~(taker /\ d = taken)
      <4>1. dev'[d] = s
        BY <2>9, <3>1, <3>5
      <4>2. Passes(d)
        BY <2>10, <3>1, <3>5, <4>1, SelfKeeps DEF Passes
      <4>. QED
        BY <3>1, <4>1, <4>2, SuffixSelf
    <3>. QED
      BY <3>3, <3>4, <3>5
  <2>12. dev' \in [Devices -> DeviceState]
    <3>1. dev' = [d \in Devices |-> dev'[d]]
      BY <2>9
    <3>. QED
      BY <3>1, <2>11
  <2>13. RegsStay /\ TogglesStay /\ KeysGo
    BY <2>11 DEF RegsStay, TogglesStay, KeysGo
  <2>14. KeyQueue' = <<>> /\ Idle
    BY <1>3 DEF ReadKeyStroke
  <2>15. FromKeyboard
    BY <2>10, <2>11 DEF FromKeyboard
  <2>. QED
    BY <2>1, <2>12, <2>13, <2>14, <2>15
<1>. QED
  BY <1>2, <1>3

LEMMA ReadKeyStrokeExIs == ASSUME SplitterAssumption, Types, Lists, KeyNumbers, ReadKeyStrokeEx
  PROVE /\ Idle /\ dev' \in [Devices -> DeviceState] /\ RegsStay /\ TogglesStay /\ KeysGo
        /\ FromQueue \/ Saves
<1>1. KeyQueue \in Seq(Keys) /\ last \in [Devices -> Nat] /\ dev \in [Devices -> DeviceState] /\ Idle
  BY KeysTyped DEF ReadKeyStrokeEx
<1>2. CASE KeyQueue # <<>>
  <2>1. /\ KeyQueue' = Tail(KeyQueue) /\ dev' = dev
        /\ last' = [last EXCEPT ![Head(KeyQueue).dev] = Head(KeyQueue).n]
    BY <1>2 DEF ReadKeyStrokeEx, Returns, Dequeued
  <2>2. Head(KeyQueue).dev \in Devices
    BY <1>1, <1>2, TailIs, KeysAre
  <2>3. FromQueue
    BY <1>1, <1>2, <2>1, <2>2, SelfKeeps DEF FromQueue
  <2>. QED
    BY <1>1, <2>1, <2>3, NothingChanges, StayGo
<1>3. CASE KeyQueue = <<>>
  <2>1. PICK mute \in SUBSET ToSet(textInEx) :
          LET D == {d \in ToSet(textInEx) \ mute : dev[d].keys # <<>>}
              saved == Saved(D)
          IN /\ dev' = [d \in Devices |-> IF d \in D THEN [dev[d] EXCEPT !.keys = Tail(@)] ELSE dev[d]]
             /\ IF saved = <<>> THEN UNCHANGED <<last, KeyQueue>>
                ELSE Returns(saved[1]) /\ KeyQueue' = Dequeued(saved)
    BY <1>3, Zenon DEF ReadKeyStrokeEx
  <2>. DEFINE D == {d \in ToSet(textInEx) \ mute : dev[d].keys # <<>>}
  <2>2. /\ dev' = [d \in Devices |-> IF d \in D THEN [dev[d] EXCEPT !.keys = Tail(@)] ELSE dev[d]]
        /\ IF Saved(D) = <<>> THEN last' = last /\ KeyQueue' = KeyQueue
           ELSE last' = [last EXCEPT ![Saved(D)[1].dev] = Saved(D)[1].n] /\ KeyQueue' = Tail(Saved(D))
    BY <2>1 DEF Returns, Dequeued
  <2>3. D \in SUBSET ToSet(textInEx) /\ \A d \in D : dev[d].keys # <<>>
    OBVIOUS
  <2>. HIDE DEF D
  <2>4. ASSUME NEW d \in Devices
        PROVE /\ dev'[d] \in DeviceState
              /\ dev'[d].n = dev[d].n /\ dev'[d].regs = dev[d].regs
              /\ dev'[d].caps = dev[d].caps /\ dev'[d].exposed = dev[d].exposed /\ dev'[d].pend = dev[d].pend
              /\ dev'[d].keys = IF d \in D THEN Tail(dev[d].keys) ELSE dev[d].keys
              /\ Suffix(dev'[d].keys, dev[d].keys)
    <3>1. PICK s \in DeviceState : s = dev[d] /\ s.keys \in Seq(Keys)
      BY KeysTyped
    <3>2. CASE d \in D
      <4>1. PICK rest \in Seq(Keys) : rest = Tail(s.keys) /\ Suffix(rest, s.keys)
        BY <2>3, <3>1, <3>2, TailIs
      <4>2. PICK t : t = [s EXCEPT !.keys = rest]
        OBVIOUS
      <4>3. dev'[d] = t
        BY <2>2, <3>1, <3>2, <4>1, <4>2
      <4>4. /\ t \in DeviceState /\ t.keys = rest /\ t.n = s.n /\ t.regs = s.regs
            /\ t.caps = s.caps /\ t.exposed = s.exposed /\ t.pend = s.pend
        BY <4>2, WithKeys
      <4>. QED
        BY <3>1, <3>2, <4>1, <4>3, <4>4
    <3>3. CASE d \notin D
      <4>1. dev'[d] = s
        BY <2>2, <3>1, <3>3
      <4>. QED
        BY <3>1, <3>3, <4>1, SuffixSelf
    <3>. QED
      BY <3>2, <3>3
  <2>5. dev' \in [Devices -> DeviceState]
    <3>1. dev' = [d \in Devices |-> dev'[d]]
      BY <2>2
    <3>. QED
      BY <3>1, <2>4
  <2>6. RegsStay /\ TogglesStay /\ KeysGo
    BY <2>4 DEF RegsStay, TogglesStay, KeysGo
  <2>7. Saves
    BY <1>3, <2>2, <2>3, <2>4 DEF Saves
  <2>. QED
    BY <1>1, <2>5, <2>6, <2>7
<1>. QED
  BY <1>2, <1>3

LEMMA WaitForKeyIs == ASSUME SplitterAssumption, Types, WaitForKey
  PROVE /\ Idle /\ dev' \in [Devices -> DeviceState] /\ RegsStay /\ TogglesStay /\ KeysGo
        /\ KeyQueue' = KeyQueue /\ last' = last /\ FromKeyboard
<1>1. last \in [Devices -> Nat] /\ dev \in [Devices -> DeviceState] /\ KeyQueue' = KeyQueue /\ last' = last /\ Idle
  BY KeysTyped DEF WaitForKey
<1>2. CASE dev' = dev
  <2>1. \A d \in Devices : Passes(d)
    BY <1>1, <1>2, KeysTyped, SelfKeeps DEF Passes
  <2>. QED
    BY <1>1, <1>2, <2>1, NothingChanges, StayGo DEF FromKeyboard
<1>3. CASE dev' = [d \in Devices |-> IF d \in ToSet(textIn)
                                     THEN [dev[d] EXCEPT !.keys = DropPartial(@)] ELSE dev[d]]
  <2>1. ASSUME NEW d \in Devices
        PROVE /\ dev'[d] \in DeviceState
              /\ dev'[d].n = dev[d].n /\ dev'[d].regs = dev[d].regs
              /\ dev'[d].caps = dev[d].caps /\ dev'[d].exposed = dev[d].exposed /\ dev'[d].pend = dev[d].pend
              /\ Suffix(dev'[d].keys, dev[d].keys) /\ Passes(d)
    <3>1. PICK s \in DeviceState : s = dev[d] /\ s.keys \in Seq(Keys)
      BY KeysTyped
    <3>2. CASE d \in ToSet(textIn)
      <4>1. PICK t : t = Checked(s)
        OBVIOUS
      <4>2. dev'[d] = t
        BY <1>3, <3>1, <3>2, <4>1 DEF Checked
      <4>3. /\ t \in DeviceState /\ t.keys = DropPartial(s.keys) /\ t.n = s.n /\ t.regs = s.regs
            /\ t.caps = s.caps /\ t.exposed = s.exposed /\ t.pend = s.pend
        BY <4>1, CheckedIs
      <4>4. DropPartial(s.keys) \in Seq(Keys) /\ KeepsFull(DropPartial(s.keys), s.keys)
        BY <3>1, DropKeeps
      <4>5. Passes(d)
        BY <1>1, <3>1, <4>2, <4>3, <4>4 DEF Passes
      <4>. QED
        BY <3>1, <4>2, <4>3, <4>4, <4>5 DEF KeepsFull
    <3>3. CASE d \notin ToSet(textIn)
      <4>1. dev'[d] = s
        BY <1>3, <3>1, <3>3
      <4>2. Passes(d)
        BY <1>1, <3>1, <4>1, SelfKeeps DEF Passes
      <4>. QED
        BY <3>1, <4>1, <4>2, SuffixSelf
    <3>. QED
      BY <3>2, <3>3
  <2>2. dev' \in [Devices -> DeviceState]
    <3>1. dev' = [d \in Devices |-> dev'[d]]
      BY <1>3
    <3>. QED
      BY <3>1, <2>1
  <2>3. RegsStay /\ TogglesStay /\ KeysGo
    BY <2>1 DEF RegsStay, TogglesStay, KeysGo
  <2>. QED
    BY <1>1, <2>1, <2>2, <2>3 DEF FromKeyboard
<1>. QED
  BY <1>2, <1>3 DEF WaitForKey

-----------------------------------------------------------------------------
(* Registrations, and the keyboards that come and go.                       *)

LEMMA ConcatLength == ASSUME NEW S, NEW u \in Seq(S), NEW v \in Seq(S) PROVE Len(u \o v) = Len(u) + Len(v)
OBVIOUS

LEMMA RemoveAtIs == ASSUME NEW S, NEW s \in Seq(S), NEW k \in 1..Len(s)
  PROVE /\ RemoveAt(s, k) \in Seq(S) /\ Len(RemoveAt(s, k)) = Len(s) - 1
        /\ \A i \in 1..(Len(s) - 1) : RemoveAt(s, k)[i] = IF i < k THEN s[i] ELSE s[i + 1]
<1>1. Len(s) \in Nat /\ k \in Nat /\ \A i \in 1..Len(s) : s[i] \in S
  OBVIOUS
<1>2. PICK u : u = SubSeq(s, 1, k - 1)
  OBVIOUS
<1>3. u \in Seq(S) /\ Len(u) = k - 1 /\ \A i \in 1..(k - 1) : u[i] = s[i]
  <2>1. u \in Seq(S)
    BY <1>1, <1>2
  <2>. QED
    BY <1>1, <1>2, <2>1
<1>4. PICK v : v = SubSeq(s, k + 1, Len(s))
  OBVIOUS
<1>5. v \in Seq(S) /\ Len(v) = Len(s) - k /\ \A i \in 1..(Len(s) - k) : v[i] = s[i + k]
  <2>1. v \in Seq(S)
    BY <1>1, <1>4
  <2>2. Len(v) = Len(s) - k
    BY <1>1, <1>4
  <2>. QED
    BY <1>1, <1>4, <2>1, <2>2
<1>6. RemoveAt(s, k) = u \o v
  BY <1>2, <1>4 DEF RemoveAt
<1>. DEFINE t == u \o v
<1>7. t \in Seq(S) /\ Len(t) = Len(s) - 1
  <2>1. t \in Seq(S)
    BY <1>3, <1>5
  <2>2. Len(t) = Len(u) + Len(v)
    BY ONLY <1>3, <1>5, ConcatLength
  <2>. QED
    BY <1>1, <1>3, <1>5, <2>1, <2>2
<1>8. ASSUME NEW i \in 1..(Len(s) - 1) PROVE t[i] = IF i < k THEN s[i] ELSE s[i + 1]
  <2>1. CASE i < k
    <3>1. i \in 1..Len(u) /\ i \in 1..(k - 1)
      BY <1>1, <1>3, <2>1
    <3>2. t[i] = u[i]
      BY <1>3, <1>5, <3>1
    <3>. QED
      BY <1>3, <2>1, <3>1, <3>2
  <2>2. CASE ~(i < k)
    <3>1. PICK j \in Nat : j = i - Len(u) /\ j \in 1..(Len(s) - k) /\ j \in 1..Len(v)
      BY <1>1, <1>3, <1>5, <2>2
    <3>2. i = Len(u) + j /\ j + k = i + 1
      BY <1>1, <1>3, <3>1
    <3>3. t[Len(u) + j] = v[j]
      BY <1>3, <1>5, <3>1
    <3>4. v[j] = s[j + k]
      BY <1>5, <3>1
    <3>. QED
      BY <2>2, <3>2, <3>3, <3>4
  <2>. QED
    BY <2>1, <2>2
<1>. HIDE DEF t
<1>. QED
  BY <1>6, <1>7, <1>8 DEF t

\* A list that names each keyboard once, without one of them.
LEMMA WithoutIs == ASSUME NEW S, NEW s \in Seq(S), IsInjective(s), NEW d
  PROVE LET t == Without(s, d)
        IN /\ t \in Seq(S) /\ IsInjective(t) /\ ToSet(t) = ToSet(s) \ {d} /\ Len(t) <= Len(s)
           /\ d \in ToSet(s) /\ Last(s) = d =>
                Len(t) = Len(s) - 1 /\ \A i \in 1..Len(t) : t[i] = s[i]
           /\ d \notin ToSet(s) => t = s
<1>1. Len(s) \in Nat /\ DOMAIN s = 1..Len(s)
  OBVIOUS
<1>2. CASE d \notin ToSet(s)
  <2>1. Without(s, d) = s
    BY <1>1, <1>2 DEF Without, RemoveFirst, ToSet
  <2>2. ToSet(s) \ {d} = ToSet(s)
    BY <1>2
  <2>3. Len(s) <= Len(s)
    BY <1>1
  <2>. QED
    BY <1>2, <2>1, <2>2, <2>3, Zenon
<1>3. CASE d \in ToSet(s)
  <2>. DEFINE I == {i \in 1..Len(s) : s[i] = d}
  <2>1. I \in SUBSET Nat /\ I # {}
    BY <1>1, <1>3 DEF ToSet
  <2>2. PICK k \in Nat : k = Min(I)
    BY <2>1, LeastOf
  <2>3. k \in 1..Len(s) /\ s[k] = d
    <3>1. k \in I
      BY ONLY <2>1, <2>2, LeastOf
    <3>. QED
      BY <3>1
  <2>4. Without(s, d) = RemoveAt(s, k)
    <3>1. SelectInSeq(s, LAMBDA v : v = d) = k
      BY <2>1, <2>2 DEF SelectInSeq
    <3>2. \E i \in 1..Len(s) : s[i] = d
      BY <2>3
    <3>. QED
      BY <3>1, <3>2 DEF Without, RemoveFirst
  <2>5. PICK t : t = RemoveAt(s, k)
    OBVIOUS
  <2>6. /\ t \in Seq(S) /\ Len(t) = Len(s) - 1
        /\ \A i \in 1..(Len(s) - 1) : t[i] = IF i < k THEN s[i] ELSE s[i + 1]
    BY ONLY <2>3, <2>5, RemoveAtIs
  <2>. HIDE DEF I
  <2>7. DOMAIN t = 1..(Len(s) - 1)
    BY <1>1, <2>6
  <2>8. \A i, j \in DOMAIN s : s[i] = s[j] => i = j
    BY DEF IsInjective
  <2>9. IsInjective(t)
    <3>1. ASSUME NEW i \in DOMAIN t, NEW j \in DOMAIN t, t[i] = t[j] PROVE i = j
      <4>1. PICK x \in DOMAIN s : t[i] = s[x] /\ x = IF i < k THEN i ELSE i + 1
        BY <1>1, <2>3, <2>6, <2>7
      <4>2. PICK y \in DOMAIN s : t[j] = s[y] /\ y = IF j < k THEN j ELSE j + 1
        BY <1>1, <2>3, <2>6, <2>7
      <4>3. x = y
        BY <3>1, <4>1, <4>2, <2>8
      <4>. QED
        BY <1>1, <2>3, <2>7, <4>1, <4>2, <4>3
    <3>. QED
      BY <3>1 DEF IsInjective
  <2>10. ToSet(t) = ToSet(s) \ {d}
    <3>1. ASSUME NEW i \in DOMAIN t PROVE t[i] \in ToSet(s) \ {d}
      <4>1. PICK x \in DOMAIN s : t[i] = s[x] /\ x = IF i < k THEN i ELSE i + 1
        BY <1>1, <2>3, <2>6, <2>7
      <4>2. x # k
        BY <1>1, <2>3, <2>7, <4>1
      <4>. QED
        BY <1>1, <2>3, <2>8, <4>1, <4>2 DEF ToSet
    <3>2. ASSUME NEW x \in DOMAIN s, s[x] # d PROVE s[x] \in ToSet(t)
      <4>1. x # k
        BY <2>3, <3>2
      <4>2. CASE x < k
        <5>1. x \in DOMAIN t /\ t[x] = s[x]
          BY <1>1, <2>3, <2>6, <2>7, <4>2
        <5>. QED
          BY <5>1 DEF ToSet
      <4>3. CASE x > k
        <5>1. x - 1 \in DOMAIN t /\ ~(x - 1 < k) /\ (x - 1) + 1 = x /\ x - 1 \in 1..(Len(s) - 1)
          BY <1>1, <2>3, <2>7, <4>3
        <5>2. t[x - 1] = s[(x - 1) + 1]
          BY <2>6, <5>1
        <5>3. t[x - 1] = s[x]
          BY <5>1, <5>2
        <5>. QED
          BY <5>1, <5>3 DEF ToSet
      <4>. QED
        BY <1>1, <2>3, <4>1, <4>2, <4>3
    <3>. QED
      BY <3>1, <3>2 DEF ToSet
  <2>11. Last(s) = d => Len(t) = Len(s) - 1 /\ \A i \in 1..Len(t) : t[i] = s[i]
    <3>1. Last(s) = d => k = Len(s)
      <4>1. Len(s) \in DOMAIN s /\ k \in DOMAIN s
        BY <1>1, <2>3
      <4>. QED
        BY <2>3, <2>8, <4>1 DEF Last
    <3>. QED
      BY <1>1, <2>6, <3>1
  <2>. QED
    BY <1>1, <1>3, <2>4, <2>5, <2>6, <2>9, <2>10, <2>11
<1>. QED
  BY <1>2, <1>3

\* A list with one keyboard more.
LEMMA AppendIs == ASSUME NEW S, NEW s \in Seq(S), NEW d \in S
  PROVE LET t == Append(s, d)
        IN /\ t \in Seq(S) /\ Len(t) = Len(s) + 1 /\ t[Len(s) + 1] = d
           /\ \A i \in 1..Len(s) : t[i] = s[i]
           /\ ToSet(t) = ToSet(s) \cup {d}
           /\ IsInjective(s) /\ d \notin ToSet(s) => IsInjective(t)
<1>1. PICK t : t = Append(s, d)
  OBVIOUS
<1>2. /\ t \in Seq(S) /\ Len(t) = Len(s) + 1 /\ Len(s) \in Nat /\ t[Len(s) + 1] = d
      /\ DOMAIN t = 1..(Len(s) + 1) /\ DOMAIN s = 1..Len(s)
      /\ \A i \in 1..Len(s) : t[i] = s[i]
  BY <1>1
<1>3. ToSet(t) = ToSet(s) \cup {d}
  <2>1. \A i \in DOMAIN t : t[i] \in ToSet(s) \cup {d}
    BY <1>2 DEF ToSet
  <2>2. \A i \in DOMAIN s : s[i] \in ToSet(t)
    BY <1>2 DEF ToSet
  <2>3. d \in ToSet(t)
    BY <1>2 DEF ToSet
  <2>. QED
    BY <2>1, <2>2, <2>3 DEF ToSet
<1>4. IsInjective(s) /\ d \notin ToSet(s) => IsInjective(t)
  BY <1>2 DEF IsInjective, ToSet
<1>. QED
  BY <1>1, <1>2, <1>3, <1>4

\* A new registration is made on every keyboard of TextInExList, or on none.
RegistrationMade(r) ==
  /\ \E handles \in Seq(Handles) :
       /\ Len(handles) = exCount
       /\ NotifyList' = Append(NotifyList, [reg |-> r, handles |-> handles])
       /\ \A j \in 1..exCount : handles[j] = NoHandle \/ handles[j].reg.fn = r.fn
       /\ \A j \in 1..Len(textInEx) :
            (\A s \in dev[textInEx[j]].regs : ~Covers(s, r)) => handles[j] = [dev |-> textInEx[j], reg |-> r]
  /\ \A d \in Devices :
       /\ dev[d].regs \subseteq dev'[d].regs
       /\ d \notin ToSet(textInEx) => dev'[d].regs = dev[d].regs
       /\ d \in ToSet(textInEx) /\ (\A s \in dev[d].regs : ~Covers(s, r)) => dev'[d].regs = dev[d].regs \cup {r}

RegistrationUndone(r) ==
  /\ NotifyList' = NotifyList
  /\ \A d \in Devices :
       /\ dev'[d].regs \subseteq dev[d].regs
       /\ ToggleSync \in dev[d].regs => ToggleSync \in dev'[d].regs
       /\ d \notin ToSet(textInEx) => dev'[d].regs = dev[d].regs
       /\ (\A s \in dev[d].regs : ~Covers(s, r)) => dev'[d].regs = dev[d].regs

\* A keyboard whose registrations are regs is given r and answers m.
Registering(d, regs, r, m) ==
  /\ m.regs \in SUBSET Registrations /\ regs \subseteq m.regs /\ m.regs \subseteq regs \cup {r}
  /\ m.handle \in Handles /\ m.handle.dev = d /\ m.handle.reg \in Registrations
  /\ m.handle.reg.fn = r.fn
  /\ (\A s \in regs : ~Covers(s, r)) => m.regs = regs \cup {r} /\ m.handle = [dev |-> d, reg |-> r]

LEMMA RegisteringIs ==
  ASSUME SplitterAssumption, NEW d \in Devices, NEW regs \in SUBSET Registrations, NEW r \in Registrations
  PROVE Registering(d, regs, r, Register(d, regs, r))
<1>. DEFINE old == {s \in regs : Covers(s, r)}
<1>1. CASE old = {}
  <2>1. Register(d, regs, r) = [regs |-> regs \cup {r}, handle |-> [dev |-> d, reg |-> r]]
    BY <1>1 DEF Register
  <2>. QED
    BY <2>1, RegistrationsAre DEF Registering
<1>2. CASE old # {}
  <2>1. PICK s \in old : s = CHOOSE x \in old : TRUE
    BY <1>2
  <2>2. Register(d, regs, r) = [regs |-> regs \cup {s}, handle |-> [dev |-> d, reg |-> s]]
    BY <1>2, <2>1 DEF Register
  <2>3. ~\A t \in regs : ~Covers(t, r)
    BY <1>2
  <2>. QED
    BY <2>1, <2>2, <2>3, RegistrationsAre DEF Registering
<1>. QED
  BY <1>1, <1>2

LEMMA Gives == ASSUME NEW d, NEW regs, NEW r, NEW m, Registering(d, regs, r, m)
  PROVE /\ m.handle \in Handles /\ m.handle.reg.fn = r.fn
        /\ (\A s \in regs : ~Covers(s, r)) => m.handle = [dev |-> d, reg |-> r]
BY DEF Registering

LEMMA RegisterKeyNotifyIs ==
  ASSUME SplitterAssumption, Types, Lists, Room, NEW r \in Requests, RegisterKeyNotify(r)
  PROVE /\ Idle /\ ~Registered(r)
        /\ dev' \in [Devices -> DeviceState] /\ KeysStay /\ TogglesStay
        /\ RegistrationMade(r) \/ RegistrationUndone(r)
<1>1. /\ r \in Registrations /\ r.fn # ToggleSync.fn /\ r # ToggleSync /\ Covers(r, r)
      /\ \A s \in Registrations : Covers(s, r) => s.fn = r.fn
  BY RegistrationsAre
<1>. DEFINE Mine(d, n) == \E i \in 1..(n - 1) : textInEx[i] = d
            New(d, all) == LET m == Register(d, dev[d].regs, r)
                           IN IF all THEN m.regs ELSE Unregister(d, m.regs, m.handle)
            Handle(i, n) == IF i < n THEN Register(textInEx[i], dev[textInEx[i]].regs, r).handle ELSE NoHandle
            N == Len(textInEx)
<1>2. PICK n \in 1..(N + 1) :
        /\ dev' = [d \in Devices |-> IF Mine(d, n) THEN [dev[d] EXCEPT !.regs = New(d, n = N + 1)] ELSE dev[d]]
        /\ NotifyList' = IF n # N + 1 THEN NotifyList
             ELSE Append(NotifyList, [reg |-> r, handles |-> [i \in 1..exCount |-> Handle(i, n)]])
  BY Zenon DEF RegisterKeyNotify
<1>3. Idle /\ ~Registered(r)
  BY DEF RegisterKeyNotify, Call
<1>4. N \in Nat /\ N <= exCount /\ exCount \in Nat /\ \A i \in 1..N : textInEx[i] \in Devices
  BY ListIs DEF Room, Types, ListTypes
<1>5. \A d \in Devices : dev[d] \in DeviceState /\ dev[d].regs \in SUBSET Registrations
  BY FieldsAre DEF Types
<1>6. \A d \in Devices : Registering(d, dev[d].regs, r, Register(d, dev[d].regs, r))
  BY <1>1, <1>5, RegisteringIs
<1>7. ASSUME NEW d \in Devices
      PROVE LET u == New(d, FALSE)
            IN /\ u \in SUBSET Registrations /\ u \subseteq dev[d].regs
               /\ ToggleSync \in dev[d].regs => ToggleSync \in u
               /\ (\A s \in dev[d].regs : ~Covers(s, r)) => u = dev[d].regs
  <2>1. PICK m : m = Register(d, dev[d].regs, r)
    OBVIOUS
  <2>2. /\ m.regs \in SUBSET Registrations /\ dev[d].regs \subseteq m.regs /\ m.regs \subseteq dev[d].regs \cup {r}
        /\ m.handle.dev = d /\ m.handle.reg.fn = r.fn
        /\ (\A s \in dev[d].regs : ~Covers(s, r)) => m.regs = dev[d].regs \cup {r} /\ m.handle = [dev |-> d, reg |-> r]
    BY <1>6, <2>1 DEF Registering
  <2>3. New(d, FALSE) = m.regs \ {m.handle.reg}
    BY <2>1, <2>2 DEF Unregister
  <2>4. m.handle.reg # ToggleSync
    BY <1>1, <2>2
  <2>5. (\A s \in dev[d].regs : ~Covers(s, r)) => r \notin dev[d].regs
    BY <1>1
  <2>6. (\A s \in dev[d].regs : ~Covers(s, r)) => m.regs \ {m.handle.reg} = dev[d].regs
    BY <2>2, <2>5
  <2>7. r = m.handle.reg \/ m.regs \subseteq dev[d].regs
    <3>1. CASE \A s \in dev[d].regs : ~Covers(s, r)
      BY <2>2, <3>1
    <3>2. CASE ~(\A s \in dev[d].regs : ~Covers(s, r))
      <4>. DEFINE old == {s \in dev[d].regs : Covers(s, r)}
      <4>1. old # {}
        BY <3>2
      <4>2. PICK x : x = (CHOOSE y \in old : TRUE) /\ x \in old
        BY <4>1
      <4>3. m.regs = dev[d].regs \cup {x}
        BY <2>1, <4>1, <4>2 DEF Register
      <4>. QED
        BY <4>2, <4>3
    <3>. QED
      BY <3>1, <3>2
  <2>. QED
    BY <2>2, <2>3, <2>4, <2>6, <2>7
<1>. HIDE DEF New, Handle
<1>8. \A d \in Devices : New(d, TRUE) = Register(d, dev[d].regs, r).regs
  BY DEF New
<1>9. \A d \in Devices : \A all \in BOOLEAN : New(d, all) \in SUBSET Registrations
  <2>1. ASSUME NEW d \in Devices
        PROVE New(d, TRUE) \in SUBSET Registrations /\ New(d, FALSE) \in SUBSET Registrations
    <3>1. PICK m : m = Register(d, dev[d].regs, r) /\ Registering(d, dev[d].regs, r, m)
      BY <1>6
    <3>2. New(d, TRUE) = m.regs
      BY <1>8, <3>1
    <3>3. m.regs \in SUBSET Registrations
      BY <3>1 DEF Registering
    <3>. QED
      BY <1>7, <3>2, <3>3
  <2>. QED
    BY <2>1
<1>10. ASSUME NEW d \in Devices
       PROVE /\ dev'[d] \in DeviceState
             /\ dev'[d].keys = dev[d].keys /\ dev'[d].n = dev[d].n
             /\ dev'[d].caps = dev[d].caps /\ dev'[d].exposed = dev[d].exposed /\ dev'[d].pend = dev[d].pend
             /\ dev'[d].regs = IF Mine(d, n) THEN New(d, n = N + 1) ELSE dev[d].regs
  <2>1. PICK s \in DeviceState : s = dev[d]
    BY <1>5
  <2>2. CASE Mine(d, n)
    <3>1. PICK regs \in SUBSET Registrations : regs = New(d, n = N + 1)
      BY <1>9
    <3>2. PICK t : t = [s EXCEPT !.regs = regs]
      OBVIOUS
    <3>3. dev'[d] = t
      BY <1>2, <2>1, <2>2, <3>1, <3>2
    <3>4. /\ t \in DeviceState /\ t.keys = s.keys /\ t.n = s.n /\ t.regs = regs
          /\ t.caps = s.caps /\ t.exposed = s.exposed /\ t.pend = s.pend
      BY ONLY <3>2, WithRegs
    <3>. QED
      BY <2>1, <2>2, <3>1, <3>3, <3>4
  <2>3. CASE ~Mine(d, n)
    <3>1. dev'[d] = s
      BY <1>2, <2>1, <2>3
    <3>. QED
      BY <2>1, <2>3, <3>1
  <2>. QED
    BY <2>2, <2>3
<1>11. dev' \in [Devices -> DeviceState]
  <2>1. dev' = [d \in Devices |-> dev'[d]]
    BY <1>2
  <2>. QED
    BY <1>10, <2>1
<1>12. KeysStay /\ TogglesStay
  BY <1>10 DEF KeysStay, TogglesStay
<1>13. \A d \in Devices : Mine(d, n) => d \in ToSet(textInEx)
  BY <1>4, ListIs DEF ToSet
<1>14. CASE n = N + 1
  <2>1. \A d \in Devices : Mine(d, n) <=> d \in ToSet(textInEx)
    BY <1>4, <1>13, <1>14, ListIs DEF ToSet
  <2>2. ASSUME NEW d \in Devices
        PROVE /\ dev[d].regs \subseteq dev'[d].regs
              /\ d \notin ToSet(textInEx) => dev'[d].regs = dev[d].regs
              /\ d \in ToSet(textInEx) /\ (\A s \in dev[d].regs : ~Covers(s, r)) => dev'[d].regs = dev[d].regs \cup {r}
    <3>1. (n = N + 1) = TRUE
      BY <1>14
    <3>2. dev'[d].regs = IF d \in ToSet(textInEx) THEN New(d, TRUE) ELSE dev[d].regs
      BY <1>10, <2>1, <3>1
    <3>3. PICK m : m = Register(d, dev[d].regs, r) /\ Registering(d, dev[d].regs, r, m)
      BY <1>6
    <3>4. New(d, TRUE) = m.regs
      BY <1>8, <3>3
    <3>5. dev[d].regs \subseteq m.regs /\ ((\A s \in dev[d].regs : ~Covers(s, r)) => m.regs = dev[d].regs \cup {r})
      BY <3>3 DEF Registering
    <3>. QED
      BY <3>2, <3>4, <3>5
  <2>3. PICK handles : handles = [i \in 1..exCount |-> Handle(i, n)]
    OBVIOUS
  <2>4. \A i \in 1..exCount : i < n => i \in 1..N /\ textInEx[i] \in Devices /\ Handle(i, n) = Register(textInEx[i], dev[textInEx[i]].regs, r).handle
    BY <1>4, <1>14 DEF Handle
  <2>5. \A i \in 1..exCount : ~(i < n) => Handle(i, n) = NoHandle
    BY DEF Handle
  <2>6. \A i \in 1..exCount : /\ Handle(i, n) \in Handles
                              /\ Handle(i, n) = NoHandle \/ Handle(i, n).reg.fn = r.fn
    <3>1. ASSUME NEW i \in 1..exCount
          PROVE Handle(i, n) \in Handles /\ (Handle(i, n) = NoHandle \/ Handle(i, n).reg.fn = r.fn)
      <4>1. CASE i < n
        <5>1. PICK d \in Devices : d = textInEx[i] /\ Handle(i, n) = Register(d, dev[d].regs, r).handle
          BY <2>4, <4>1
        <5>2. PICK m : m = Register(d, dev[d].regs, r)
          OBVIOUS
        <5>3. Registering(d, dev[d].regs, r, m)
          BY <1>6, <5>2
        <5>4. m.handle \in Handles /\ m.handle.reg.fn = r.fn
          BY <5>3 DEF Registering
        <5>. QED
          BY <5>1, <5>2, <5>4
      <4>2. CASE ~(i < n)
        BY <2>5, <4>2, RegistrationsAre
      <4>. QED
        BY <4>1, <4>2
    <3>. QED
      BY <3>1
  <2>7. handles \in Seq(Handles) /\ Len(handles) = exCount /\ \A j \in 1..exCount : handles[j] = Handle(j, n)
    BY <1>4, <2>3, <2>6
  <2>8. ASSUME NEW j \in 1..Len(textInEx), \A s \in dev[textInEx[j]].regs : ~Covers(s, r)
        PROVE handles[j] = [dev |-> textInEx[j], reg |-> r]
    <3>1. j \in 1..exCount /\ j < n
      BY <1>4, <1>14
    <3>. QED
      <4>1. PICK d \in Devices : d = textInEx[j] /\ Handle(j, n) = Register(d, dev[d].regs, r).handle
        BY <2>4, <3>1
      <4>2. Handle(j, n) = [dev |-> d, reg |-> r]
        BY <1>6, <2>8, <4>1, Gives
      <4>. QED
        BY <2>7, <3>1, <4>1, <4>2
  <2>9. NotifyList' = Append(NotifyList, [reg |-> r, handles |-> handles])
    BY <1>2, <1>14, <2>3, Zenon
  <2>10. RegistrationMade(r)
    <3>1. \A j \in 1..exCount : handles[j] = NoHandle \/ handles[j].reg.fn = r.fn
      BY <2>6, <2>7
    <3>2. \A j \in 1..Len(textInEx) :
            (\A s \in dev[textInEx[j]].regs : ~Covers(s, r)) => handles[j] = [dev |-> textInEx[j], reg |-> r]
      BY <2>8
    <3>. QED
      BY <2>2, <2>7, <2>9, <3>1, <3>2, Zenon DEF RegistrationMade
  <2>. QED
    BY <1>3, <1>11, <1>12, <2>10
<1>15. CASE n # N + 1
  <2>1. \A d \in Devices : dev'[d].regs = IF Mine(d, n) THEN New(d, FALSE) ELSE dev[d].regs
    <3>1. (n = N + 1) = FALSE
      BY <1>15
    <3>. QED
      BY <1>10, <3>1
  <2>2. ASSUME NEW d \in Devices
        PROVE /\ dev'[d].regs \subseteq dev[d].regs
              /\ ToggleSync \in dev[d].regs => ToggleSync \in dev'[d].regs
              /\ d \notin ToSet(textInEx) => dev'[d].regs = dev[d].regs
              /\ (\A s \in dev[d].regs : ~Covers(s, r)) => dev'[d].regs = dev[d].regs
    <3>1. PICK u : u = New(d, FALSE)
      OBVIOUS
    <3>2. /\ u \subseteq dev[d].regs
          /\ ToggleSync \in dev[d].regs => ToggleSync \in u
          /\ (\A s \in dev[d].regs : ~Covers(s, r)) => u = dev[d].regs
      BY <1>7, <3>1
    <3>3. dev'[d].regs = IF Mine(d, n) THEN u ELSE dev[d].regs
      BY <2>1, <3>1, Zenon
    <3>. HIDE DEF Mine
    <3>4. CASE Mine(d, n)
      <4>1. dev'[d].regs = u /\ d \in ToSet(textInEx)
        BY <1>13, <3>3, <3>4, Zenon
      <4>. QED
        BY ONLY <3>2, <4>1
    <3>5. CASE ~Mine(d, n)
      <4>1. dev'[d].regs = dev[d].regs
        BY <3>3, <3>5, Zenon
      <4>. QED
        BY ONLY <4>1
    <3>. QED
      BY ONLY <3>4, <3>5
  <2>3. RegistrationUndone(r)
    BY <1>2, <1>15, <2>2 DEF RegistrationUndone
  <2>. QED
    BY <1>3, <1>11, <1>12, <2>3
<1>. QED
  BY <1>14, <1>15

\* An entry is removed, and unregistered with the handle at each keyboard's place.
RegistrationRemoved(r) ==
  \E k \in 1..Len(NotifyList) :
    /\ NotifyList[k].reg = r /\ NotifyList' = RemoveAt(NotifyList, k)
    /\ \A d \in Devices :
         /\ dev'[d].regs \subseteq dev[d].regs
         /\ d \notin ToSet(textInEx) => dev'[d].regs = dev[d].regs
    /\ \A j \in 1..Len(textInEx) :
         dev'[textInEx[j]].regs = Unregister(textInEx[j], dev[textInEx[j]].regs, NotifyList[k].handles[j])

LEMMA UnregisterKeyNotifyIs ==
  ASSUME SplitterAssumption, Types, Lists, NEW r \in Requests, UnregisterKeyNotify(r)
  PROVE /\ Idle /\ dev' \in [Devices -> DeviceState] /\ KeysStay /\ TogglesStay /\ RegistrationRemoved(r)
<1>. DEFINE At(d) == CHOOSE j \in DOMAIN textInEx : textInEx[j] = d
            Mine(d) == \E i \in DOMAIN textInEx : textInEx[i] = d
            New(k, d) == Unregister(d, dev[d].regs, NotifyList[k].handles[At(d)])
<1>1. PICK k \in DOMAIN NotifyList :
        /\ NotifyList[k].reg = r /\ NotifyList' = RemoveAt(NotifyList, k)
        /\ dev' = [d \in Devices |-> IF Mine(d) THEN [dev[d] EXCEPT !.regs = New(k, d)] ELSE dev[d]]
  BY DEF UnregisterKeyNotify, HandleFor
<1>2. Idle
  BY DEF UnregisterKeyNotify, Call
<1>3. \A d \in Devices : dev[d] \in DeviceState /\ dev[d].regs \in SUBSET Registrations
  BY FieldsAre DEF Types
<1>4. \A d \in Devices : New(k, d) \in SUBSET Registrations /\ New(k, d) \subseteq dev[d].regs
  BY <1>3 DEF Unregister
<1>5. \A j \in 1..Len(textInEx) : At(textInEx[j]) = j /\ Mine(textInEx[j])
  BY ListIs DEF Lists, IsInjective
<1>. HIDE DEF New
<1>6. ASSUME NEW d \in Devices
      PROVE /\ dev'[d] \in DeviceState
            /\ dev'[d].keys = dev[d].keys /\ dev'[d].n = dev[d].n
            /\ dev'[d].caps = dev[d].caps /\ dev'[d].exposed = dev[d].exposed /\ dev'[d].pend = dev[d].pend
            /\ dev'[d].regs = IF Mine(d) THEN New(k, d) ELSE dev[d].regs
  <2>1. PICK s \in DeviceState : s = dev[d]
    BY <1>3
  <2>2. CASE Mine(d)
    <3>1. PICK regs \in SUBSET Registrations : regs = New(k, d)
      BY <1>4
    <3>2. PICK t : t = [s EXCEPT !.regs = regs]
      OBVIOUS
    <3>3. dev'[d] = t
      BY <1>1, <2>1, <2>2, <3>1, <3>2
    <3>4. /\ t \in DeviceState /\ t.keys = s.keys /\ t.n = s.n /\ t.regs = regs
          /\ t.caps = s.caps /\ t.exposed = s.exposed /\ t.pend = s.pend
      BY <3>2, WithRegs
    <3>. QED
      BY <2>1, <2>2, <3>1, <3>3, <3>4
  <2>3. CASE ~Mine(d)
    <3>1. dev'[d] = s
      BY <1>1, <2>1, <2>3
    <3>. QED
      BY <2>1, <2>3, <3>1
  <2>. QED
    BY <2>2, <2>3
<1>7. dev' \in [Devices -> DeviceState]
  <2>1. dev' = [d \in Devices |-> dev'[d]]
    BY <1>1
  <2>. QED
    BY <1>6, <2>1
<1>8. KeysStay /\ TogglesStay
  BY <1>6 DEF KeysStay, TogglesStay
<1>9. ASSUME NEW d \in Devices
      PROVE dev'[d].regs \subseteq dev[d].regs /\ (d \notin ToSet(textInEx) => dev'[d].regs = dev[d].regs)
  BY <1>4, <1>6 DEF ToSet
<1>10. ASSUME NEW j \in 1..Len(textInEx)
       PROVE dev'[textInEx[j]].regs = Unregister(textInEx[j], dev[textInEx[j]].regs, NotifyList[k].handles[j])
  <2>1. textInEx[j] \in Devices
    BY ListIs
  <2>. QED
    BY <1>5, <1>6, <2>1 DEF New
<1>11. k \in 1..Len(NotifyList)
  BY ListOfEntries
<1>. QED
  BY <1>1, <1>2, <1>7, <1>8, <1>9, <1>10, <1>11 DEF RegistrationRemoved

\* An entry with its NotifyHandleList made longer.
Extends(new, old) ==
  /\ new \in Entry /\ new.reg = old.reg /\ exCount <= Len(new.handles)
  /\ \A j \in 1..exCount : new.handles[j] = old.handles[j]
  /\ \A j \in DOMAIN new.handles :
       new.handles[j] = NoHandle \/ (j \in DOMAIN old.handles /\ new.handles[j] = old.handles[j])

LEMMA ItselfExtends == ASSUME Types, Room, NEW i \in DOMAIN NotifyList PROVE Extends(NotifyList[i], NotifyList[i])
BY ListOfEntries DEF Extends, Room

LEMMA EnlargedIs == ASSUME SplitterAssumption, Types, Room, NEW i \in DOMAIN NotifyList
  PROVE Extends(Enlarged(NotifyList[i]), NotifyList[i]) /\ Len(Enlarged(NotifyList[i]).handles) = exCount + AllocUnit
<1>1. PICK n \in Entry : n = NotifyList[i] /\ n.handles \in Seq(Handles) /\ n.reg \in Registrations
  BY ListOfEntries
<1>2. exCount \in Nat /\ AllocUnit \in Nat \ {0} /\ exCount <= Len(n.handles) /\ NoHandle \in Handles
  BY <1>1, RegistrationsAre DEF SplitterAssumption, Types, ListTypes, Room
<1>3. PICK hs : hs = [j \in 1..(exCount + AllocUnit) |-> IF j <= exCount THEN n.handles[j] ELSE NoHandle]
  OBVIOUS
<1>4. /\ hs \in Seq(Handles) /\ Len(hs) = exCount + AllocUnit /\ DOMAIN hs = 1..(exCount + AllocUnit)
      /\ \A j \in 1..(exCount + AllocUnit) : hs[j] = IF j <= exCount THEN n.handles[j] ELSE NoHandle
  <2>1. \A j \in 1..exCount : j \in 1..Len(n.handles) /\ n.handles[j] \in Handles
    BY <1>1, <1>2
  <2>2. \A j \in 1..(exCount + AllocUnit) : hs[j] \in Handles
    BY <1>2, <1>3, <2>1
  <2>3. exCount + AllocUnit \in Nat
    BY <1>2
  <2>. QED
    BY <1>3, <2>2, <2>3
<1>5. Enlarged(n) = [n EXCEPT !.handles = hs]
  BY <1>3 DEF Enlarged
<1>6. Enlarged(n) \in Entry /\ Enlarged(n).reg = n.reg /\ Enlarged(n).handles = hs
  BY <1>1, <1>4, <1>5 DEF Entry
<1>7. \A j \in 1..exCount : hs[j] = n.handles[j]
  BY <1>2, <1>4
<1>8. \A j \in DOMAIN hs : hs[j] = NoHandle \/ (j \in DOMAIN n.handles /\ hs[j] = n.handles[j])
  BY <1>1, <1>2, <1>4
<1>9. exCount <= Len(hs)
  BY <1>2, <1>4
<1>. QED
  BY <1>1, <1>4, <1>6, <1>7, <1>8, <1>9 DEF Extends

\* A list of entries, each of them as long or longer.
Longer(new) ==
  /\ new \in Seq(Entry) /\ Len(new) = Len(NotifyList)
  /\ \A i \in 1..Len(NotifyList) : Extends(new[i], NotifyList[i])

LEMMA LongerIs == ASSUME SplitterAssumption, Types, Room, NEW S,
    NEW new, new = [i \in DOMAIN NotifyList |-> IF i \in S THEN Enlarged(NotifyList[i]) ELSE NotifyList[i]]
  PROVE Longer(new)
<1>1. DOMAIN NotifyList = 1..Len(NotifyList) /\ Len(NotifyList) \in Nat
  BY ListOfEntries
<1>2. \A i \in 1..Len(NotifyList) : Extends(new[i], NotifyList[i])
  BY <1>1, EnlargedIs, ItselfExtends
<1>3. new \in Seq(Entry) /\ Len(new) = Len(NotifyList)
  <2>1. \A i \in 1..Len(NotifyList) : new[i] \in Entry
    BY <1>2 DEF Extends
  <2>. QED
    BY <1>1, <2>1
<1>. QED
  BY <1>2, <1>3 DEF Longer

\* The counts after all lists had to grow.
LEMMA AllGrowIs == ASSUME SplitterAssumption, Types, Room, AllGrow
  PROVE /\ Longer(Roomy) /\ exCount' \in Nat /\ queueSize' \in Nat
        /\ exCount <= exCount' /\ Len(textInEx) + 1 <= exCount'
        /\ queueSize' \in {exCount', exCount' + AllocUnit} /\ queueSize <= queueSize'
        /\ \A i \in DOMAIN NotifyList : exCount' <= Len(Roomy[i].handles)
<1>1. /\ exCount \in Nat /\ queueSize \in Nat /\ AllocUnit \in Nat \ {0} /\ Len(textInEx) \in Nat
      /\ Len(textInEx) <= exCount /\ queueSize \in {exCount, exCount + AllocUnit}
  BY ListIs DEF SplitterAssumption, Types, ListTypes, Room
<1>2. CASE NoRoom(textInEx, exCount)
  <2>1. exCount' = exCount + AllocUnit /\ queueSize' = exCount + AllocUnit
    BY <1>2 DEF AllGrow, Grows
  <2>2. Roomy = [i \in DOMAIN NotifyList |-> Enlarged(NotifyList[i])]
    BY <1>2 DEF Roomy
  <2>3. \A i \in DOMAIN NotifyList : Len(Roomy[i].handles) = exCount + AllocUnit
    BY <2>2, EnlargedIs
  <2>4. Longer(Roomy)
    <3>1. Roomy = [i \in DOMAIN NotifyList |-> IF i \in DOMAIN NotifyList THEN Enlarged(NotifyList[i]) ELSE NotifyList[i]]
      BY <2>2
    <3>. QED
      BY <3>1, LongerIs
  <2>. QED
    BY <1>1, <2>1, <2>3, <2>4
<1>3. CASE ~NoRoom(textInEx, exCount)
  <2>1. exCount' = exCount /\ queueSize' = queueSize /\ Roomy = NotifyList
    BY <1>3 DEF AllGrow, Grows, Roomy
  <2>2. Len(textInEx) + 1 <= exCount
    BY <1>1, <1>3 DEF NoRoom
  <2>3. Longer(Roomy)
    BY <2>1, ItselfExtends, ListOfEntries DEF Longer
  <2>. QED
    BY <1>1, <2>1, <2>2, <2>3 DEF Room
<1>. QED
  BY <1>2, <1>3

LEMMA AddTextInIs == ASSUME SplitterAssumption, Types, Lists, Room, NEW d \in Devices, AddTextIn(d)
  PROVE /\ opened' \in SUBSET Devices /\ textIn' \in Seq(Devices) /\ textInCount' \in Nat
        /\ IsInjective(textIn') /\ ToSet(textIn') = ToSet(textIn) \cup {d} /\ ToSet(textIn') \subseteq opened'
        /\ Len(textIn') <= textInCount' /\ Idle
        /\ d \notin ToSet(textIn) /\ d \notin ToSet(textInEx)
<1>1. /\ opened \in SUBSET Devices /\ textIn \in Seq(Devices) /\ textInCount \in Nat /\ AllocUnit \in Nat \ {0}
      /\ Len(textIn) \in Nat /\ Len(textIn) <= textInCount
      /\ IsInjective(textIn) /\ ToSet(textIn) \subseteq opened /\ ToSet(textInEx) \subseteq ToSet(textIn) \cap ex
  BY ListIs DEF SplitterAssumption, Types, ListTypes, Lists, Room
<1>2. /\ d \notin opened /\ opened' = opened \cup {d} /\ Idle
      /\ textIn' = Append(textIn, d) /\ textInCount' = Grows(textIn, textInCount)
  BY DEF AddTextIn
<1>3. /\ textIn' \in Seq(Devices) /\ Len(textIn') = Len(textIn) + 1
      /\ ToSet(textIn') = ToSet(textIn) \cup {d}
      /\ IsInjective(textIn) /\ d \notin ToSet(textIn) => IsInjective(textIn')
  <2>1. PICK t : t = Append(textIn, d)
    OBVIOUS
  <2>2. /\ t \in Seq(Devices) /\ Len(t) = Len(textIn) + 1 /\ ToSet(t) = ToSet(textIn) \cup {d}
        /\ IsInjective(textIn) /\ d \notin ToSet(textIn) => IsInjective(t)
    BY ONLY <1>1, <2>1, AppendIs
  <2>. QED
    BY <1>2, <2>1, <2>2
<1>4. Len(textIn') <= textInCount' /\ textInCount' \in Nat
  BY <1>1, <1>2, <1>3 DEF Grows, NoRoom
<1>. QED
  BY <1>1, <1>2, <1>3, <1>4

LEMMA StartExRefusedIs == ASSUME SplitterAssumption, Types, NEW d \in Devices, StartExRefused(d)
  PROVE /\ TogglesStay
        /\ \E regs \in SUBSET Registrations :
             Attached(d, regs) /\ (dev[d].regs = {} /\ Entries => regs = {})
<1>1. PICK k \in 0..(Len(NotifyList) - 1) :
        dev' = [dev EXCEPT ![d] = [Checked(@) EXCEPT !.regs = Undone(RegisterFirst(d, k))]]
  BY DEF StartExRefused
<1>2. k \in 0..Len(NotifyList)
  BY ListOfEntries
<1>3. PICK m : m = RegisterFirst(d, k)
  OBVIOUS
<1>4. /\ m.regs \in SUBSET Registrations /\ m.handles \in Seq(Handles) /\ Len(m.handles) = k
  BY <1>2, <1>3, RegisterFirstMakes
<1>5. dev[d].regs = {} /\ Entries =>
        /\ m.regs = {NotifyList[i].reg : i \in 1..k}
        /\ \A i \in 1..k : m.handles[i] = [dev |-> d, reg |-> NotifyList[i].reg]
  BY <1>2, <1>3, RegisterFirstOnFresh
<1>6. PICK regs : regs = Undone(m)
  OBVIOUS
<1>7. regs = m.regs \ {h.reg : h \in ToSet(m.handles)}
  BY <1>6 DEF Undone
<1>8. dev[d].regs = {} /\ Entries => regs = {}
  <2>. SUFFICES ASSUME dev[d].regs = {}, Entries, NEW r \in m.regs
                PROVE r \in {h.reg : h \in ToSet(m.handles)}
    BY <1>7
  <2>1. PICK i \in 1..k : r = NotifyList[i].reg
    BY <1>5
  <2>2. m.handles[i] = [dev |-> d, reg |-> r] /\ i \in DOMAIN m.handles
    BY <1>4, <1>5, <2>1
  <2>3. m.handles[i] \in ToSet(m.handles) /\ m.handles[i].reg = r
    BY <2>2 DEF ToSet
  <2>. QED
    BY <2>3
<1>9. regs \in SUBSET Registrations
  BY <1>4, <1>7
<1>10. dev' = [dev EXCEPT ![d] = [Checked(@) EXCEPT !.regs = regs]]
  BY <1>1, <1>3, <1>6
<1>11. Attached(d, regs) /\ TogglesStay
  BY <1>9, <1>10, AttachIs
<1>. QED
  BY <1>8, <1>9, <1>11

\* The keyboard has every entry of NotifyList, and the toggle state or refused it.
LEMMA StartExIs == ASSUME SplitterAssumption, Types, NEW d \in Devices, StartEx(d)
  PROVE /\ Attached(d, RegisterFirst(d, Len(NotifyList)).regs)
        /\ \A x \in Devices :
             /\ dev'[x].pend = dev[x].pend
             /\ x # d => dev'[x].caps = dev[x].caps /\ dev'[x].exposed = dev[x].exposed
        /\ \/ refused' = refused \ {d} /\ dev'[d].caps = toggle /\ dev'[d].exposed
           \/ refused' = refused \cup {d}
<1>0. PICK made : made = RegisterFirst(d, Len(NotifyList))
  OBVIOUS
<1>1. PICK R \in {{}, {d}} :
        /\ Taken({d}, R)
        /\ dev' = Toggled([dev EXCEPT ![d] = [Checked(@) EXCEPT !.regs = made.regs]], Given(R, d), toggle)
  BY <1>0, Zenon DEF StartEx
<1>2. made.regs \in SUBSET Registrations
  BY <1>0, ListOfEntries, RegisterFirstMakes
<1>3. toggle \in BOOLEAN /\ dev \in [Devices -> DeviceState]
  BY DEF Types, ToggleTypes
<1>4. PICK s \in DeviceState : s = dev[d]
  BY <1>3
<1>5. PICK t \in DeviceState : t = Checked(s)
  BY CheckedIs
<1>6. /\ t.keys = DropPartial(s.keys) /\ t.n = s.n /\ t.regs = s.regs
      /\ t.caps = s.caps /\ t.exposed = s.exposed /\ t.pend = s.pend
  BY <1>5, CheckedIs
<1>7. PICK u : u = [t EXCEPT !.regs = made.regs]
  OBVIOUS
<1>8. /\ u \in DeviceState /\ u.keys = DropPartial(s.keys) /\ u.n = s.n /\ u.regs = made.regs
      /\ u.caps = s.caps /\ u.exposed = s.exposed /\ u.pend = s.pend
  BY <1>2, <1>6, <1>7, WithRegs
<1>9. PICK devs : devs = [dev EXCEPT ![d] = u]
  OBVIOUS
<1>10. devs \in [Devices -> DeviceState] /\ \A x \in Devices : devs[x] = IF x = d THEN u ELSE dev[x]
  BY <1>3, <1>8, <1>9
<1>11. dev' = Toggled(devs, Given(R, d), toggle)
  BY <1>1, <1>4, <1>5, <1>7, <1>9
<1>12. ToggledTo(devs, Given(R, d), toggle, dev')
  BY <1>3, <1>10, <1>11, ToggledIs
<1>13. \A x \in Devices :
         /\ dev'[x].keys = devs[x].keys /\ dev'[x].n = devs[x].n /\ dev'[x].regs = devs[x].regs
         /\ dev'[x].pend = devs[x].pend
         /\ x \in Given(R, d) => dev'[x].caps = toggle /\ dev'[x].exposed = TRUE
         /\ x \notin Given(R, d) => dev'[x].caps = devs[x].caps /\ dev'[x].exposed = devs[x].exposed
  BY <1>12 DEF ToggledTo
<1>14. dev' \in [Devices -> DeviceState]
  BY <1>12 DEF ToggledTo
<1>15. Attached(d, made.regs)
  <2>1. ASSUME NEW x \in Devices
        PROVE /\ dev'[x].n = dev[x].n
              /\ dev'[x].keys = IF x = d THEN DropPartial(dev[x].keys) ELSE dev[x].keys
              /\ dev'[x].regs = IF x = d THEN made.regs ELSE dev[x].regs
    BY <1>4, <1>8, <1>10, <1>13
  <2>. QED
    BY <1>14, <2>1, Zenon DEF Attached
<1>16. ASSUME NEW x \in Devices
       PROVE /\ dev'[x].pend = dev[x].pend
             /\ x # d => dev'[x].caps = dev[x].caps /\ dev'[x].exposed = dev[x].exposed
  <2>1. x # d => x \notin Given(R, d)
    BY DEF Given
  <2>. QED
    BY <1>4, <1>8, <1>10, <1>13, <2>1
<1>17. CASE R = {}
  <2>1. d \in Given(R, d) /\ refused' = refused \ {d}
    BY <1>1, <1>17 DEF Given, Taken
  <2>. QED
    BY <1>0, <1>13, <1>15, <1>16, <2>1
<1>18. CASE R = {d}
  <2>1. refused' = refused \cup {d}
    BY <1>1, <1>18 DEF Taken
  <2>. QED
    BY <1>0, <1>15, <1>16, <2>1
<1>. QED
  BY <1>17, <1>18

\* Stop: both lists without the keyboard.
LEMMA StopIs == ASSUME Types, Lists, NEW d \in Devices, Stop(d)
  PROVE /\ Idle /\ opened' = opened \ {d}
        /\ textIn' \in Seq(Devices) /\ IsInjective(textIn') /\ ToSet(textIn') = ToSet(textIn) \ {d} /\ Len(textIn') <= Len(textIn)
        /\ textInEx' \in Seq(Devices) /\ IsInjective(textInEx') /\ ToSet(textInEx') = ToSet(textInEx) \ {d} /\ Len(textInEx') <= Len(textInEx)
        /\ removed' = removed \cup {d} /\ (shifted => shifted')
        /\ shifted' \in BOOLEAN
        /\ ~shifted' => \A i \in 1..Len(textInEx') : textInEx'[i] = textInEx[i]
<1>1. textIn \in Seq(Devices) /\ textInEx \in Seq(Devices) /\ IsInjective(textIn) /\ IsInjective(textInEx)
  BY ListIs DEF Lists
<1>2. PICK t, u : t = Without(textIn, d) /\ u = Without(textInEx, d)
  OBVIOUS
<1>3. t \in Seq(Devices) /\ IsInjective(t) /\ ToSet(t) = ToSet(textIn) \ {d} /\ Len(t) <= Len(textIn)
  BY ONLY <1>1, <1>2, WithoutIs
<1>4. /\ u \in Seq(Devices) /\ IsInjective(u) /\ ToSet(u) = ToSet(textInEx) \ {d} /\ Len(u) <= Len(textInEx)
      /\ d \in ToSet(textInEx) /\ Last(textInEx) = d =>
           Len(u) = Len(textInEx) - 1 /\ \A i \in 1..Len(u) : u[i] = textInEx[i]
      /\ d \notin ToSet(textInEx) => u = textInEx
  BY ONLY <1>1, <1>2, WithoutIs
<1>5. /\ Idle /\ opened' = opened \ {d} /\ textIn' = t /\ textInEx' = u /\ removed' = removed \cup {d}
      /\ shifted' = (shifted \/ (d \in ToSet(textInEx) /\ Last(textInEx) # d))
  BY <1>2 DEF Stop, Call
<1>6. ~shifted' => \A i \in 1..Len(u) : u[i] = textInEx[i]
  BY <1>4, <1>5
<1>. QED
  BY <1>3, <1>4, <1>5, <1>6

-----------------------------------------------------------------------------
(* Types, lists and room.                                                   *)

LEMMA ListsSame == ASSUME Types, Lists, Room, UNCHANGED <<lists, NotifyList>>, Len(KeyQueue') <= queueSize
  PROVE ListTypes' /\ Lists' /\ Room'
BY DEF Types, ListTypes, Lists, Room, lists

LEMMA KeysSame == ASSUME Types, UNCHANGED keys PROVE KeyTypes'
BY DEF Types, KeyTypes, keys

LEMMA TogglesSame == ASSUME Types, UNCHANGED <<toggles, gone>>, calls' \in Nat PROVE ToggleTypes'
BY DEF Types, ToggleTypes, toggles, gone

\* Clients count their calls.
LEMMA Counted == ASSUME Types, Call PROVE calls' \in Nat /\ Idle
BY DEF Types, ToggleTypes, Call

\* What every way to read keeps.
LEMMA ReadIs == ASSUME SplitterAssumption, Types, Lists, Room, KeyNumbers, Read
  PROVE /\ Idle /\ dev' \in [Devices -> DeviceState] /\ RegsStay /\ TogglesStay /\ KeysGo
        /\ \/ FromQueue
           \/ Saves
           \/ FromKeyboard /\ (KeyQueue' = <<>> \/ (KeyQueue' = KeyQueue /\ last' = last))
BY ReadKeyStrokeIs, ReadKeyStrokeExIs, WaitForKeyIs DEF Read

LEMMA ReadFrame == ASSUME Read
  PROVE UNCHANGED <<lists, NotifyList, pressed, toggles, calls, gone>>
BY DEF Read, ReadKeyStroke, ReadKeyStrokeEx, WaitForKey

LEMMA SignalIs == ASSUME Types, Read PROVE KeyEventSignalState' \in BOOLEAN
BY DEF Read, ReadKeyStroke, ReadKeyStrokeEx, WaitForKey, Types, KeyTypes

LEMMA ReadLeaves == ASSUME SplitterAssumption, Types, Lists, Room, KeyNumbers, Read
  PROVE KeyQueue' \in Seq(Keys) /\ last' \in [Devices -> Nat] /\ Len(KeyQueue') <= queueSize
<1>1. /\ KeyQueue \in Seq(Keys) /\ last \in [Devices -> Nat] /\ Len(KeyQueue) <= queueSize
      /\ queueSize \in Nat /\ exCount \in Nat /\ exCount <= queueSize /\ Len(textInEx) <= exCount
      /\ Len(textInEx) \in Nat
  BY ListIs DEF Types, KeyTypes, ListTypes, Room, SplitterAssumption
<1>2. CASE FromQueue
  <2>1. PICK ks \in Seq(Keys) : /\ KeepsFull(ks, KeyQueue) /\ ks # <<>> /\ KeyQueue' = Tail(ks)
                                /\ last' = [last EXCEPT ![Head(ks).dev] = Head(ks).n]
    BY <1>2 DEF FromQueue
  <2>2. Tail(ks) \in Seq(Keys) /\ Len(Tail(ks)) = Len(ks) - 1 /\ Head(ks) \in Keys
    BY <2>1, TailIs
  <2>3. Len(ks) <= Len(KeyQueue)
    BY <1>1, <2>1 DEF KeepsFull, Suffix
  <2>4. Head(ks).n \in Nat
    BY <2>2, KeysAre
  <2>5. PICK h : h = Head(ks)
    OBVIOUS
  <2>6. last' = [last EXCEPT ![h.dev] = h.n] /\ h.n \in Nat
    BY <2>1, <2>4, <2>5
  <2>7. last' \in [Devices -> Nat]
    BY <1>1, <2>6
  <2>8. Len(KeyQueue') <= queueSize
    <3>1. Len(ks) \in Nat /\ Len(KeyQueue) \in Nat /\ Len(KeyQueue') = Len(ks) - 1
      BY <1>1, <2>1, <2>2
    <3>. QED
      BY <1>1, <2>3, <3>1
  <2>. QED
    BY <2>1, <2>2, <2>7, <2>8
<1>3. CASE Saves
  <2>1. PICK D \in SUBSET ToSet(textInEx) :
          /\ \A d \in D : dev[d].keys # <<>>
          /\ IF Saved(D) = <<>> THEN last' = last /\ KeyQueue' = KeyQueue
             ELSE last' = [last EXCEPT ![Saved(D)[1].dev] = Saved(D)[1].n] /\ KeyQueue' = Tail(Saved(D))
    BY <1>3 DEF Saves
  <2>2. PICK ks \in Seq(Keys) : ks = Saved(D) /\ Len(ks) <= Len(textInEx)
    BY <2>1, SavedKeys DEF SavedFrom
  <2>3. CASE ks = <<>>
    BY <1>1, <2>1, <2>2, <2>3
  <2>4. CASE ks # <<>>
    <3>1. Tail(ks) \in Seq(Keys) /\ Len(Tail(ks)) = Len(ks) - 1 /\ Head(ks) = ks[1] /\ Head(ks) \in Keys
      BY <2>4, TailIs
    <3>2. last' = [last EXCEPT ![ks[1].dev] = ks[1].n] /\ KeyQueue' = Tail(ks)
      BY <2>1, <2>2, <2>4
    <3>3. ks[1].n \in Nat
      BY <3>1, KeysAre
    <3>. QED
      <4>1. last' \in [Devices -> Nat]
        BY <1>1, <3>2, <3>3
      <4>2. Len(KeyQueue') <= queueSize
        <5>1. Len(ks) \in Nat /\ Len(KeyQueue') = Len(ks) - 1
          BY <3>1, <3>2
        <5>. QED
          BY <1>1, <2>2, <5>1
      <4>. QED
        BY <3>1, <3>2, <4>1, <4>2
  <2>. QED
    BY <2>3, <2>4
<1>4. CASE FromKeyboard /\ (KeyQueue' = <<>> \/ KeyQueue' = KeyQueue)
  <2>1. last' \in [Devices -> Nat]
    BY <1>4 DEF FromKeyboard
  <2>2. CASE KeyQueue' = <<>>
    <3>1. KeyQueue' \in Seq(Keys) /\ Len(KeyQueue') = 0
      BY <2>2
    <3>. QED
      BY <1>1, <2>1, <3>1
  <2>. QED
    BY <1>1, <1>4, <2>1, <2>2
<1>. QED
  BY <1>2, <1>3, <1>4, ReadIs

\* The new keyboard's handles are at the new end of TextInExList.
LEMMA EntriesGiven == ASSUME SplitterAssumption, Types, Room, NEW d \in Devices, StartEx(d)
  PROVE /\ NotifyList' \in Seq(Entry) /\ Len(NotifyList') = Len(NotifyList)
        /\ \A i \in 1..Len(NotifyList) :
             LET h == NotifyList'[i].handles
             IN /\ NotifyList'[i].reg = NotifyList[i].reg
                /\ DOMAIN h = DOMAIN Roomy[i].handles /\ exCount' <= Len(h)
                /\ \A j \in DOMAIN h : j # Len(textInEx) + 1 => h[j] = Roomy[i].handles[j]
                /\ h[Len(textInEx) + 1] = RegisterFirst(d, Len(NotifyList)).handles[i]
<1>. DEFINE made == RegisterFirst(d, Len(NotifyList))
            place == Len(textInEx) + 1
<1>1. AllGrow /\ NotifyList' = [i \in DOMAIN NotifyList |-> [Roomy[i] EXCEPT !.handles[place] = made.handles[i]]]
  BY Zenon DEF StartEx
<1>2. /\ Len(NotifyList) \in Nat /\ DOMAIN NotifyList = 1..Len(NotifyList) /\ Len(NotifyList) \in 0..Len(NotifyList)
      /\ place \in Nat \ {0}
  BY ListOfEntries, ListIs
<1>3. made.handles \in Seq(Handles) /\ Len(made.handles) = Len(NotifyList)
  BY <1>2, RegisterFirstMakes
<1>4. \A i \in 1..Len(NotifyList) : made.handles[i] \in Handles
  BY <1>2, <1>3
<1>. HIDE DEF made
<1>5. /\ Longer(Roomy) /\ place <= exCount' /\ exCount' \in Nat
      /\ \A i \in DOMAIN NotifyList : exCount' <= Len(Roomy[i].handles)
  BY <1>1, AllGrowIs
<1>. HIDE DEF place
<1>6. ASSUME NEW i \in 1..Len(NotifyList)
      PROVE /\ NotifyList'[i] \in Entry /\ NotifyList'[i].reg = NotifyList[i].reg
            /\ DOMAIN NotifyList'[i].handles = DOMAIN Roomy[i].handles /\ exCount' <= Len(NotifyList'[i].handles)
            /\ \A j \in DOMAIN NotifyList'[i].handles : j # place => NotifyList'[i].handles[j] = Roomy[i].handles[j]
            /\ NotifyList'[i].handles[place] = made.handles[i]
  <2>1. PICK e \in Entry : e = Roomy[i] /\ e.reg = NotifyList[i].reg
    BY <1>5 DEF Longer, Extends
  <2>2. e.handles \in Seq(Handles) /\ e.reg \in Registrations /\ exCount' <= Len(e.handles)
    BY <1>2, <1>5, <2>1 DEF Entry
  <2>3. PICK h \in Handles : h = made.handles[i]
    BY <1>4
  <2>4. PICK hs : hs = [e.handles EXCEPT ![place] = h]
    OBVIOUS
  <2>5. place \in 1..Len(e.handles) /\ Len(e.handles) \in Nat /\ DOMAIN e.handles = 1..Len(e.handles)
    BY <1>2, <1>5, <2>2
  <2>6. /\ hs \in Seq(Handles) /\ Len(hs) = Len(e.handles) /\ DOMAIN hs = DOMAIN e.handles
        /\ hs[place] = h /\ \A j \in DOMAIN hs : j # place => hs[j] = e.handles[j]
    BY <2>2, <2>4, <2>5
  <2>7. NotifyList'[i] = [e EXCEPT !.handles = hs]
    BY <1>1, <1>2, <2>1, <2>3, <2>4
  <2>8. NotifyList'[i] \in Entry /\ NotifyList'[i].reg = e.reg /\ NotifyList'[i].handles = hs
    BY <2>2, <2>6, <2>7 DEF Entry
  <2>. QED
    BY <2>1, <2>2, <2>3, <2>6, <2>8
<1>7. NotifyList' \in Seq(Entry) /\ Len(NotifyList') = Len(NotifyList)
  <2>1. PICK n, f : n \in Nat /\ n = Len(NotifyList) /\ f = NotifyList'
    BY <1>2
  <2>2. f = [i \in 1..n |-> f[i]]
    BY <1>1, <1>2, <2>1
  <2>3. \A i \in 1..n : f[i] \in Entry
    BY <1>6, <2>1
  <2>4. f \in Seq(Entry) /\ Len(f) = n
    <3>1. n \in Nat
      BY <2>1
    <3>. QED
      BY ONLY <2>2, <2>3, <3>1
  <2>. QED
    BY <2>1, <2>4
<1>. QED
  BY <1>6, <1>7 DEF made, place

LEMMA StartTypes == ASSUME SplitterAssumption, Types, Lists, Room, NEW d \in Devices, Start(d)
  PROVE Types' /\ Lists' /\ Room'
<1>1. CASE StartPlain(d)
  <2>1. AddTextIn(d) /\ UNCHANGED <<textInEx, exCount, queueSize, NotifyList, refused>> /\ UNCHANGED <<ex, keys, toggle, exported, call, torn, calls, gone>>
    BY <1>1 DEF StartPlain, AddTextIn
  <2>2. dev' \in [Devices -> DeviceState]
    BY <1>1, PlainIs DEF StartPlain, Attached
  <2>3. ListTypes' /\ Lists' /\ Room'
    BY <2>1, AddTextInIs DEF Types, ListTypes, Lists, Room, keys
  <2>4. KeyTypes' /\ ToggleTypes'
    BY <2>1, KeysSame, TogglesSame DEF toggles, Types, ToggleTypes
  <2>. QED
    BY <2>2, <2>3, <2>4 DEF Types
<1>2. CASE StartOutOfMemory(d)
  <2>1. /\ opened' = opened \cup {d} /\ Idle
        /\ UNCHANGED <<ex, textIn, textInCount, textInEx, exCount, queueSize, NotifyList, keys, toggles, dev, calls, gone>>
    BY <1>2 DEF StartOutOfMemory
  <2>2. ListTypes' /\ Lists' /\ Room'
    BY <2>1 DEF Types, ListTypes, Lists, Room, keys
  <2>3. KeyTypes' /\ ToggleTypes'
    BY <2>1, KeysSame, TogglesSame DEF Types, ToggleTypes
  <2>. QED
    BY <2>1, <2>2, <2>3 DEF Types
<1>3. CASE StartExOutOfMemory(d)
  <2>1. /\ AddTextIn(d) /\ UNCHANGED <<textInEx, exCount, refused>>
        /\ UNCHANGED <<ex, keys, toggle, exported, call, torn, calls, gone>>
        /\ dev' = [dev EXCEPT ![d] = Checked(@)]
    BY <1>3 DEF StartExOutOfMemory, AddTextIn
  <2>2. dev' \in [Devices -> DeviceState]
    BY <2>1, PlainIs DEF Attached
  <2>3. PICK k \in 0..(Len(NotifyList) + 1) :
          /\ NotifyList' = [i \in DOMAIN NotifyList |-> IF i <= k THEN Enlarged(NotifyList[i]) ELSE NotifyList[i]]
          /\ queueSize' = IF k > Len(NotifyList) THEN exCount + AllocUnit ELSE queueSize
    BY <1>3 DEF StartExOutOfMemory
  <2>4. NotifyList' = [i \in DOMAIN NotifyList |-> IF i \in 0..k THEN Enlarged(NotifyList[i]) ELSE NotifyList[i]]
    <3>1. \A i \in DOMAIN NotifyList : i <= k <=> i \in 0..k
      BY ListOfEntries
    <3>. QED
      BY <2>3, <3>1
  <2>5. Longer(NotifyList')
    BY <2>4, LongerIs
  <2>6. queueSize' \in Nat /\ queueSize' \in {exCount, exCount + AllocUnit} /\ queueSize <= queueSize'
    BY <2>3 DEF SplitterAssumption, Types, ListTypes, Room
  <2>7. \A i \in DOMAIN NotifyList' : exCount <= Len(NotifyList'[i].handles)
    BY <2>5, ListOfEntries DEF Longer, Extends
  <2>8. ListTypes' /\ Lists'
    BY <2>1, <2>5, <2>6, AddTextInIs DEF Types, ListTypes, Lists, Longer
  <2>9. Room'
    <3>1. Len(KeyQueue) \in Nat
      BY DEF Types, KeyTypes
    <3>2. Len(KeyQueue') <= queueSize'
      BY <2>1, <2>6, <3>1 DEF Room, Types, ListTypes, keys
    <3>. QED
      BY <2>1, <2>6, <2>7, <3>2, AddTextInIs DEF Room
  <2>10. KeyTypes' /\ ToggleTypes'
    BY <2>1, KeysSame, TogglesSame DEF toggles, Types, ToggleTypes
  <2>. QED
    BY <2>2, <2>8, <2>9, <2>10 DEF Types
<1>4. CASE StartExRefused(d)
  <2>1. /\ AddTextIn(d) /\ UNCHANGED <<textInEx, refused>> /\ AllGrow /\ NotifyList' = Roomy
        /\ UNCHANGED <<ex, keys, toggle, exported, call, torn, calls, gone>>
    BY <1>4 DEF StartExRefused, AddTextIn
  <2>2. dev' \in [Devices -> DeviceState]
    BY <1>4, StartExRefusedIs DEF Attached
  <2>3. Len(KeyQueue) \in Nat /\ Len(textInEx) \in Nat
    BY ListIs DEF Types, KeyTypes
  <2>4. Longer(NotifyList') /\ \A i \in DOMAIN NotifyList' : exCount' <= Len(NotifyList'[i].handles)
    BY <2>1, AllGrowIs, ListOfEntries DEF Longer
  <2>5. ListTypes' /\ Lists'
    BY <2>1, <2>4, AllGrowIs, AddTextInIs DEF Types, ListTypes, Lists, Longer
  <2>6. Room'
    <3>1. Len(KeyQueue') <= queueSize'
      BY <2>1, <2>3, AllGrowIs DEF Room, Types, ListTypes, keys
    <3>2. Len(textInEx') <= exCount'
      BY <2>1, <2>3, AllGrowIs
    <3>. QED
      BY <2>1, <2>4, <3>1, <3>2, AllGrowIs, AddTextInIs DEF Room
  <2>7. KeyTypes' /\ ToggleTypes'
    BY <2>1, KeysSame, TogglesSame DEF toggles, Types, ToggleTypes
  <2>. QED
    BY <2>2, <2>5, <2>6, <2>7 DEF Types
<1>5. CASE StartEx(d)
  <2>1. /\ d \in ex /\ AddTextIn(d) /\ AllGrow /\ textInEx' = Append(textInEx, d)
        /\ UNCHANGED <<ex, keys, toggle, exported, call, torn, calls, gone>>
    BY <1>5 DEF StartEx, AddTextIn
  <2>2. dev' \in [Devices -> DeviceState] /\ (refused' = refused \ {d} \/ refused' = refused \cup {d})
    BY <1>5, StartExIs DEF Attached
  <2>3. Len(KeyQueue) \in Nat /\ Len(textInEx) \in Nat /\ textInEx \in Seq(Devices) /\ IsInjective(textInEx)
    BY ListIs DEF Types, KeyTypes, Lists
  <2>4. PICK t : t = Append(textInEx, d)
    OBVIOUS
  <2>5. /\ t \in Seq(Devices) /\ Len(t) = Len(textInEx) + 1 /\ ToSet(t) = ToSet(textInEx) \cup {d}
        /\ IsInjective(textInEx) /\ d \notin ToSet(textInEx) => IsInjective(t)
    BY ONLY <2>3, <2>4, AppendIs
  <2>6. d \notin ToSet(textInEx)
    BY <2>1, AddTextInIs
  <2>7. /\ NotifyList' \in Seq(Entry) /\ Len(NotifyList') = Len(NotifyList)
        /\ \A i \in 1..Len(NotifyList) : exCount' <= Len(NotifyList'[i].handles)
    BY <1>5, EntriesGiven
  <2>8. \A i \in DOMAIN NotifyList' : exCount' <= Len(NotifyList'[i].handles)
    BY <2>7
  <2>9. ListTypes' /\ Lists'
    <3>1. ListTypes'
      BY <2>1, <2>4, <2>5, <2>7, AllGrowIs, AddTextInIs DEF Types, ListTypes
    <3>2. ToSet(textInEx') \subseteq ToSet(textIn') \cap ex'
      BY <2>1, <2>4, <2>5, AddTextInIs DEF Lists
    <3>. QED
      BY <2>1, <2>3, <2>4, <2>5, <2>6, <3>1, <3>2, AddTextInIs DEF Lists
  <2>10. Room'
    <3>1. Len(KeyQueue') <= queueSize'
      BY <2>1, <2>3, AllGrowIs DEF Room, Types, ListTypes, keys
    <3>2. Len(textInEx') <= exCount'
      BY <2>1, <2>3, <2>4, <2>5, AllGrowIs
    <3>. QED
      BY <2>1, <2>8, <3>1, <3>2, AllGrowIs, AddTextInIs DEF Room
  <2>11. KeyTypes' /\ ToggleTypes'
    <3>1. refused' \in SUBSET Devices
      BY <2>2 DEF Types, ToggleTypes
    <3>. QED
      BY <2>1, <3>1, KeysSame DEF Types, ToggleTypes, gone
  <2>. QED
    BY <2>2, <2>9, <2>10, <2>11 DEF Types
<1>. QED
  BY <1>1, <1>2, <1>3, <1>4, <1>5 DEF Start

LEMMA StopTypes == ASSUME Types, Lists, Room, NEW d \in Devices, Stop(d)
  PROVE Types' /\ Lists' /\ Room'
<1>1. UNCHANGED <<ex, textInCount, exCount, queueSize, NotifyList, keys, toggles, dev>> /\ Call
  BY DEF Stop
<1>2. ListTypes'
  BY <1>1, StopIs DEF Types, ListTypes
<1>3. Lists'
  BY <1>1, StopIs DEF Lists
<1>4. Room'
  <2>1. Len(textIn') \in Nat /\ Len(textInEx') \in Nat /\ Len(textIn') <= textInCount' /\ Len(textInEx') <= exCount'
    BY <1>1, StopIs, ListIs DEF Room, Types, ListTypes
  <2>. QED
    BY <1>1, <2>1 DEF Room, keys
<1>5. KeyTypes' /\ ToggleTypes'
  <2>1. removed' \in SUBSET Devices /\ shifted' \in BOOLEAN /\ calls' \in Nat
    BY <1>1, StopIs, Counted DEF Types, ToggleTypes
  <2>. QED
    BY <1>1, <2>1, KeysSame DEF Types, ToggleTypes, toggles
<1>. QED
  BY <1>1, <1>2, <1>3, <1>4, <1>5 DEF Types

\* What the calls and notifications that leave the lists as they are change.
LEMMA OtherFrames == ASSUME NEW d, NEW r, NEW D, NEW c, NEW e
  PROVE /\ Press(d) => UNCHANGED <<lists, NotifyList, KeyQueue, KeyEventSignalState, last, toggles, calls, gone>>
        /\ ToggleStateSyncKeyNotify(d) => UNCHANGED <<lists, NotifyList, keys, exported, call, calls, gone>>
        /\ RegisterKeyNotify(r) => Call /\ UNCHANGED <<lists, keys, toggles, gone>>
        /\ UnregisterKeyNotify(r) => Call /\ UNCHANGED <<lists, keys, toggles, gone>>
        /\ SetState(c, e) => Call /\ UNCHANGED <<lists, NotifyList, keys, toggle, exported, refused, dev, gone>>
        /\ SetStateStep => UNCHANGED <<lists, NotifyList, keys, toggle, exported, calls, gone>>
        /\ SetStateDone => UNCHANGED <<lists, NotifyList, keys, refused, torn, dev, calls, gone>>
        /\ Reset(D) => Call /\ UNCHANGED <<lists, NotifyList, pressed, last, call, gone>> /\ KeyEventSignalState' = FALSE
BY Zenon DEF Press, ToggleStateSyncKeyNotify, RegisterKeyNotify, UnregisterKeyNotify, SetState,
             SetStateStep, SetStateDone, Reset

LEMMA NotificationTypes == ASSUME Types, Lists, Room, NEW d \in Devices, ToggleStateSyncKeyNotify(d)
  PROVE Types' /\ Lists' /\ Room'
<1>1. UNCHANGED <<lists, NotifyList, keys, exported, call, calls, gone>>
  BY OtherFrames
<1>2. Len(KeyQueue') <= queueSize
  BY <1>1 DEF Room, keys
<1>3. dev' \in [Devices -> DeviceState] /\ dev[d].pend # <<>>
  BY NotificationIs
<1>4. dev[d].pend \in Seq(BOOLEAN) /\ Head(dev[d].pend) \in BOOLEAN
  <2>1. PICK p \in Seq(BOOLEAN) : p = dev[d].pend
    BY FieldsAre DEF Types
  <2>. QED
    BY <1>3, <2>1
<1>5. toggle' \in BOOLEAN /\ torn' \in BOOLEAN /\ refused' \in SUBSET Devices
  <2>1. toggle \in BOOLEAN /\ refused \in SUBSET Devices /\ torn \in BOOLEAN /\ call.active \in BOOLEAN
    BY DEF Types, ToggleTypes, Calls
  <2>2. ASSUME NEW R, SetOn(R, toggle') PROVE refused' \in SUBSET Devices
    BY <2>1, <2>2, ListIs DEF SetOn
  <2>. QED
    BY <1>4, <2>1, <2>2, NotificationIs
<1>6. KeyTypes' /\ ToggleTypes'
  BY <1>1, <1>5, KeysSame DEF Types, ToggleTypes, gone
<1>. QED
  BY <1>1, <1>2, <1>3, <1>6, ListsSame DEF Types

LEMMA RegistrationTypes ==
  ASSUME SplitterAssumption, Types, Lists, Room, NEW r \in Requests, RegisterKeyNotify(r) \/ UnregisterKeyNotify(r)
  PROVE Types' /\ Lists' /\ Room'
<1>1. Call /\ UNCHANGED <<lists, keys, toggles, gone>>
  BY OtherFrames
<1>2. dev' \in [Devices -> DeviceState] /\ (RegistrationMade(r) \/ RegistrationUndone(r) \/ RegistrationRemoved(r))
  BY RegisterKeyNotifyIs, UnregisterKeyNotifyIs
<1>3. /\ NotifyList \in Seq(Entry) /\ exCount \in Nat /\ r \in Registrations
      /\ \A i \in DOMAIN NotifyList : exCount <= Len(NotifyList[i].handles)
  BY RegistrationsAre DEF Types, ListTypes, Room
<1>4. NotifyList' \in Seq(Entry) /\ \A i \in DOMAIN NotifyList' : exCount <= Len(NotifyList'[i].handles)
  <2>1. CASE RegistrationMade(r)
    <3>1. PICK handles \in Seq(Handles) :
            Len(handles) = exCount /\ NotifyList' = Append(NotifyList, [reg |-> r, handles |-> handles])
      BY <2>1 DEF RegistrationMade
    <3>2. PICK e \in Entry : e = [reg |-> r, handles |-> handles] /\ Len(e.handles) = exCount
      BY <1>3, <3>1 DEF Entry
    <3>3. PICK new : new = Append(NotifyList, e)
      OBVIOUS
    <3>4. new \in Seq(Entry) /\ DOMAIN new = 1..(Len(NotifyList) + 1) /\ new[Len(NotifyList) + 1] = e
          /\ \A i \in 1..Len(NotifyList) : new[i] = NotifyList[i]
      BY <1>3, <3>3
    <3>5. ASSUME NEW i \in DOMAIN new PROVE exCount <= Len(new[i].handles)
      <4>1. CASE i = Len(NotifyList) + 1
        BY <3>2, <3>4, <4>1
      <4>2. CASE i # Len(NotifyList) + 1
        <5>1. i \in 1..Len(NotifyList) /\ new[i] = NotifyList[i]
          BY <1>3, <3>4, <4>2
        <5>. QED
          BY <1>3, <5>1
      <4>. QED
        BY <4>1, <4>2
    <3>. QED
      BY <3>1, <3>2, <3>3, <3>4, <3>5
  <2>2. CASE RegistrationUndone(r)
    BY <1>3, <2>2 DEF RegistrationUndone
  <2>3. CASE RegistrationRemoved(r)
    <3>1. PICK k \in 1..Len(NotifyList) : NotifyList' = RemoveAt(NotifyList, k)
      BY <2>3 DEF RegistrationRemoved
    <3>2. PICK new : new = RemoveAt(NotifyList, k)
      OBVIOUS
    <3>3. /\ new \in Seq(Entry) /\ Len(new) = Len(NotifyList) - 1
          /\ \A i \in 1..(Len(NotifyList) - 1) : new[i] = IF i < k THEN NotifyList[i] ELSE NotifyList[i + 1]
      BY ONLY <1>3, <3>2, RemoveAtIs
    <3>4. \A i \in DOMAIN new : exCount <= Len(new[i].handles)
      <4>1. ASSUME NEW i \in DOMAIN new PROVE \E j \in DOMAIN NotifyList : new[i] = NotifyList[j]
        <5>1. NotifyList \in Seq(Entry) /\ i \in 1..(Len(NotifyList) - 1)
          BY ONLY <1>3, <3>3, <4>1
        <5>2. i \in DOMAIN NotifyList /\ i + 1 \in DOMAIN NotifyList
          BY ONLY <5>1
        <5>3. new[i] = IF i < k THEN NotifyList[i] ELSE NotifyList[i + 1]
          BY ONLY <3>3, <5>1
        <5>. QED
          BY ONLY <5>2, <5>3
      <4>. QED
        BY <1>3, <4>1
    <3>. QED
      BY <3>1, <3>2, <3>3, <3>4
  <2>. QED
    BY <1>2, <2>1, <2>2, <2>3
<1>5. ListTypes' /\ Lists'
  BY <1>1, <1>4 DEF Types, ListTypes, Lists, lists
<1>6. Room'
  BY <1>1, <1>4 DEF Room, lists, keys
<1>7. KeyTypes' /\ ToggleTypes'
  BY <1>1, KeysSame, TogglesSame, Counted
<1>. QED
  BY <1>2, <1>5, <1>6, <1>7 DEF Types

LEMMA SetStateTypes == ASSUME Types, Lists, Room,
    (\E c, e \in BOOLEAN : SetState(c, e)) \/ SetStateStep \/ SetStateDone
  PROVE Types' /\ Lists' /\ Room'
<1>1. UNCHANGED <<lists, NotifyList, keys, gone>> /\ Len(KeyQueue') <= queueSize
  BY OtherFrames DEF Room, keys
<1>2. dev \in [Devices -> DeviceState] /\ call \in Calls /\ call.next \in Nat \ {0} /\ refused \in SUBSET Devices
      /\ toggle \in BOOLEAN /\ exported \in BOOLEAN /\ torn \in BOOLEAN /\ calls \in Nat
      /\ call.caps \in BOOLEAN /\ call.exposed \in BOOLEAN
  BY DEF Types, ToggleTypes, Calls
<1>3. NoCall \in Calls
  BY DEF NoCall, Calls
<1>4. ListTypes' /\ Lists' /\ Room' /\ KeyTypes'
  BY <1>1, ListsSame, KeysSame
<1>5. ASSUME NEW c \in BOOLEAN, NEW e \in BOOLEAN, SetState(c, e)
      PROVE dev' \in [Devices -> DeviceState] /\ ToggleTypes'
  <2>1. call' \in Calls /\ torn' = FALSE /\ UNCHANGED <<toggle, exported, refused, dev, gone>> /\ calls' \in Nat
    BY <1>5, Counted DEF SetState, Calls
  <2>. QED
    BY <1>2, <2>1 DEF Types, ToggleTypes, gone
<1>6. CASE SetStateStep
  <2>1. dev' \in [Devices -> DeviceState] /\ UNCHANGED <<toggle, exported, calls, gone>>
    BY <1>6, SetStateStepIs, OtherFrames
  <2>2. /\ call' = [call EXCEPT !.next = @ + 1] \/ call' = NoCall
        /\ torn' = torn \/ torn' = TRUE
        /\ refused' \in SUBSET Devices
    <3>1. refused \ {textInEx[call.next]} \in SUBSET Devices
      BY <1>2
    <3>. QED
      BY <1>6, <3>1, SetStateStepIs
  <2>3. call' \in Calls
    <3>1. [call EXCEPT !.next = @ + 1] \in Calls
      BY <1>2 DEF Calls
    <3>. QED
      BY <1>3, <2>2, <3>1
  <2>. QED
    BY <1>2, <1>4, <2>1, <2>2, <2>3 DEF Types, ToggleTypes, gone
<1>7. CASE SetStateDone
  <2>1. toggle' = call.caps /\ exported' = call.exposed /\ call' = NoCall /\ UNCHANGED <<refused, torn, dev, calls, gone>>
    BY <1>7 DEF SetStateDone
  <2>. QED
    BY <1>2, <1>3, <1>4, <2>1 DEF Types, ToggleTypes, gone
<1>. QED
  BY <1>4, <1>5, <1>6, <1>7 DEF Types

LEMMA ResetTypes == ASSUME Types, Lists, Room, NEW D \in SUBSET Devices, Reset(D)
  PROVE Types' /\ Lists' /\ Room'
<1>1. Call /\ UNCHANGED <<lists, NotifyList, pressed, last, call, gone>> /\ KeyEventSignalState' = FALSE
  BY OtherFrames
<1>2. KeyQueue \in Seq(Keys) /\ Len(KeyQueue) <= queueSize /\ queueSize \in Nat
  BY DEF Types, KeyTypes, ListTypes, Room
<1>3. KeyQueue' \in Seq(Keys) /\ Len(KeyQueue') <= queueSize
  <2>1. CASE KeyQueue' = <<>>
    <3>1. KeyQueue' \in Seq(Keys) /\ Len(KeyQueue') = 0
      BY <2>1
    <3>. QED
      BY <1>2, <3>1
  <2>. QED
    BY <1>2, <2>1, ResetIs
<1>4. KeyTypes'
  BY <1>1, <1>3 DEF Types, KeyTypes
<1>5. ToggleTypes'
  <2>1. calls' \in Nat
    BY <1>1, Counted
  <2>2. toggle' \in BOOLEAN /\ exported' \in BOOLEAN /\ torn' \in BOOLEAN /\ refused' \in SUBSET Devices
    <3>1. \A R \in SUBSET ToSet(textInEx) : R \in SUBSET Devices
      BY ListIs
    <3>. QED
      BY <3>1, ResetIs DEF Types, ToggleTypes
  <2>. QED
    BY <1>1, <2>1, <2>2 DEF Types, ToggleTypes, gone
<1>. QED
  BY <1>1, <1>3, <1>4, <1>5, ListsSame, ResetIs DEF Types

LEMMA ReadTypes == ASSUME SplitterAssumption, Types, Lists, Room, KeyNumbers, Read
  PROVE Types' /\ Lists' /\ Room'
<1>1. UNCHANGED <<lists, NotifyList, pressed, toggles, calls, gone>>
  BY ReadFrame
<1>2. KeyQueue' \in Seq(Keys) /\ last' \in [Devices -> Nat] /\ Len(KeyQueue') <= queueSize
  BY ReadLeaves
<1>3. KeyTypes'
  BY <1>1, <1>2, SignalIs DEF Types, KeyTypes
<1>4. ToggleTypes'
  BY <1>1, TogglesSame DEF Types, ToggleTypes
<1>. QED
  BY <1>1, <1>2, <1>3, <1>4, ListsSame, ReadIs DEF Types

LEMMA PressTypes == ASSUME SplitterAssumption, Types, Lists, Room, KeyNumbers, NEW d \in Devices, Press(d)
  PROVE Types' /\ Lists' /\ Room'
<1>1. UNCHANGED <<lists, NotifyList, KeyQueue, KeyEventSignalState, last, toggles, calls, gone>>
  BY OtherFrames
<1>2. dev' \in [Devices -> DeviceState] /\ pressed' \in 0..MaxPresses
  BY PressIs
<1>3. KeyTypes' /\ ToggleTypes'
  BY <1>1, <1>2, TogglesSame DEF Types, KeyTypes, ToggleTypes
<1>. QED
  BY <1>1, <1>2, <1>3, ListsSame DEF Types, Room

LEMMA TypesStep == ASSUME SplitterAssumption, Types, Lists, Room, KeyNumbers, Next
  PROVE Types' /\ Lists' /\ Room'
<1>1. ToSet(textIn) \in SUBSET Devices /\ ToSet(textInEx) \in SUBSET Devices
  BY ListIs
<1>2. ASSUME NEW d \in Devices, Start(d) \/ Stop(d) \/ Press(d) \/ ToggleStateSyncKeyNotify(d)
      PROVE Types' /\ Lists' /\ Room'
  BY <1>2, StartTypes, StopTypes, PressTypes, NotificationTypes
<1>3. ASSUME NEW r \in Requests, RegisterKeyNotify(r) \/ UnregisterKeyNotify(r)
      PROVE Types' /\ Lists' /\ Room'
  BY <1>3, RegistrationTypes
<1>. QED
  BY <1>1, <1>2, <1>3, SetStateTypes, ResetTypes, ReadTypes DEF Next

-----------------------------------------------------------------------------
(* The order of the keys.                                                   *)

LEMMA KeySeq == ASSUME NEW ks \in Seq(Keys)
  PROVE /\ Len(ks) \in Nat /\ DOMAIN ks = 1..Len(ks)
        /\ \A i \in 1..Len(ks) : ks[i] \in Keys /\ ks[i].n \in Nat /\ ks[i].dev \in Devices
<1>1. Len(ks) \in Nat /\ DOMAIN ks = 1..Len(ks) /\ \A i \in 1..Len(ks) : ks[i] \in Keys
  OBVIOUS
<1>. QED
  BY <1>1, KeysAre

LEMMA NumbersTyped == ASSUME Types
  PROVE /\ pressed \in Nat /\ KeyQueue \in Seq(Keys)
        /\ \A d \in Devices : dev[d].keys \in Seq(Keys) /\ dev[d].n \in Nat /\ last[d] \in Nat
BY FieldsAre, KeysTyped DEF Types, KeyTypes

\* Keys that are gone from a keyboard or the queue leave the others in order.
LEMMA KeyOrderGoes == ASSUME Types, Types', KeyOrder, KeysGo, Suffix(KeyQueue', KeyQueue), pressed' = pressed,
    \A d \in Devices : last'[d] <= dev[d].n /\ \A i \in DOMAIN dev'[d].keys : dev'[d].keys[i].n > last'[d],
    \A i \in DOMAIN KeyQueue' : KeyQueue'[i].n > last'[KeyQueue'[i].dev]
  PROVE KeyOrder'
<1>1. PICK k \in Nat : Len(KeyQueue') = Len(KeyQueue) - k /\ \A i \in 1..Len(KeyQueue') : KeyQueue'[i] = KeyQueue[i + k]
  BY DEF Suffix
<1>2. /\ Len(KeyQueue) \in Nat /\ DOMAIN KeyQueue = 1..Len(KeyQueue)
      /\ \A i \in 1..Len(KeyQueue) : KeyQueue[i].n \in Nat /\ KeyQueue[i].dev \in Devices
  BY NumbersTyped, KeySeq
<1>3. /\ Len(KeyQueue') \in Nat /\ DOMAIN KeyQueue' = 1..Len(KeyQueue')
      /\ \A i \in 1..Len(KeyQueue') : KeyQueue'[i].n \in Nat /\ KeyQueue'[i].dev \in Devices
  <2>1. KeyQueue' \in Seq(Keys)
    BY DEF Types, KeyTypes
  <2>. QED
    BY <2>1, KeySeq
<1>4. \A i \in DOMAIN KeyQueue' : i + k \in DOMAIN KeyQueue /\ KeyQueue'[i] = KeyQueue[i + k]
  BY <1>1, <1>2, <1>3
<1>5. ASSUME NEW d \in Devices
      PROVE /\ dev'[d].n = dev[d].n /\ dev[d].n <= pressed' /\ last'[d] <= dev'[d].n
            /\ \A i \in DOMAIN dev'[d].keys : dev'[d].keys[i].dev = d /\ dev'[d].keys[i].n <= dev'[d].n
            /\ \A i \in DOMAIN dev'[d].keys : /\ dev'[d].keys[i].n > last'[d]
                                              /\ \A j \in 1..(i - 1) : dev'[d].keys[j].n < dev'[d].keys[i].n
            /\ \A i \in DOMAIN KeyQueue' : KeyQueue'[i].dev = d =>
                 /\ KeyQueue'[i].n > last'[d]
                 /\ \A j \in 1..(i - 1) : KeyQueue'[j].dev = d => KeyQueue'[j].n < KeyQueue'[i].n
                 /\ \A j \in DOMAIN dev'[d].keys : KeyQueue'[i].n < dev'[d].keys[j].n
  <2>1. PICK own, left : own = dev[d].keys /\ left = dev'[d].keys
    OBVIOUS
  <2>2. own \in Seq(Keys) /\ left \in Seq(Keys) /\ Suffix(left, own) /\ dev'[d].n = dev[d].n
    <3>1. left \in Seq(Keys)
      BY <2>1, FieldsAre DEF Types
    <3>. QED
      BY <2>1, <3>1, NumbersTyped DEF KeysGo
  <2>3. Len(own) \in Nat /\ DOMAIN own = 1..Len(own) /\ Len(left) \in Nat /\ DOMAIN left = 1..Len(left)
    BY <2>2, KeySeq
  <2>4. PICK m \in Nat : Len(left) = Len(own) - m /\ \A i \in 1..Len(left) : left[i] = own[i + m]
    BY <2>2 DEF Suffix
  <2>5. \A i \in DOMAIN left : i + m \in DOMAIN own /\ left[i] = own[i + m]
    BY <2>3, <2>4
  <2>6. /\ \A i \in DOMAIN own : own[i].n > last[d] /\ \A j \in 1..(i - 1) : own[j].n < own[i].n
        /\ \A i \in DOMAIN KeyQueue : KeyQueue[i].dev = d =>
             /\ \A j \in 1..(i - 1) : KeyQueue[j].dev = d => KeyQueue[j].n < KeyQueue[i].n
             /\ \A j \in DOMAIN own : KeyQueue[i].n < own[j].n
        /\ dev[d].n <= pressed
        /\ \A i \in DOMAIN own : own[i].dev = d /\ own[i].n <= dev[d].n
    BY <2>1 DEF KeyOrder, KeysInOrder, KeyNumbers
  <2>7. \A i \in DOMAIN left : \A j \in 1..(i - 1) : left[j].n < left[i].n
    <3>1. ASSUME NEW i \in DOMAIN left, NEW j \in 1..(i - 1) PROVE left[j].n < left[i].n
      <4>1. j \in DOMAIN left /\ j + m \in 1..((i + m) - 1)
        BY <2>3, <2>4
      <4>. QED
        BY <2>5, <2>6, <4>1
    <3>. QED
      BY <3>1
  <2>8. \A i \in DOMAIN KeyQueue' : KeyQueue'[i].dev = d =>
          /\ \A j \in 1..(i - 1) : KeyQueue'[j].dev = d => KeyQueue'[j].n < KeyQueue'[i].n
          /\ \A j \in DOMAIN left : KeyQueue'[i].n < left[j].n
    <3>1. ASSUME NEW i \in DOMAIN KeyQueue', KeyQueue'[i].dev = d, NEW j \in 1..(i - 1), KeyQueue'[j].dev = d
          PROVE KeyQueue'[j].n < KeyQueue'[i].n
      <4>1. j \in DOMAIN KeyQueue' /\ j + k \in 1..((i + k) - 1)
        BY <1>3
      <4>. QED
        BY <1>4, <2>6, <3>1, <4>1
    <3>2. ASSUME NEW i \in DOMAIN KeyQueue', KeyQueue'[i].dev = d, NEW j \in DOMAIN left
          PROVE KeyQueue'[i].n < left[j].n
      BY <1>4, <2>5, <2>6, <3>2
    <3>. QED
      BY <3>1, <3>2
  <2>9. \A i \in DOMAIN left : left[i].dev = d /\ left[i].n <= dev[d].n
    BY <2>5, <2>6
  <2>. QED
    BY <2>1, <2>2, <2>6, <2>7, <2>8, <2>9
<1>6. \A i \in DOMAIN KeyQueue' : KeyQueue'[i].n <= dev'[KeyQueue'[i].dev].n
  <2>1. \A i \in DOMAIN KeyQueue : KeyQueue[i].n <= dev[KeyQueue[i].dev].n /\ KeyQueue[i].dev \in Devices
    BY <1>2 DEF KeyOrder, KeyNumbers
  <2>. QED
    BY <1>4, <1>5, <2>1
<1>7. KeyNumbers'
  BY <1>5, <1>6 DEF KeyNumbers
<1>8. KeysInOrder'
  BY <1>5 DEF KeysInOrder
<1>. QED
  BY <1>7, <1>8 DEF KeyOrder

LEMMA KeyOrderLeft == ASSUME Types, Types', KeyOrder, KeysGo, Suffix(KeyQueue', KeyQueue), pressed' = pressed, last' = last
  PROVE KeyOrder'
<1>1. ASSUME NEW d \in Devices
      PROVE last[d] <= dev[d].n /\ \A i \in DOMAIN dev'[d].keys : dev'[d].keys[i].n > last[d]
  <2>1. PICK own, left : own = dev[d].keys /\ left = dev'[d].keys
    OBVIOUS
  <2>2. own \in Seq(Keys) /\ left \in Seq(Keys) /\ Suffix(left, own)
    <3>1. left \in Seq(Keys)
      BY <2>1, FieldsAre DEF Types
    <3>. QED
      BY <2>1, <3>1, NumbersTyped DEF KeysGo
  <2>3. ToSet(left) \subseteq ToSet(own)
    BY <2>2, SuffixSet
  <2>4. \A k \in ToSet(own) : k.n > last[d]
    BY <2>1 DEF ToSet, KeyOrder, KeysInOrder
  <2>5. \A i \in DOMAIN left : left[i] \in ToSet(left)
    BY DEF ToSet
  <2>. QED
    BY <2>1, <2>3, <2>4, <2>5 DEF KeyOrder, KeyNumbers
<1>2. \A i \in DOMAIN KeyQueue' : KeyQueue'[i].n > last[KeyQueue'[i].dev]
  <2>1. KeyQueue \in Seq(Keys) /\ KeyQueue' \in Seq(Keys)
    BY NumbersTyped DEF Types, KeyTypes
  <2>2. ToSet(KeyQueue') \subseteq ToSet(KeyQueue)
    BY <2>1, SuffixSet
  <2>3. \A k \in ToSet(KeyQueue) : k.n > last[k.dev]
    BY <2>1, KeySeq DEF ToSet, KeyOrder, KeysInOrder
  <2>4. \A i \in DOMAIN KeyQueue' : KeyQueue'[i] \in ToSet(KeyQueue')
    BY DEF ToSet
  <2>. QED
    BY <2>2, <2>3, <2>4
<1>. QED
  BY <1>1, <1>2, KeyOrderGoes

LEMMA OrderFromQueue == ASSUME Types, Types', KeyOrder, FromQueue, pressed' = pressed PROVE KeyOrder'
<1>1. PICK ks \in Seq(Keys) : /\ Suffix(ks, KeyQueue) /\ ks # <<>> /\ KeyQueue' = Tail(ks)
                              /\ last' = [last EXCEPT ![Head(ks).dev] = Head(ks).n]
  BY DEF FromQueue, KeepsFull
<1>2. /\ Len(KeyQueue) \in Nat /\ DOMAIN KeyQueue = 1..Len(KeyQueue) /\ KeyQueue \in Seq(Keys)
      /\ \A i \in 1..Len(KeyQueue) : KeyQueue[i].n \in Nat /\ KeyQueue[i].dev \in Devices
  BY NumbersTyped, KeySeq
<1>3. PICK k \in Nat : Len(ks) = Len(KeyQueue) - k /\ \A i \in 1..Len(ks) : ks[i] = KeyQueue[i + k]
  BY <1>1 DEF Suffix
<1>4. /\ Tail(ks) \in Seq(Keys) /\ Len(Tail(ks)) = Len(ks) - 1 /\ Suffix(Tail(ks), ks) /\ Head(ks) = ks[1] /\ 1 \in DOMAIN ks
      /\ \A i \in 1..Len(Tail(ks)) : Tail(ks)[i] = ks[i + 1]
  BY <1>1, TailIs
<1>5. Len(ks) \in Nat /\ DOMAIN ks = 1..Len(ks)
  BY KeySeq
<1>6. Suffix(KeyQueue', KeyQueue)
  BY <1>1, <1>2, <1>4, SuffixAgain
<1>7. KeysGo /\ dev' = dev
  BY NothingChanges, StayGo DEF FromQueue
<1>. DEFINE h == KeyQueue[1 + k]
<1>8. h = Head(ks) /\ 1 + k \in DOMAIN KeyQueue /\ h.dev \in Devices /\ h.n \in Nat
  BY <1>2, <1>3, <1>4, <1>5
<1>9. last \in [Devices -> Nat] /\ last' = [last EXCEPT ![h.dev] = h.n]
  BY <1>1, <1>8, KeysTyped
<1>10. \A d \in Devices : last'[d] = IF d = h.dev THEN h.n ELSE last[d]
  BY <1>8, <1>9
<1>11. \A i \in DOMAIN KeyQueue' : i + 1 + k \in DOMAIN KeyQueue /\ KeyQueue'[i] = KeyQueue[i + 1 + k] /\ 1 + k \in 1..(i + 1 + k - 1)
  <2>1. ASSUME NEW i \in DOMAIN KeyQueue'
        PROVE i + 1 + k \in DOMAIN KeyQueue /\ KeyQueue'[i] = KeyQueue[i + 1 + k] /\ 1 + k \in 1..(i + 1 + k - 1)
    <3>1. i \in 1..(Len(ks) - 1) /\ KeyQueue'[i] = ks[i + 1]
      BY <1>1, <1>4, <1>5
    <3>2. i + 1 \in 1..Len(ks)
      BY <1>5, <3>1
    <3>3. ks[i + 1] = KeyQueue[i + 1 + k]
      BY <1>3, <3>2
    <3>. QED
      BY <1>2, <1>3, <1>5, <3>1, <3>2, <3>3
  <2>. QED
    BY <2>1
<1>. HIDE DEF h
<1>12. ASSUME NEW d \in Devices
       PROVE last'[d] <= dev[d].n /\ \A i \in DOMAIN dev'[d].keys : dev'[d].keys[i].n > last'[d]
  <2>1. CASE d = h.dev
    BY <1>7, <1>8, <1>10, <2>1 DEF KeyOrder, KeysInOrder, KeyNumbers, h
  <2>2. CASE d # h.dev
    BY <1>7, <1>10, <2>2 DEF KeyOrder, KeysInOrder, KeyNumbers
  <2>. QED
    BY <2>1, <2>2
<1>13. ASSUME NEW i \in DOMAIN KeyQueue' PROVE KeyQueue'[i].n > last'[KeyQueue'[i].dev]
  <2>1. PICK j : j = i + 1 + k /\ j \in DOMAIN KeyQueue /\ KeyQueue'[i] = KeyQueue[j] /\ 1 + k \in 1..(j - 1)
    BY <1>11
  <2>2. PICK d \in Devices : d = KeyQueue[j].dev
    BY <1>2, <2>1
  <2>3. /\ KeyQueue[j].n > last[d]
        /\ KeyQueue[1 + k].dev = d => KeyQueue[1 + k].n < KeyQueue[j].n
    BY <2>1, <2>2 DEF KeyOrder, KeysInOrder
  <2>. QED
    BY <1>2, <1>8, <1>10, <2>1, <2>2, <2>3 DEF h
<1>. QED
  BY <1>6, <1>7, <1>12, <1>13, KeyOrderGoes

LEMMA OrderFromKeyboard == ASSUME Types, Types', KeyOrder, KeysGo, FromKeyboard, KeyQueue' = <<>>, pressed' = pressed
  PROVE KeyOrder'
<1>1. ASSUME NEW d \in Devices
      PROVE last'[d] <= dev[d].n /\ \A i \in DOMAIN dev'[d].keys : dev'[d].keys[i].n > last'[d]
  <2>1. PICK own, left : own = dev[d].keys /\ left = dev'[d].keys
    OBVIOUS
  <2>2. own \in Seq(Keys) /\ left \in Seq(Keys) /\ Suffix(left, own)
    <3>1. left \in Seq(Keys)
      BY <2>1, FieldsAre DEF Types
    <3>. QED
      BY <2>1, <3>1, NumbersTyped DEF KeysGo
  <2>3. Len(own) \in Nat /\ DOMAIN own = 1..Len(own) /\ Len(left) \in Nat /\ DOMAIN left = 1..Len(left)
        /\ \A i \in 1..Len(own) : own[i].n \in Nat
    BY <2>2, KeySeq
  <2>4. /\ \A i \in DOMAIN own : own[i].n > last[d] /\ own[i].n <= dev[d].n /\ \A j \in 1..(i - 1) : own[j].n < own[i].n
        /\ last[d] <= dev[d].n
    BY <2>1 DEF KeyOrder, KeysInOrder, KeyNumbers
  <2>5. CASE Passes(d)
    <3>1. last'[d] = last[d]
      BY <2>5 DEF Passes
    <3>2. ToSet(left) \subseteq ToSet(own)
      BY <2>2, SuffixSet
    <3>3. \A k \in ToSet(own) : k.n > last[d]
      BY <2>4 DEF ToSet
    <3>4. \A i \in DOMAIN left : left[i] \in ToSet(left)
      BY DEF ToSet
    <3>. QED
      BY <2>1, <2>4, <3>1, <3>2, <3>3, <3>4
  <2>6. CASE Takes(d)
    <3>1. PICK ks \in Seq(Keys) : ks # <<>> /\ left = Tail(ks) /\ last'[d] = Head(ks).n /\ Suffix(ks, own)
      <4>1. DropPartial(own) \in Seq(Keys) /\ Suffix(DropPartial(own), own)
        BY <2>2, DropIs
      <4>. QED
        BY <2>1, <2>6, <4>1 DEF Takes
    <3>2. PICK m \in Nat : Len(ks) = Len(own) - m /\ \A i \in 1..Len(ks) : ks[i] = own[i + m]
      BY <3>1 DEF Suffix
    <3>3. /\ Len(Tail(ks)) = Len(ks) - 1 /\ Head(ks) = ks[1] /\ 1 \in DOMAIN ks
          /\ \A i \in 1..Len(Tail(ks)) : Tail(ks)[i] = ks[i + 1]
      BY <3>1, TailIs
    <3>4. Len(ks) \in Nat /\ DOMAIN ks = 1..Len(ks)
      BY KeySeq
    <3>5. 1 + m \in DOMAIN own /\ Head(ks) = own[1 + m]
      BY <2>3, <3>2, <3>3, <3>4
    <3>6. last'[d] <= dev[d].n
      BY <2>4, <3>1, <3>5
    <3>7. ASSUME NEW i \in DOMAIN left PROVE left[i].n > last'[d]
      <4>1. i \in 1..(Len(ks) - 1) /\ left[i] = ks[i + 1]
        <5>1. i \in 1..Len(Tail(ks)) /\ left[i] = Tail(ks)[i]
          BY <2>3, <3>1, <3>7, Zenon
        <5>. QED
          BY ONLY <3>3, <5>1
      <4>2. i + 1 \in 1..Len(ks) /\ i + 1 + m \in DOMAIN own /\ 1 + m \in 1..(i + 1 + m - 1)
        <5>1. i \in Int
          BY <4>1
        <5>. QED
          BY ONLY <2>3, <3>2, <3>4, <4>1, <5>1
      <4>3. left[i] = own[i + 1 + m]
        BY <3>2, <4>1, <4>2
      <4>4. own[1 + m].n < own[i + 1 + m].n
        BY <2>4, <4>2
      <4>. QED
        BY <2>3, <3>1, <3>5, <4>2, <4>3, <4>4
    <3>. QED
      BY <2>1, <3>6, <3>7
  <2>. QED
    BY <2>5, <2>6 DEF FromKeyboard
<1>2. Suffix(KeyQueue', KeyQueue) /\ DOMAIN KeyQueue' = {}
  BY NumbersTyped, SuffixEmpty
<1>. QED
  BY <1>1, <1>2, KeyOrderGoes

LEMMA OrderSaves == ASSUME Types, Types', Lists, KeyOrder, KeysGo, Saves, pressed' = pressed PROVE KeyOrder'
<1>1. PICK D \in SUBSET ToSet(textInEx) :
        /\ \A d \in D : dev[d].keys # <<>>
        /\ \A d \in Devices : dev'[d].keys = IF d \in D THEN Tail(dev[d].keys) ELSE dev[d].keys
        /\ IF Saved(D) = <<>> THEN last' = last /\ KeyQueue' = KeyQueue
           ELSE last' = [last EXCEPT ![Saved(D)[1].dev] = Saved(D)[1].n] /\ KeyQueue' = Tail(Saved(D))
  BY DEF Saves
<1>2. PICK ks \in Seq(Keys) : ks = Saved(D) /\ SavedFrom(ks, D, Len(textInEx))
  BY <1>1, SavedKeys DEF KeyOrder
<1>3. CASE ks = <<>>
  <2>1. last' = last /\ KeyQueue' = KeyQueue
    BY <1>1, <1>2, <1>3
  <2>. QED
    BY <2>1, NumbersTyped, SuffixSelf, KeyOrderLeft
<1>4. CASE ks # <<>>
  <2>1. last' = [last EXCEPT ![ks[1].dev] = ks[1].n] /\ KeyQueue' = Tail(ks)
    BY <1>1, <1>2, <1>4
  <2>2. /\ Len(Tail(ks)) = Len(ks) - 1 /\ 1 \in DOMAIN ks /\ Tail(ks) \in Seq(Keys)
        /\ \A i \in 1..Len(Tail(ks)) : Tail(ks)[i] = ks[i + 1]
    BY <1>4, TailIs
  <2>3. /\ Len(ks) \in Nat /\ DOMAIN ks = 1..Len(ks)
        /\ \A i \in 1..Len(ks) : ks[i].n \in Nat /\ ks[i].dev \in Devices
    BY KeySeq
  <2>4. ASSUME NEW i \in 1..Len(ks)
        PROVE /\ ks[i].dev \in D /\ 1 \in DOMAIN dev[ks[i].dev].keys
              /\ ks[i] = dev[ks[i].dev].keys[1]
    <3>1. PICK x \in 1..Len(textInEx) : textInEx[x] \in D /\ ks[i] = Head(dev[textInEx[x]].keys)
      BY <1>2 DEF SavedFrom
    <3>2. PICK d \in Devices : d = textInEx[x] /\ d \in D /\ dev[d].keys # <<>>
      BY <1>1, <3>1, ListIs
    <3>3. Head(dev[d].keys) = dev[d].keys[1] /\ 1 \in DOMAIN dev[d].keys
      BY <3>2, NumbersTyped, TailIs
    <3>4. dev[d].keys[1].dev = d
      BY <3>3 DEF KeyOrder, KeyNumbers
    <3>. QED
      BY <3>1, <3>2, <3>3, <3>4
  <2>5. \A i, l \in 1..Len(ks) : ks[i].dev = ks[l].dev => i = l
    BY <1>2 DEF SavedFrom
  <2>6. KeyQueue' \in Seq(Keys) /\ Len(KeyQueue') = Len(ks) - 1 /\ DOMAIN KeyQueue' = 1..(Len(ks) - 1)
        /\ \A i \in DOMAIN KeyQueue' : KeyQueue'[i] = ks[i + 1] /\ i + 1 \in 1..Len(ks) /\ i + 1 # 1
    BY <2>1, <2>2, <2>3
  <2>. DEFINE e == ks[1].dev
  <2>7. e \in Devices /\ e \in D /\ ks[1] = dev[e].keys[1] /\ 1 \in DOMAIN dev[e].keys
    BY <2>2, <2>3, <2>4
  <2>8. \A d \in Devices : last'[d] = IF d = e THEN dev[e].keys[1].n ELSE last[d]
    <3>1. last \in [Devices -> Nat]
      BY KeysTyped
    <3>. QED
      BY <2>1, <2>7, <3>1
  <2>. HIDE DEF e
  <2>9. ASSUME NEW d \in Devices
        PROVE /\ dev'[d].n = dev[d].n /\ dev[d].n <= pressed' /\ last'[d] <= dev'[d].n
              /\ \A i \in DOMAIN dev'[d].keys : dev'[d].keys[i].dev = d /\ dev'[d].keys[i].n <= dev'[d].n
              /\ \A i \in DOMAIN dev'[d].keys : /\ dev'[d].keys[i].n > last'[d]
                                                /\ \A j \in 1..(i - 1) : dev'[d].keys[j].n < dev'[d].keys[i].n
              /\ \A i \in DOMAIN KeyQueue' : KeyQueue'[i].dev = d =>
                   /\ KeyQueue'[i].n > last'[d]
                   /\ \A j \in 1..(i - 1) : KeyQueue'[j].dev = d => KeyQueue'[j].n < KeyQueue'[i].n
                   /\ \A j \in DOMAIN dev'[d].keys : KeyQueue'[i].n < dev'[d].keys[j].n
    <3>1. PICK own, left : own = dev[d].keys /\ left = dev'[d].keys
      OBVIOUS
    <3>2. own \in Seq(Keys) /\ left \in Seq(Keys) /\ dev'[d].n = dev[d].n
      <4>1. left \in Seq(Keys)
        BY <3>1, FieldsAre DEF Types
      <4>. QED
        BY <3>1, <4>1, NumbersTyped DEF KeysGo
    <3>3. Len(own) \in Nat /\ DOMAIN own = 1..Len(own) /\ Len(left) \in Nat /\ DOMAIN left = 1..Len(left)
          /\ \A i \in 1..Len(own) : own[i].n \in Nat
      BY <3>2, KeySeq
    <3>4. /\ \A i \in DOMAIN own : own[i].n > last[d] /\ own[i].n <= dev[d].n /\ own[i].dev = d /\ \A j \in 1..(i - 1) : own[j].n < own[i].n
          /\ last[d] <= dev[d].n /\ dev[d].n <= pressed
      BY <3>1 DEF KeyOrder, KeysInOrder, KeyNumbers
    <3>5. d \in D => Len(left) = Len(own) - 1 /\ \A i \in 1..Len(left) : left[i] = own[i + 1]
      <4>. SUFFICES ASSUME d \in D PROVE Len(left) = Len(own) - 1 /\ \A i \in 1..Len(left) : left[i] = own[i + 1]
        OBVIOUS
      <4>1. left = Tail(own) /\ own # <<>>
        BY <1>1, <3>1
      <4>2. Len(Tail(own)) = Len(own) - 1 /\ \A i \in 1..Len(Tail(own)) : Tail(own)[i] = own[i + 1]
        BY ONLY <3>2, <4>1, TailIs
      <4>. QED
        BY <4>1, <4>2
    <3>6. d \notin D => left = own
      BY <1>1, <3>1
    <3>7. PICK m \in {0, 1} : Len(left) = Len(own) - m /\ (m = 1 <=> d \in D) /\ \A i \in 1..Len(left) : left[i] = own[i + m]
      <4>1. CASE d \in D
        BY <3>5, <4>1
      <4>2. CASE d \notin D
        <5>1. Len(left) = Len(own) - 0 /\ \A i \in 1..Len(left) : left[i] = own[i + 0]
          BY <3>3, <3>6, <4>2
        <5>. QED
          BY <4>2, <5>1
      <4>. QED
        BY <4>1, <4>2
    <3>8. \A i \in DOMAIN left : i + m \in DOMAIN own /\ left[i] = own[i + m]
      BY <3>3, <3>7
    <3>9. \A i \in DOMAIN left : \A j \in 1..(i - 1) : left[j].n < left[i].n
      <4>1. ASSUME NEW i \in DOMAIN left, NEW j \in 1..(i - 1) PROVE left[j].n < left[i].n
        <5>1. j \in DOMAIN left /\ j + m \in 1..((i + m) - 1)
          BY <3>3
        <5>. QED
          BY <3>4, <3>8, <5>1
      <4>. QED
        BY <4>1
    <3>10. d \in D => 1 \in DOMAIN own /\ \A i \in DOMAIN left : own[1].n < left[i].n
      <4>1. ASSUME d \in D, NEW i \in DOMAIN left PROVE own[1].n < left[i].n
        <5>1. i + 1 \in DOMAIN own /\ left[i] = own[i + 1] /\ 1 \in 1..((i + 1) - 1)
          BY <3>3, <3>7, <3>8, <4>1
        <5>. QED
          BY <3>4, <5>1
      <4>2. d \in D => 1 \in DOMAIN own
        BY <1>1, <3>1, <3>2, TailIs
      <4>. QED
        BY <4>1, <4>2
    <3>11. last'[d] <= dev[d].n /\ \A i \in DOMAIN left : left[i].n > last'[d]
      <4>1. CASE d = e
        BY <2>7, <2>8, <3>1, <3>3, <3>4, <3>8, <3>10, <4>1
      <4>2. CASE d # e
        BY <2>8, <3>4, <3>8, <4>2
      <4>. QED
        BY <4>1, <4>2
    <3>12. ASSUME NEW i \in DOMAIN KeyQueue', KeyQueue'[i].dev = d
           PROVE /\ KeyQueue'[i].n > last'[d]
                 /\ \A j \in 1..(i - 1) : KeyQueue'[j].dev # d
                 /\ \A j \in DOMAIN left : KeyQueue'[i].n < left[j].n
      <4>1. PICK x \in 1..Len(ks) : x = i + 1 /\ x # 1 /\ KeyQueue'[i] = ks[x] /\ ks[x].dev = d
        BY <2>6, <3>12
      <4>2. d \in D /\ ks[x] = own[1] /\ 1 \in DOMAIN own
        BY <2>4, <3>1, <4>1
      <4>3. d # e
        <5>1. 1 \in 1..Len(ks)
          BY <2>2, <2>3
        <5>. QED
          BY <2>5, <4>1, <5>1 DEF e
      <4>4. KeyQueue'[i].n > last'[d]
        BY <2>8, <3>4, <4>1, <4>2, <4>3
      <4>5. \A j \in DOMAIN left : KeyQueue'[i].n < left[j].n
        BY <3>10, <4>1, <4>2
      <4>6. ASSUME NEW j \in 1..(i - 1) PROVE KeyQueue'[j].dev # d
        <5>1. j \in DOMAIN KeyQueue' /\ j + 1 # x
          BY <2>6, <4>1
        <5>2. KeyQueue'[j] = ks[j + 1] /\ j + 1 \in 1..Len(ks)
          BY <2>6, <5>1
        <5>. QED
          BY <2>5, <4>1, <5>1, <5>2
      <4>. QED
        BY <4>4, <4>5, <4>6
    <3>. QED
      BY <3>1, <3>2, <3>4, <3>8, <3>9, <3>11, <3>12
  <2>10. ASSUME NEW i \in DOMAIN KeyQueue' PROVE KeyQueue'[i].n <= dev'[KeyQueue'[i].dev].n
    <3>1. PICK x \in 1..Len(ks) : KeyQueue'[i] = ks[x]
      BY <2>6
    <3>2. PICK d \in Devices : d = ks[x].dev /\ ks[x] = dev[d].keys[1] /\ 1 \in DOMAIN dev[d].keys
      BY <2>3, <2>4
    <3>3. dev[d].keys[1].n <= dev[d].n
      BY <3>2 DEF KeyOrder, KeyNumbers
    <3>. QED
      BY <2>9, <3>1, <3>2, <3>3
  <2>11. KeyNumbers'
    BY <2>9, <2>10 DEF KeyNumbers
  <2>12. KeysInOrder'
    BY <2>9 DEF KeysInOrder
  <2>. QED
    BY <2>11, <2>12 DEF KeyOrder
<1>. QED
  BY <1>3, <1>4

LEMMA OrderPressed == ASSUME SplitterAssumption, Types, Types', KeyOrder, NEW d \in Devices, Press(d) PROVE KeyOrder'
<1>1. /\ dev' \in [Devices -> DeviceState] /\ \A x \in Devices : x # d => dev'[x] = dev[x]
      /\ pressed' = pressed + 1 /\ dev'[d].n = dev[d].n + 1
      /\ \/ dev'[d].keys = dev[d].keys
         \/ \E partial \in BOOLEAN :
              NewKey(d, partial) \in Keys /\ dev'[d].keys = Append(dev[d].keys, NewKey(d, partial))
  BY PressIs DEF KeyOrder
<1>2. KeyQueue' = KeyQueue /\ last' = last
  BY OtherFrames
<1>3. /\ Len(KeyQueue) \in Nat /\ DOMAIN KeyQueue = 1..Len(KeyQueue) /\ pressed \in Nat
      /\ \A i \in 1..Len(KeyQueue) : KeyQueue[i].n \in Nat /\ KeyQueue[i].dev \in Devices
      /\ \A x \in Devices : dev[x].n \in Nat /\ last[x] \in Nat
  BY NumbersTyped, KeySeq
<1>4. ASSUME NEW x \in Devices
      PROVE /\ dev[x].n <= dev'[x].n /\ dev'[x].n <= pressed' /\ last[x] <= dev'[x].n
            /\ \A i \in DOMAIN dev'[x].keys : dev'[x].keys[i].dev = x /\ dev'[x].keys[i].n <= dev'[x].n
            /\ \A i \in DOMAIN dev'[x].keys : /\ dev'[x].keys[i].n > last[x]
                                              /\ \A j \in 1..(i - 1) : dev'[x].keys[j].n < dev'[x].keys[i].n
            /\ \A i \in DOMAIN KeyQueue : KeyQueue[i].dev = x =>
                 \A j \in DOMAIN dev'[x].keys : KeyQueue[i].n < dev'[x].keys[j].n
  <2>1. PICK own, new : own = dev[x].keys /\ new = dev'[x].keys
    OBVIOUS
  <2>2. own \in Seq(Keys)
    BY <2>1, NumbersTyped
  <2>3. Len(own) \in Nat /\ DOMAIN own = 1..Len(own) /\ \A i \in 1..Len(own) : own[i].n \in Nat
    BY <2>2, KeySeq
  <2>4. /\ \A i \in DOMAIN own : own[i].n > last[x] /\ own[i].n <= dev[x].n /\ own[i].dev = x /\ \A j \in 1..(i - 1) : own[j].n < own[i].n
        /\ last[x] <= dev[x].n /\ dev[x].n <= pressed
        /\ \A i \in DOMAIN KeyQueue : KeyQueue[i].dev = x =>
             KeyQueue[i].n <= dev[x].n /\ \A j \in DOMAIN own : KeyQueue[i].n < own[j].n
    BY <2>1 DEF KeyOrder, KeysInOrder, KeyNumbers
  <2>5. dev'[x].n \in {dev[x].n, dev[x].n + 1}
    BY <1>1
  <2>6. dev[x].n <= dev'[x].n /\ dev'[x].n <= pressed' /\ last[x] <= dev'[x].n /\ dev'[x].n \in Nat
    <3>1. CASE x = d
      BY <1>1, <1>3, <2>4, <3>1
    <3>2. CASE x # d
      BY <1>1, <1>3, <2>4, <3>2
    <3>. QED
      BY <3>1, <3>2
  <2>8. CASE new = own
    <3>1. \A i \in DOMAIN own : own[i].n <= dev'[x].n
      BY <1>3, <2>3, <2>4, <2>6
    <3>. QED
      BY <2>1, <2>4, <2>6, <2>8, <3>1
  <2>7. CASE new # own
    <3>1. x = d
      BY <1>1, <2>1, <2>7
    <3>2. PICK partial \in BOOLEAN : NewKey(d, partial) \in Keys /\ new = Append(own, NewKey(d, partial))
      BY <1>1, <2>1, <2>7, <3>1
    <3>3. PICK k \in Keys : k = NewKey(d, partial) /\ k.dev = d /\ k.n = dev[d].n + 1 /\ new = Append(own, k)
      BY <3>2 DEF NewKey
    <3>4. /\ DOMAIN new = 1..(Len(own) + 1) /\ new[Len(own) + 1] = k
          /\ \A i \in 1..Len(own) : new[i] = own[i]
      BY <2>2, <3>3
    <3>5. \A i \in DOMAIN new : new[i].dev = x /\ new[i].n <= dev'[x].n /\ new[i].n > last[x]
      <4>1. ASSUME NEW i \in DOMAIN new PROVE new[i].dev = x /\ new[i].n <= dev'[x].n /\ new[i].n > last[x]
        <5>1. CASE i = Len(own) + 1
          BY <1>1, <1>3, <2>4, <3>1, <3>3, <3>4, <5>1
        <5>2. CASE i # Len(own) + 1
          <6>1. i \in DOMAIN own /\ new[i] = own[i] /\ own[i].n \in Nat
            BY <2>3, <3>4, <5>2
          <6>. QED
            BY <1>1, <1>3, <2>4, <3>1, <6>1
        <5>. QED
          BY <5>1, <5>2
      <4>. QED
        BY <4>1
    <3>6. \A i \in DOMAIN new : \A j \in 1..(i - 1) : new[j].n < new[i].n
      <4>1. ASSUME NEW i \in DOMAIN new, NEW j \in 1..(i - 1) PROVE new[j].n < new[i].n
        <5>1. j \in DOMAIN own /\ new[j] = own[j] /\ own[j].n \in Nat
          BY <2>3, <3>4
        <5>2. CASE i = Len(own) + 1
          BY <1>3, <2>4, <3>1, <3>3, <3>4, <5>1, <5>2
        <5>3. CASE i # Len(own) + 1
          <6>1. i \in DOMAIN own /\ new[i] = own[i]
            BY <2>3, <3>4, <5>3
          <6>. QED
            BY <2>4, <5>1, <6>1
        <5>. QED
          BY <5>2, <5>3
      <4>. QED
        BY <4>1
    <3>7. ASSUME NEW i \in DOMAIN KeyQueue, KeyQueue[i].dev = x, NEW j \in DOMAIN new
          PROVE KeyQueue[i].n < new[j].n
      <4>1. CASE j = Len(own) + 1
        BY <1>3, <2>4, <3>1, <3>3, <3>4, <3>7, <4>1
      <4>2. CASE j # Len(own) + 1
        <5>1. j \in DOMAIN own /\ new[j] = own[j]
          BY <2>3, <3>4, <4>2
        <5>. QED
          BY <2>4, <3>7, <5>1
      <4>. QED
        BY <4>1, <4>2
    <3>. QED
      BY <2>1, <2>6, <3>5, <3>6, <3>7
  <2>. QED
    BY <2>7, <2>8
<1>5. KeyNumbers'
  <2>1. ASSUME NEW i \in DOMAIN KeyQueue PROVE KeyQueue[i].n <= dev'[KeyQueue[i].dev].n
    <3>1. PICK x \in Devices : x = KeyQueue[i].dev /\ KeyQueue[i].n \in Nat
      BY <1>3
    <3>2. KeyQueue[i].n <= dev[x].n
      BY <3>1 DEF KeyOrder, KeyNumbers
    <3>3. dev[x].n <= dev'[x].n /\ dev'[x].n \in {dev[x].n, dev[x].n + 1}
      BY <1>1, <1>4
    <3>. QED
      BY <1>3, <3>1, <3>2, <3>3
  <2>. QED
    BY <1>2, <1>4, <2>1 DEF KeyNumbers
<1>6. KeysInOrder'
  BY <1>2, <1>4 DEF KeysInOrder, KeyOrder
<1>. QED
  BY <1>5, <1>6 DEF KeyOrder

LEMMA KeyOrderStep == ASSUME SplitterAssumption, Types, Types', Lists, Room, KeyOrder, Next PROVE KeyOrder'
<1>1. KeyQueue \in Seq(Keys) /\ Suffix(KeyQueue, KeyQueue) /\ Suffix(<<>>, KeyQueue)
  BY NumbersTyped, SuffixSelf, SuffixEmpty
<1>2. ASSUME KeysGo, UNCHANGED <<KeyQueue, pressed, last>> PROVE KeyOrder'
  BY <1>1, <1>2, KeyOrderLeft
<1>3. ASSUME NEW d \in Devices, Start(d) PROVE KeyOrder'
  <2>1. UNCHANGED keys
    BY <1>3 DEF Start, StartPlain, StartOutOfMemory, StartExOutOfMemory, StartExRefused, StartEx, AddTextIn
  <2>2. KeysGo
    <3>1. CASE StartPlain(d) \/ StartExOutOfMemory(d)
      BY <3>1, PlainIs, AttachedGo DEF StartPlain, StartExOutOfMemory
    <3>2. CASE StartOutOfMemory(d)
      BY <3>2, NothingChanges, StayGo DEF StartOutOfMemory
    <3>3. CASE StartExRefused(d)
      BY <3>3, StartExRefusedIs, AttachedGo
    <3>4. CASE StartEx(d)
      BY <3>4, StartExIs, AttachedGo
    <3>. QED
      BY <1>3, <3>1, <3>2, <3>3, <3>4 DEF Start
  <2>. QED
    BY <1>2, <2>1, <2>2 DEF keys
<1>4. ASSUME NEW d \in Devices, Stop(d) PROVE KeyOrder'
  <2>1. UNCHANGED <<keys, dev>>
    BY <1>4 DEF Stop
  <2>. QED
    BY <1>2, <2>1, NothingChanges, StayGo DEF keys
<1>5. ASSUME NEW d \in Devices, ToggleStateSyncKeyNotify(d) PROVE KeyOrder'
  <2>1. UNCHANGED keys
    BY <1>5, OtherFrames
  <2>. QED
    BY <1>2, <1>5, <2>1, NotificationIs, StayGo DEF keys
<1>6. ASSUME NEW r \in Requests, RegisterKeyNotify(r) \/ UnregisterKeyNotify(r) PROVE KeyOrder'
  <2>1. UNCHANGED keys
    BY <1>6, OtherFrames
  <2>. QED
    BY <1>2, <1>6, <2>1, RegisterKeyNotifyIs, UnregisterKeyNotifyIs, StayGo DEF keys
<1>7. ASSUME (\E c, e \in BOOLEAN : SetState(c, e)) \/ SetStateStep \/ SetStateDone PROVE KeyOrder'
  <2>1. UNCHANGED keys
    BY <1>7, OtherFrames
  <2>2. (\E c, e \in BOOLEAN : SetState(c, e)) \/ SetStateDone => dev' = dev
    BY OtherFrames
  <2>3. KeysStay
    BY <1>7, <2>2, SetStateStepIs, NothingChanges
  <2>. QED
    BY <1>2, <2>1, <2>3, StayGo DEF keys
<1>8. ASSUME NEW D \in SUBSET Devices, Reset(D) PROVE KeyOrder'
  <2>1. UNCHANGED <<pressed, last>>
    BY <1>8, OtherFrames
  <2>2. KeysGo /\ (KeyQueue' = KeyQueue \/ KeyQueue' = <<>>)
    BY <1>8, ResetIs
  <2>. QED
    BY <1>1, <2>1, <2>2, KeyOrderLeft
<1>9. CASE Read
  <2>1. KeysGo /\ pressed' = pressed
    BY <1>9, ReadIs, ReadFrame DEF KeyOrder
  <2>2. \/ FromQueue
        \/ Saves
        \/ FromKeyboard /\ (KeyQueue' = <<>> \/ (KeyQueue' = KeyQueue /\ last' = last))
    BY <1>9, ReadIs DEF KeyOrder
  <2>. QED
    BY <1>2, <2>1, <2>2, OrderFromQueue, OrderSaves, OrderFromKeyboard
<1>10. ToSet(textIn) \in SUBSET Devices /\ ToSet(textInEx) \in SUBSET Devices
  BY ListIs
<1>. QED
  BY <1>3, <1>4, <1>5, <1>6, <1>7, <1>8, <1>9, <1>10, OrderPressed DEF Next

-----------------------------------------------------------------------------
(* Registrations agree.                                                     *)

Regs(list) == {list[i].reg : i \in DOMAIN list}

LEMMA AgreeIs == RegistrationsAgree <=>
  (~shifted => \A d \in ex \ removed : dev[d].regs = IF d \in ToSet(textInEx) THEN Regs(NotifyList) ELSE {})
BY DEF RegistrationsAgree, Regs

LEMMA AgreeAfter == RegistrationsAgree' <=>
  (~shifted' => \A d \in ex' \ removed' : dev'[d].regs = IF d \in ToSet(textInEx') THEN Regs(NotifyList') ELSE {})
BY DEF RegistrationsAgree, Regs

\* A list with the same registrations, whose handles are of their functions.
LEMMA ApartSame == ASSUME NEW list \in Seq(Entry), NEW new \in Seq(Entry), Apart(list), Len(new) = Len(list),
    \A i \in 1..Len(list) : /\ new[i].reg = list[i].reg
                            /\ \A j \in DOMAIN new[i].handles :
                                 new[i].handles[j] = NoHandle \/ new[i].handles[j].reg.fn = list[i].reg.fn
  PROVE Apart(new) /\ Regs(new) = Regs(list)
<1>1. DOMAIN new = DOMAIN list /\ DOMAIN list = 1..Len(list)
  OBVIOUS
<1>. QED
  BY <1>1 DEF Apart, Regs

LEMMA LongerApart == ASSUME Types, Room, Apart(NotifyList), NEW new, Longer(new)
  PROVE /\ Apart(new) /\ Regs(new) = Regs(NotifyList)
        /\ \A i \in 1..Len(NotifyList) : \A j \in DOMAIN textInEx : new[i].handles[j] = NotifyList[i].handles[j]
<1>1. /\ NotifyList \in Seq(Entry) /\ new \in Seq(Entry) /\ Len(new) = Len(NotifyList) /\ Len(NotifyList) \in Nat
      /\ DOMAIN NotifyList = 1..Len(NotifyList)
  BY ListOfEntries DEF Longer
<1>2. ASSUME NEW i \in 1..Len(NotifyList)
      PROVE /\ new[i].reg = NotifyList[i].reg
            /\ \A j \in DOMAIN new[i].handles :
                 new[i].handles[j] = NoHandle \/ new[i].handles[j].reg.fn = NotifyList[i].reg.fn
            /\ \A j \in DOMAIN textInEx : new[i].handles[j] = NotifyList[i].handles[j]
  <2>1. Extends(new[i], NotifyList[i])
    BY DEF Longer
  <2>2. ASSUME NEW j \in DOMAIN new[i].handles
        PROVE new[i].handles[j] = NoHandle \/ new[i].handles[j].reg.fn = NotifyList[i].reg.fn
    BY <1>1, <2>1 DEF Extends, Apart
  <2>3. \A j \in DOMAIN textInEx : j \in 1..exCount
    BY ListIs DEF Room, Types, ListTypes
  <2>. QED
    BY <2>1, <2>2, <2>3 DEF Extends
<1>. QED
  BY <1>1, <1>2, ApartSame

LEMMA RemovedApart == ASSUME SplitterAssumption, NEW list \in Seq(Entry), Apart(list), NEW k \in 1..Len(list),
    list[k].reg # ToggleSync, NEW new, new = RemoveAt(list, k)
  PROVE /\ Apart(new) /\ Regs(new) = Regs(list) \ {list[k].reg}
        /\ \A i \in DOMAIN new : \E x \in DOMAIN list : new[i] = list[x]
<1>1. /\ Len(list) \in Nat /\ DOMAIN list = 1..Len(list) /\ k \in Nat
      /\ \A i \in 1..Len(list) : list[i].reg \in Registrations
  <2>1. Len(list) \in Nat /\ DOMAIN list = 1..Len(list) /\ k \in Nat /\ \A i \in 1..Len(list) : list[i] \in Entry
    OBVIOUS
  <2>. QED
    BY <2>1 DEF Entry
<1>2. /\ new \in Seq(Entry) /\ Len(new) = Len(list) - 1
      /\ \A i \in 1..(Len(list) - 1) : new[i] = IF i < k THEN list[i] ELSE list[i + 1]
  <2>1. new = RemoveAt(list, k)
    OBVIOUS
  <2>. QED
    BY ONLY <2>1, RemoveAtIs
<1>3. DOMAIN new = 1..(Len(list) - 1)
  BY <1>1, <1>2
<1>. DEFINE From(i) == IF i < k THEN i ELSE i + 1
<1>4. \A i \in DOMAIN new : From(i) \in DOMAIN list /\ From(i) # k /\ new[i] = list[From(i)]
  BY <1>1, <1>2, <1>3
<1>5. \A i, j \in DOMAIN new : i < j => From(i) < From(j)
  BY <1>1, <1>3
<1>6. \A x \in DOMAIN list : x # k => \E i \in DOMAIN new : x = From(i)
  <2>1. ASSUME NEW x \in DOMAIN list, x # k PROVE \E i \in DOMAIN new : x = From(i)
    <3>1. CASE x < k
      BY <1>1, <1>3, <3>1
    <3>2. CASE x > k
      <4>1. x - 1 \in DOMAIN new /\ From(x - 1) = x
        BY <1>1, <1>3, <3>2
      <4>. QED
        BY <4>1
    <3>. QED
      BY <1>1, <2>1, <3>1, <3>2
  <2>. QED
    BY <2>1
<1>. HIDE DEF From
<1>7. Apart(new)
  <2>1. \A i, j \in DOMAIN new : i < j => ~Covers(new[i].reg, new[j].reg)
    BY <1>4, <1>5 DEF Apart
  <2>2. \E i \in DOMAIN new : new[i].reg = ToggleSync
    BY <1>4, <1>6 DEF Apart
  <2>3. ASSUME NEW i \in DOMAIN new, NEW j \in DOMAIN new[i].handles
        PROVE new[i].handles[j] = NoHandle \/ new[i].handles[j].reg.fn = new[i].reg.fn
    <3>1. PICK x \in DOMAIN list : new[i] = list[x]
      BY <1>4
    <3>. QED
      BY <3>1 DEF Apart
  <2>. QED
    BY <2>1, <2>2, <2>3 DEF Apart
<1>8. \A x \in DOMAIN list : x # k => list[x].reg # list[k].reg
  <2>1. ASSUME NEW x \in DOMAIN list, x # k, list[x].reg = list[k].reg PROVE FALSE
    <3>1. Covers(list[x].reg, list[k].reg) /\ Covers(list[k].reg, list[x].reg)
      BY <1>1, <2>1, RegistrationsAre
    <3>2. k \in DOMAIN list /\ (x < k \/ k < x)
      BY <1>1, <2>1
    <3>. QED
      BY <3>1, <3>2 DEF Apart
  <2>. QED
    BY <2>1
<1>9. Regs(new) = Regs(list) \ {list[k].reg}
  <2>1. \A i \in DOMAIN new : new[i].reg \in Regs(list) \ {list[k].reg}
    BY <1>4, <1>8 DEF Regs
  <2>2. \A x \in DOMAIN list : list[x].reg # list[k].reg => list[x].reg \in Regs(new)
    <3>1. ASSUME NEW x \in DOMAIN list, list[x].reg # list[k].reg PROVE list[x].reg \in Regs(new)
      <4>1. x # k
        BY <3>1
      <4>2. PICK i \in DOMAIN new : x = From(i)
        BY <1>6, <4>1
      <4>. QED
        BY <1>4, <4>2 DEF Regs
    <3>. QED
      BY <3>1
  <2>. QED
    BY <2>1, <2>2 DEF Regs
<1>. QED
  BY <1>4, <1>7, <1>9

LEMMA RegistrationsSame ==
  ASSUME Types, RegistrationOrder, RegsStay, UNCHANGED <<NotifyList, textInEx, ex, removed, shifted>>
  PROVE RegistrationOrder'
<1>1. \A d \in ToSet(textInEx) : d \in Devices
  BY ListIs
<1>2. Entries'
  BY <1>1 DEF RegistrationOrder, Entries, RegsStay
<1>3. HandlesInPlace'
  BY DEF RegistrationOrder, HandlesInPlace
<1>4. RegistrationsAgree'
  <2>1. \A d \in ex : d \in Devices
    BY DEF Types, ListTypes
  <2>. QED
    BY <2>1, AgreeIs, AgreeAfter DEF RegistrationOrder, RegsStay
<1>. QED
  BY <1>2, <1>3, <1>4 DEF RegistrationOrder

LEMMA RegistrationsLonger ==
  ASSUME Types, Room, RegistrationOrder, NEW d \in Devices, NEW regs, Attached(d, regs), d \notin ToSet(textInEx),
         d \in ex, dev[d].regs = {} /\ Entries => regs = {},
         Longer(NotifyList'), UNCHANGED <<textInEx, ex, removed, shifted>>
  PROVE RegistrationOrder'
<1>1. \A x \in ToSet(textInEx) : x \in Devices /\ x # d
  BY ListIs
<1>2. \A x \in Devices : dev'[x].regs = IF x = d THEN regs ELSE dev[x].regs
  BY DEF Attached
<1>3. /\ Apart(NotifyList') /\ Regs(NotifyList') = Regs(NotifyList)
      /\ \A i \in 1..Len(NotifyList) : \A j \in DOMAIN textInEx : NotifyList'[i].handles[j] = NotifyList[i].handles[j]
  BY LongerApart DEF RegistrationOrder, Entries
<1>4. Entries'
  BY <1>1, <1>2, <1>3 DEF RegistrationOrder, Entries
<1>5. DOMAIN NotifyList' = DOMAIN NotifyList /\ DOMAIN NotifyList = 1..Len(NotifyList)
      /\ \A i \in 1..Len(NotifyList) : NotifyList'[i].reg = NotifyList[i].reg
  BY ListOfEntries DEF Longer, Extends
<1>6. HandlesInPlace'
  BY <1>3, <1>5 DEF RegistrationOrder, HandlesInPlace
<1>7. RegistrationsAgree'
  <2>1. \A x \in ex : x \in Devices
    BY DEF Types, ListTypes
  <2>2. ~shifted => \A x \in ex \ removed : dev[x].regs = IF x \in ToSet(textInEx) THEN Regs(NotifyList) ELSE {}
    BY AgreeIs DEF RegistrationOrder
  <2>3. ASSUME ~shifted, NEW x \in ex \ removed
        PROVE dev'[x].regs = IF x \in ToSet(textInEx) THEN Regs(NotifyList) ELSE {}
    <3>1. CASE x = d
      BY <1>2, <2>2, <2>3, <3>1 DEF RegistrationOrder
    <3>2. CASE x # d
      BY <1>2, <2>1, <2>2, <2>3, <3>2
    <3>. QED
      BY <3>1, <3>2
  <2>. QED
    BY <1>3, <2>3, AgreeAfter
<1>. QED
  BY <1>4, <1>6, <1>7 DEF RegistrationOrder

LEMMA RegistrationsStarted ==
  ASSUME SplitterAssumption, Types, Lists, Room, RegistrationOrder, NEW d \in Devices, StartEx(d)
  PROVE RegistrationOrder'
<1>. DEFINE made == RegisterFirst(d, Len(NotifyList))
            place == Len(textInEx) + 1
            N == Len(NotifyList)
<1>1. /\ d \in ex /\ AddTextIn(d) /\ AllGrow /\ textInEx' = Append(textInEx, d)
      /\ UNCHANGED <<ex, removed, shifted>>
  BY DEF StartEx, AddTextIn, gone
<1>2. d \notin ToSet(textInEx)
  BY <1>1, AddTextInIs
<1>3. /\ textInEx \in Seq(Devices) /\ Len(textInEx) \in Nat /\ DOMAIN textInEx = 1..Len(textInEx)
      /\ ToSet(textInEx) \in SUBSET Devices /\ NotifyList \in Seq(Entry) /\ N \in Nat /\ DOMAIN NotifyList = 1..N
      /\ \A i \in 1..N : NotifyList[i].reg \in Registrations
  BY ListIs, ListOfEntries
<1>4. /\ DOMAIN textInEx' = 1..place /\ textInEx'[place] = d /\ ToSet(textInEx') = ToSet(textInEx) \cup {d}
      /\ \A j \in 1..Len(textInEx) : textInEx'[j] = textInEx[j]
  <2>1. PICK t : t = Append(textInEx, d)
    OBVIOUS
  <2>2. /\ t \in Seq(Devices) /\ Len(t) = Len(textInEx) + 1 /\ ToSet(t) = ToSet(textInEx) \cup {d}
        /\ t[Len(textInEx) + 1] = d /\ \A i \in 1..Len(textInEx) : t[i] = textInEx[i]
    BY ONLY <1>3, <2>1, AppendIs
  <2>3. DOMAIN t = 1..Len(t)
    BY <2>2
  <2>. QED
    BY <1>1, <2>1, <2>2, <2>3
<1>5. /\ NotifyList' \in Seq(Entry) /\ Len(NotifyList') = N
      /\ \A i \in 1..N :
           LET h == NotifyList'[i].handles
           IN /\ NotifyList'[i].reg = NotifyList[i].reg
              /\ DOMAIN h = DOMAIN Roomy[i].handles
              /\ \A j \in DOMAIN h : j # place => h[j] = Roomy[i].handles[j]
              /\ h[place] = made.handles[i]
  BY EntriesGiven
<1>6. /\ Longer(Roomy) /\ exCount <= exCount' /\ Len(textInEx) + 1 <= exCount' /\ exCount' \in Nat
      /\ \A i \in DOMAIN NotifyList : exCount' <= Len(Roomy[i].handles)
  BY <1>1, AllGrowIs
<1>7. /\ Apart(Roomy) /\ Regs(Roomy) = Regs(NotifyList)
      /\ \A i \in 1..N : \A j \in DOMAIN textInEx : Roomy[i].handles[j] = NotifyList[i].handles[j]
  BY <1>6, LongerApart DEF RegistrationOrder, Entries
<1>8. /\ made.regs \in SUBSET Registrations /\ dev[d].regs \subseteq made.regs
      /\ \A i \in 1..N : /\ made.handles[i].dev = d /\ made.handles[i].reg \in made.regs
                         /\ Covers(made.handles[i].reg, NotifyList[i].reg)
  <2>1. N \in 0..Len(NotifyList)
    BY <1>3
  <2>. QED
    BY <2>1, RegisterFirstMakes
<1>9. dev[d].regs = {} /\ Entries =>
        /\ made.regs = Regs(NotifyList)
        /\ \A i \in 1..N : made.handles[i] = [dev |-> d, reg |-> NotifyList[i].reg]
  <2>1. N \in 0..Len(NotifyList)
    BY <1>3
  <2>. QED
    BY <1>3, <2>1, RegisterFirstOnFresh DEF Regs
<1>10. Attached(d, made.regs)
  BY StartExIs
<1>. HIDE DEF made, place, N
<1>11. \A x \in Devices : dev'[x].regs = IF x = d THEN made.regs ELSE dev[x].regs
  BY <1>10 DEF Attached
<1>12. \A i \in 1..N : made.handles[i].reg.fn = NotifyList[i].reg.fn
  BY <1>3, <1>8, RegistrationsAre
<1>13. Entries' /\ Regs(NotifyList') = Regs(NotifyList)
  <2>1. ASSUME NEW i \in 1..N, NEW j \in DOMAIN NotifyList'[i].handles
        PROVE NotifyList'[i].handles[j] = NoHandle \/ NotifyList'[i].handles[j].reg.fn = NotifyList[i].reg.fn
    <3>1. CASE j = place
      BY <1>5, <1>12, <3>1
    <3>2. CASE j # place
      <4>1. NotifyList'[i].handles[j] = Roomy[i].handles[j] /\ j \in DOMAIN Roomy[i].handles
        BY <1>5, <3>2
      <4>2. i \in DOMAIN Roomy /\ Roomy[i].reg = NotifyList[i].reg
        BY <1>3, <1>6 DEF Longer, Extends, N
      <4>. QED
        BY <1>7, <4>1, <4>2 DEF Apart
    <3>. QED
      BY <3>1, <3>2
  <2>2. Apart(NotifyList') /\ Regs(NotifyList') = Regs(NotifyList)
    BY <1>3, <1>5, <2>1, ApartSame DEF RegistrationOrder, Entries, N
  <2>3. ToggleSync \in made.regs
    <3>1. PICK i \in 1..N : NotifyList[i].reg = ToggleSync
      BY <1>3 DEF RegistrationOrder, Entries, Apart
    <3>2. Covers(made.handles[i].reg, ToggleSync) /\ made.handles[i].reg \in made.regs
      BY <1>8, <3>1
    <3>. QED
      BY <1>8, <3>2, RegistrationsAre
  <2>4. \A x \in ToSet(textInEx') : ToggleSync \in dev'[x].regs
    BY <1>3, <1>4, <1>11, <2>3 DEF RegistrationOrder, Entries
  <2>. QED
    BY <2>2, <2>4 DEF Entries
<1>14. Regs(NotifyList') = Regs(NotifyList)
  BY <1>13
<1>15. ~shifted => \A x \in ex \ removed : dev[x].regs = IF x \in ToSet(textInEx) THEN Regs(NotifyList) ELSE {}
  BY AgreeIs DEF RegistrationOrder
<1>16. ~shifted /\ d \notin removed => dev[d].regs = {} /\ Entries
  BY <1>1, <1>2, <1>15 DEF RegistrationOrder
<1>17. HandlesInPlace'
  <2>1. ASSUME ~shifted, NEW i \in DOMAIN NotifyList', NEW j \in DOMAIN textInEx', textInEx'[j] \notin removed
        PROVE NotifyList'[i].handles[j] = [dev |-> textInEx'[j], reg |-> NotifyList'[i].reg]
    <3>1. i \in 1..N /\ i \in DOMAIN NotifyList /\ NotifyList'[i].reg = NotifyList[i].reg
      BY <1>3, <1>5 DEF N
    <3>2. CASE j = place
      BY <1>4, <1>5, <1>9, <1>16, <2>1, <3>1, <3>2
    <3>3. CASE j # place
      <4>1. j \in DOMAIN textInEx /\ textInEx'[j] = textInEx[j] /\ j \in 1..exCount'
        BY <1>3, <1>4, <1>6, <3>3 DEF place
      <4>2. j \in DOMAIN Roomy[i].handles
        <5>1. Roomy[i].handles \in Seq(Handles) /\ exCount' <= Len(Roomy[i].handles)
          BY <1>6, <3>1 DEF Longer, Extends, Entry, N
        <5>. QED
          BY <1>6, <4>1, <5>1
      <4>3. NotifyList'[i].handles[j] = NotifyList[i].handles[j]
        BY <1>5, <1>7, <3>1, <3>3, <4>1, <4>2
      <4>. QED
        BY <2>1, <3>1, <4>1, <4>3 DEF RegistrationOrder, HandlesInPlace
    <3>. QED
      BY <3>2, <3>3
  <2>. QED
    BY <1>1, <2>1 DEF HandlesInPlace
<1>18. RegistrationsAgree'
  <2>1. \A x \in ex : x \in Devices
    BY DEF Types, ListTypes
  <2>2. ASSUME ~shifted, NEW x \in ex \ removed
        PROVE dev'[x].regs = IF x \in ToSet(textInEx') THEN Regs(NotifyList) ELSE {}
    <3>1. CASE x = d
      BY <1>4, <1>9, <1>11, <1>16, <2>2, <3>1
    <3>2. CASE x # d
      BY <1>4, <1>11, <1>15, <2>1, <2>2, <3>2
    <3>. QED
      BY <3>1, <3>2
  <2>. QED
    BY <1>1, <1>14, <2>2, AgreeAfter
<1>. QED
  BY <1>13, <1>17, <1>18 DEF RegistrationOrder

LEMMA RegistrationsStopped == ASSUME Types, Lists, RegistrationOrder, NEW d \in Devices, Stop(d)
  PROVE RegistrationOrder'
<1>1. UNCHANGED <<ex, NotifyList, dev>>
  BY DEF Stop
<1>2. /\ textInEx' \in Seq(Devices) /\ ToSet(textInEx') = ToSet(textInEx) \ {d} /\ Len(textInEx') <= Len(textInEx)
      /\ removed' = removed \cup {d} /\ (shifted => shifted')
      /\ ~shifted' => \A i \in 1..Len(textInEx') : textInEx'[i] = textInEx[i]
  BY StopIs
<1>3. DOMAIN textInEx' = 1..Len(textInEx') /\ DOMAIN textInEx = 1..Len(textInEx) /\ Len(textInEx) \in Nat /\ Len(textInEx') \in Nat
  BY <1>2, ListIs
<1>4. Entries'
  BY <1>1, <1>2 DEF RegistrationOrder, Entries
<1>5. HandlesInPlace'
  <2>1. ASSUME ~shifted', NEW i \in DOMAIN NotifyList, NEW j \in DOMAIN textInEx', textInEx'[j] \notin removed'
        PROVE NotifyList[i].handles[j] = [dev |-> textInEx'[j], reg |-> NotifyList[i].reg]
    <3>1. ~shifted /\ j \in DOMAIN textInEx /\ textInEx'[j] = textInEx[j] /\ textInEx[j] \notin removed
      BY <1>2, <1>3, <2>1
    <3>. QED
      BY <3>1 DEF RegistrationOrder, HandlesInPlace
  <2>. QED
    BY <1>1, <2>1 DEF HandlesInPlace
<1>6. RegistrationsAgree'
  <2>1. ~shifted => \A x \in ex \ removed : dev[x].regs = IF x \in ToSet(textInEx) THEN Regs(NotifyList) ELSE {}
    BY AgreeIs DEF RegistrationOrder
  <2>2. ~shifted' => \A x \in ex \ removed' : dev[x].regs = IF x \in ToSet(textInEx') THEN Regs(NotifyList) ELSE {}
    BY <1>2, <2>1
  <2>. QED
    BY <1>1, <2>2, AgreeAfter
<1>. QED
  BY <1>4, <1>5, <1>6 DEF RegistrationOrder

LEMMA RegistrationsMade ==
  ASSUME SplitterAssumption, Types, Lists, Room, RegistrationOrder, NEW r \in Requests, RegisterKeyNotify(r)
  PROVE RegistrationOrder'
<1>1. UNCHANGED <<ex, textInEx, removed, shifted>> /\ ~Registered(r) /\ (RegistrationMade(r) \/ RegistrationUndone(r))
  BY RegisterKeyNotifyIs, OtherFrames DEF lists, gone
<1>2. ~shifted => \A x \in ex \ removed : dev[x].regs = IF x \in ToSet(textInEx) THEN Regs(NotifyList) ELSE {}
  BY AgreeIs DEF RegistrationOrder
<1>3. \A s \in Regs(NotifyList) : ~Covers(s, r)
  BY <1>1 DEF Registered, Regs
<1>4. /\ NotifyList \in Seq(Entry) /\ Len(NotifyList) \in Nat /\ DOMAIN NotifyList = 1..Len(NotifyList)
      /\ DOMAIN textInEx = 1..Len(textInEx) /\ ToSet(textInEx) \in SUBSET Devices /\ ex \in SUBSET Devices
      /\ \A j \in 1..Len(textInEx) : textInEx[j] \in ToSet(textInEx) /\ textInEx[j] \in ex
  <2>1. \A j \in 1..Len(textInEx) : textInEx[j] \in ToSet(textInEx)
    BY ListIs DEF ToSet
  <2>. QED
    BY <2>1, ListOfEntries, ListIs DEF Types, ListTypes, Lists
<1>5. CASE RegistrationUndone(r)
  <2>1. NotifyList' = NotifyList
    BY <1>5 DEF RegistrationUndone
  <2>2. Entries' /\ HandlesInPlace'
    BY <1>1, <1>4, <1>5, <2>1 DEF RegistrationOrder, Entries, HandlesInPlace, RegistrationUndone
  <2>3. ASSUME ~shifted, NEW x \in ex \ removed
        PROVE dev'[x].regs = IF x \in ToSet(textInEx) THEN Regs(NotifyList) ELSE {}
    <3>1. dev'[x].regs = dev[x].regs
      BY <1>2, <1>3, <1>4, <1>5, <2>3 DEF RegistrationUndone
    <3>. QED
      BY <1>2, <2>3, <3>1
  <2>4. RegistrationsAgree'
    BY <1>1, <2>1, <2>3, AgreeAfter
  <2>. QED
    BY <2>2, <2>4 DEF RegistrationOrder
<1>6. CASE RegistrationMade(r)
  <2>1. PICK handles \in Seq(Handles) :
          /\ Len(handles) = exCount
          /\ NotifyList' = Append(NotifyList, [reg |-> r, handles |-> handles])
          /\ \A j \in 1..exCount : handles[j] = NoHandle \/ handles[j].reg.fn = r.fn
          /\ \A j \in 1..Len(textInEx) :
               (\A s \in dev[textInEx[j]].regs : ~Covers(s, r)) => handles[j] = [dev |-> textInEx[j], reg |-> r]
    BY <1>6 DEF RegistrationMade
  <2>2. \A x \in Devices :
          /\ dev[x].regs \subseteq dev'[x].regs
          /\ x \notin ToSet(textInEx) => dev'[x].regs = dev[x].regs
          /\ x \in ToSet(textInEx) /\ (\A s \in dev[x].regs : ~Covers(s, r)) => dev'[x].regs = dev[x].regs \cup {r}
    BY <1>6 DEF RegistrationMade
  <2>12. PICK e : e = [reg |-> r, handles |-> handles]
    OBVIOUS
  <2>3. e = [reg |-> r, handles |-> handles] /\ e.reg = r /\ e.handles = handles
    BY <2>12
  <2>. DEFINE N == Len(NotifyList)
  <2>4. /\ DOMAIN NotifyList' = 1..(N + 1) /\ NotifyList'[N + 1] = e
        /\ \A i \in 1..N : NotifyList'[i] = NotifyList[i]
    <3>1. e \in Entry
      BY <2>1, <2>3, RegistrationsAre DEF Entry
    <3>2. NotifyList' = Append(NotifyList, e)
      BY <2>1, <2>3
    <3>. QED
      BY <1>4, <3>1, <3>2
  <2>5. DOMAIN handles = 1..exCount
    BY <2>1
  <2>. HIDE DEF N
  <2>6. Regs(NotifyList') = Regs(NotifyList) \cup {r}
    <3>1. DOMAIN NotifyList = 1..N /\ N \in Nat
      BY <1>4 DEF N
    <3>. QED
      BY <2>3, <2>4, <3>1 DEF Regs
  <2>7. Apart(NotifyList')
    <3>1. DOMAIN NotifyList = 1..N /\ N \in Nat
      BY <1>4 DEF N
    <3>2. ASSUME NEW i \in 1..(N + 1), NEW j \in 1..(N + 1), i < j
          PROVE ~Covers(NotifyList'[i].reg, NotifyList'[j].reg)
      <4>1. i \in 1..N /\ NotifyList'[i] = NotifyList[i]
        BY <2>4, <3>1, <3>2
      <4>2. CASE j = N + 1
        BY <1>1, <2>3, <2>4, <3>1, <4>1, <4>2 DEF Registered
      <4>3. CASE j # N + 1
        <5>1. j \in 1..N /\ NotifyList'[j] = NotifyList[j]
          BY <2>4, <3>1, <4>3
        <5>. QED
          BY <3>1, <3>2, <4>1, <5>1 DEF RegistrationOrder, Entries, Apart
      <4>. QED
        BY <4>2, <4>3
    <3>3. \E i \in 1..(N + 1) : NotifyList'[i].reg = ToggleSync
      <4>1. PICK i \in 1..N : NotifyList[i].reg = ToggleSync
        BY <3>1 DEF RegistrationOrder, Entries, Apart
      <4>2. i \in 1..(N + 1)
        BY <3>1
      <4>. QED
        BY <2>4, <4>1, <4>2
    <3>4. ASSUME NEW i \in 1..(N + 1), NEW j \in DOMAIN NotifyList'[i].handles
          PROVE NotifyList'[i].handles[j] = NoHandle \/ NotifyList'[i].handles[j].reg.fn = NotifyList'[i].reg.fn
      <4>1. CASE i = N + 1
        BY <2>1, <2>3, <2>4, <2>5, <4>1
      <4>2. CASE i # N + 1
        <5>1. i \in 1..N /\ NotifyList'[i] = NotifyList[i]
          BY <2>4, <3>1, <4>2
        <5>. QED
          BY <3>1, <5>1 DEF RegistrationOrder, Entries, Apart
      <4>. QED
        BY <4>1, <4>2
    <3>. QED
      BY <2>4, <3>2, <3>3, <3>4 DEF Apart
  <2>8. Entries'
    BY <1>1, <1>4, <2>2, <2>7 DEF RegistrationOrder, Entries
  <2>9. HandlesInPlace'
    <3>1. ASSUME ~shifted, NEW i \in DOMAIN NotifyList', NEW j \in DOMAIN textInEx, textInEx[j] \notin removed
          PROVE NotifyList'[i].handles[j] = [dev |-> textInEx[j], reg |-> NotifyList'[i].reg]
      <4>1. CASE i = N + 1
        <5>1. dev[textInEx[j]].regs = Regs(NotifyList)
          BY <1>2, <1>4, <3>1
        <5>. QED
          BY <1>3, <1>4, <2>1, <2>3, <2>4, <4>1, <5>1
      <4>2. CASE i # N + 1
        <5>1. i \in DOMAIN NotifyList /\ NotifyList'[i] = NotifyList[i]
          BY <1>4, <2>4, <4>2 DEF N
        <5>. QED
          BY <3>1, <5>1 DEF RegistrationOrder, HandlesInPlace
      <4>. QED
        BY <4>1, <4>2
    <3>. QED
      BY <1>1, <3>1 DEF HandlesInPlace
  <2>10. ASSUME ~shifted, NEW x \in ex \ removed
         PROVE dev'[x].regs = IF x \in ToSet(textInEx) THEN Regs(NotifyList') ELSE {}
    <3>1. x \in Devices /\ dev[x].regs = IF x \in ToSet(textInEx) THEN Regs(NotifyList) ELSE {}
      BY <1>2, <1>4, <2>10
    <3>2. CASE x \in ToSet(textInEx)
      <4>1. dev[x].regs = Regs(NotifyList)
        BY <3>1, <3>2
      <4>. QED
        BY <1>3, <2>2, <2>6, <3>1, <3>2, <4>1
    <3>3. CASE x \notin ToSet(textInEx)
      BY <2>2, <3>1, <3>3
    <3>. QED
      BY <3>2, <3>3
  <2>11. RegistrationsAgree'
    BY <1>1, <2>10, AgreeAfter
  <2>. QED
    BY <2>8, <2>9, <2>11 DEF RegistrationOrder
<1>. QED
  BY <1>1, <1>5, <1>6

LEMMA RegistrationsRemoved ==
  ASSUME SplitterAssumption, Types, Lists, Room, RegistrationOrder, NEW r \in Requests, UnregisterKeyNotify(r)
  PROVE RegistrationOrder'
<1>1. UNCHANGED <<ex, textInEx, removed, shifted>> /\ RegistrationRemoved(r)
  BY UnregisterKeyNotifyIs, OtherFrames DEF lists, gone
<1>2. PICK k \in 1..Len(NotifyList) :
        /\ NotifyList[k].reg = r /\ NotifyList' = RemoveAt(NotifyList, k)
        /\ \A d \in Devices :
             /\ dev'[d].regs \subseteq dev[d].regs
             /\ d \notin ToSet(textInEx) => dev'[d].regs = dev[d].regs
        /\ \A j \in 1..Len(textInEx) :
             dev'[textInEx[j]].regs = Unregister(textInEx[j], dev[textInEx[j]].regs, NotifyList[k].handles[j])
  BY <1>1 DEF RegistrationRemoved
<1>3. /\ NotifyList \in Seq(Entry) /\ DOMAIN NotifyList = 1..Len(NotifyList)
      /\ DOMAIN textInEx = 1..Len(textInEx) /\ Len(textInEx) \in Nat /\ ex \in SUBSET Devices
      /\ \A x \in ToSet(textInEx) : x \in Devices /\ x \in ex
      /\ r # ToggleSync /\ r.fn # ToggleSync.fn
  BY ListOfEntries, ListIs, RegistrationsAre DEF Types, ListTypes, Lists
<1>4. /\ Apart(NotifyList') /\ Regs(NotifyList') = Regs(NotifyList) \ {r}
      /\ \A i \in DOMAIN NotifyList' : \E x \in DOMAIN NotifyList : NotifyList'[i] = NotifyList[x]
  <2>1. PICK list \in Seq(Entry) : list = NotifyList
    BY <1>3
  <2>2. PICK m \in 1..Len(list) : m = k
    BY <2>1
  <2>3. PICK new : new = RemoveAt(list, m)
    OBVIOUS
  <2>4. Apart(list) /\ list[m].reg = r /\ list[m].reg # ToggleSync /\ NotifyList' = new
    BY <1>2, <1>3, <2>1, <2>2, <2>3 DEF RegistrationOrder, Entries
  <2>5. /\ Apart(new) /\ Regs(new) = Regs(list) \ {list[m].reg}
        /\ \A i \in DOMAIN new : \E x \in DOMAIN list : new[i] = list[x]
    BY ONLY SplitterAssumption, <2>3, <2>4, RemovedApart
  <2>. QED
    BY <2>1, <2>4, <2>5
<1>5. ASSUME NEW x \in ToSet(textInEx)
      PROVE /\ ToggleSync \in dev[x].regs => ToggleSync \in dev'[x].regs
            /\ ~shifted /\ x \notin removed => dev'[x].regs = dev[x].regs \ {r}
  <2>1. PICK j \in 1..Len(textInEx) : x = textInEx[j]
    BY <1>3 DEF ToSet
  <2>2. PICK h : h = NotifyList[k].handles[j]
    OBVIOUS
  <2>3. dev'[x].regs = Unregister(x, dev[x].regs, h)
    BY <1>2, <2>1, <2>2
  <2>4. j \in DOMAIN NotifyList[k].handles
    <3>1. NotifyList[k].handles \in Seq(Handles) /\ exCount <= Len(NotifyList[k].handles) /\ Len(textInEx) <= exCount /\ exCount \in Nat
      BY <1>3, ListOfEntries DEF Room, Types, ListTypes
    <3>. QED
      BY <1>3, <3>1
  <2>5. h = NoHandle \/ h.reg.fn = r.fn
    BY <1>2, <1>3, <2>2, <2>4 DEF RegistrationOrder, Entries, Apart
  <2>6. h.dev = x => h.reg # ToggleSync
    <3>1. NoHandle.dev = "none" /\ "none" \notin Devices /\ x \in Devices
      BY <1>3 DEF NoHandle, SplitterAssumption
    <3>. QED
      BY <1>3, <2>5, <3>1
  <2>7. ~shifted /\ x \notin removed => h = [dev |-> x, reg |-> r]
    BY <1>2, <1>3, <2>1, <2>2 DEF RegistrationOrder, HandlesInPlace
  <2>. QED
    BY <2>3, <2>6, <2>7 DEF Unregister
<1>6. Entries'
  BY <1>1, <1>4, <1>5 DEF RegistrationOrder, Entries
<1>7. HandlesInPlace'
  <2>1. ASSUME ~shifted, NEW i \in DOMAIN NotifyList', NEW j \in DOMAIN textInEx, textInEx[j] \notin removed
        PROVE NotifyList'[i].handles[j] = [dev |-> textInEx[j], reg |-> NotifyList'[i].reg]
    <3>1. PICK x \in DOMAIN NotifyList : NotifyList'[i] = NotifyList[x]
      BY <1>4
    <3>. QED
      BY <2>1, <3>1 DEF RegistrationOrder, HandlesInPlace
  <2>. QED
    BY <1>1, <2>1 DEF HandlesInPlace
<1>8. RegistrationsAgree'
  <2>1. ~shifted => \A x \in ex \ removed : dev[x].regs = IF x \in ToSet(textInEx) THEN Regs(NotifyList) ELSE {}
    BY AgreeIs DEF RegistrationOrder
  <2>2. ASSUME ~shifted, NEW x \in ex \ removed
        PROVE dev'[x].regs = IF x \in ToSet(textInEx) THEN Regs(NotifyList') ELSE {}
    <3>1. CASE x \in ToSet(textInEx)
      BY <1>4, <1>5, <2>1, <2>2, <3>1
    <3>2. CASE x \notin ToSet(textInEx)
      BY <1>2, <1>3, <2>1, <2>2, <3>2
    <3>. QED
      BY <3>1, <3>2
  <2>. QED
    BY <1>1, <2>2, AgreeAfter
<1>. QED
  BY <1>6, <1>7, <1>8 DEF RegistrationOrder

LEMMA RegistrationStep == ASSUME SplitterAssumption, Types, Lists, Room, KeyOrder, RegistrationOrder, Next
  PROVE RegistrationOrder'
<1>1. ASSUME RegsStay, UNCHANGED <<lists, NotifyList, gone>> PROVE RegistrationOrder'
  BY <1>1, RegistrationsSame DEF lists, gone
<1>2. ASSUME NEW d \in Devices, Start(d) PROVE RegistrationOrder'
  <2>1. CASE StartPlain(d)
    <3>1. UNCHANGED <<NotifyList, textInEx, ex, removed, shifted>> /\ dev' = [dev EXCEPT ![d] = Checked(@)]
      BY <2>1 DEF StartPlain, AddTextIn, gone
    <3>2. RegsStay
      BY <3>1, PlainIs DEF Attached, RegsStay
    <3>. QED
      BY <3>1, <3>2, RegistrationsSame
  <2>2. CASE StartOutOfMemory(d)
    <3>1. UNCHANGED <<NotifyList, textInEx, ex, removed, shifted, dev>>
      BY <2>2 DEF StartOutOfMemory, gone
    <3>. QED
      BY <3>1, NothingChanges, RegistrationsSame
  <2>3. CASE StartExOutOfMemory(d)
    <3>1. /\ UNCHANGED <<textInEx, ex, removed, shifted>> /\ dev' = [dev EXCEPT ![d] = Checked(@)]
          /\ d \in ex /\ AddTextIn(d)
      BY <2>3 DEF StartExOutOfMemory, AddTextIn, gone
    <3>2. PICK k \in 0..(Len(NotifyList) + 1) :
            NotifyList' = [i \in DOMAIN NotifyList |-> IF i <= k THEN Enlarged(NotifyList[i]) ELSE NotifyList[i]]
      BY <2>3 DEF StartExOutOfMemory
    <3>3. NotifyList' = [i \in DOMAIN NotifyList |-> IF i \in 0..k THEN Enlarged(NotifyList[i]) ELSE NotifyList[i]]
      <4>1. \A i \in DOMAIN NotifyList : i <= k <=> i \in 0..k
        BY ListOfEntries
      <4>. QED
        BY <3>2, <4>1
    <3>4. Longer(NotifyList')
      BY <3>3, LongerIs
    <3>5. Attached(d, dev[d].regs) /\ d \notin ToSet(textInEx)
      BY <3>1, PlainIs, AddTextInIs
    <3>. QED
      BY <3>1, <3>4, <3>5, RegistrationsLonger
  <2>4. CASE StartExRefused(d)
    <3>1. /\ UNCHANGED <<textInEx, ex, removed, shifted>> /\ d \in ex /\ AddTextIn(d) /\ AllGrow /\ NotifyList' = Roomy
      BY <2>4 DEF StartExRefused, AddTextIn, gone
    <3>2. PICK regs \in SUBSET Registrations : Attached(d, regs) /\ (dev[d].regs = {} /\ Entries => regs = {})
      BY <2>4, StartExRefusedIs
    <3>3. Longer(NotifyList') /\ d \notin ToSet(textInEx)
      BY <3>1, AllGrowIs, AddTextInIs
    <3>. QED
      BY <3>1, <3>2, <3>3, RegistrationsLonger
  <2>. QED
    BY <1>2, <2>1, <2>2, <2>3, <2>4, RegistrationsStarted DEF Start
<1>3. ASSUME NEW d \in Devices, Stop(d) \/ Press(d) \/ ToggleStateSyncKeyNotify(d) PROVE RegistrationOrder'
  BY <1>1, <1>3, RegistrationsStopped, PressIs, NotificationIs, OtherFrames DEF KeyOrder
<1>4. ASSUME NEW r \in Requests, RegisterKeyNotify(r) \/ UnregisterKeyNotify(r) PROVE RegistrationOrder'
  BY <1>4, RegistrationsMade, RegistrationsRemoved
<1>5. ASSUME (\E c, e \in BOOLEAN : SetState(c, e)) \/ SetStateStep \/ SetStateDone PROVE RegistrationOrder'
  <2>1. (\E c, e \in BOOLEAN : SetState(c, e)) \/ SetStateDone => dev' = dev
    BY OtherFrames
  <2>2. RegsStay
    BY <1>5, <2>1, SetStateStepIs, NothingChanges
  <2>. QED
    BY <1>1, <1>5, <2>2, OtherFrames
<1>6. ASSUME NEW D \in SUBSET Devices, Reset(D) PROVE RegistrationOrder'
  BY <1>1, <1>6, ResetIs, OtherFrames
<1>7. CASE Read
  BY <1>1, <1>7, ReadIs, ReadFrame DEF KeyOrder
<1>8. ToSet(textIn) \in SUBSET Devices /\ ToSet(textInEx) \in SUBSET Devices
  BY ListIs
<1>. QED
  BY <1>2, <1>3, <1>4, <1>5, <1>6, <1>7, <1>8 DEF Next

-----------------------------------------------------------------------------
(* Toggle states agree.                                                     *)

LEMMA TogglesFrame ==
  ASSUME Types, Toggles, TogglesStay, UNCHANGED <<toggle, call, torn, refused>>,
         ToSet(textInEx') \subseteq ToSet(textInEx), call.active => textInEx' = textInEx
  PROVE Toggles'
<1>1. \A d \in ToSet(textInEx) : d \in Devices
  BY ListIs
<1>2. \A d \in Devices, c \in BOOLEAN : Settled(d, c)' <=> Settled(d, c)
  BY DEF Settled, TogglesStay
<1>3. toggle \in BOOLEAN /\ call.caps \in BOOLEAN
  BY DEF Types, ToggleTypes, Calls
<1>4. CASE call.active
  <2>1. \A i \in DOMAIN textInEx : textInEx[i] \in Devices
    BY ListIs
  <2>2. ~torn => \A i \in DOMAIN textInEx : i < call.next => Settled(textInEx[i], call.caps)
    BY <1>4 DEF Toggles
  <2>3. ~torn => \A i \in DOMAIN textInEx : i < call.next => Settled(textInEx[i], call.caps)'
    BY <1>2, <1>3, <1>4, <2>1, <2>2 DEF Settled, TogglesStay
  <2>. QED
    BY <1>4, <2>3 DEF Toggles
<1>5. CASE ~call.active
  <2>1. ~torn => \A d \in ToSet(textInEx) : Settled(d, toggle)
    BY <1>5 DEF Toggles
  <2>2. ~torn => \A d \in ToSet(textInEx') : Settled(d, toggle)'
    BY <1>1, <2>1 DEF Settled, TogglesStay
  <2>. QED
    BY <1>5, <2>2 DEF Toggles
<1>. QED
  BY <1>4, <1>5

\* Idle before and after: what has to be shown of each keyboard.
LEMMA IdleToggles == ASSUME ~call'.active, ~torn' => \A d \in ToSet(textInEx') : Settled(d, toggle)' PROVE Toggles'
BY DEF Toggles

LEMMA TogglesStarted == ASSUME SplitterAssumption, Types, Lists, Toggles, NEW d \in Devices, StartEx(d) PROVE Toggles'
<1>1. UNCHANGED <<toggle, call, torn>> /\ Idle /\ textInEx' = Append(textInEx, d)
  BY DEF StartEx, AddTextIn
<1>2. ToSet(textInEx') = ToSet(textInEx) \cup {d} /\ \A x \in ToSet(textInEx) : x \in Devices
  <2>1. PICK s \in Seq(Devices) : s = textInEx
    BY ListIs
  <2>2. PICK t : t = Append(s, d)
    OBVIOUS
  <2>3. ToSet(t) = ToSet(s) \cup {d}
    BY ONLY <2>2, AppendIs
  <2>. QED
    BY <1>1, <2>1, <2>2, <2>3, ListIs
<1>3. /\ \A x \in Devices :
           /\ dev'[x].pend = dev[x].pend
           /\ x # d => dev'[x].caps = dev[x].caps /\ dev'[x].exposed = dev[x].exposed
      /\ \/ refused' = refused \ {d} /\ dev'[d].caps = toggle /\ dev'[d].exposed
         \/ refused' = refused \cup {d}
  BY StartExIs
<1>4. ASSUME ~torn, NEW x \in ToSet(textInEx') PROVE Settled(x, toggle)'
  <2>1. CASE x = d
    BY <1>1, <1>3, <2>1 DEF Settled
  <2>2. CASE x # d
    <3>1. x \in Devices /\ Settled(x, toggle)
      BY <1>1, <1>2, <1>4, <2>2 DEF Toggles, Idle
    <3>. QED
      BY <1>1, <1>3, <2>2, <3>1 DEF Settled
  <2>. QED
    BY <2>1, <2>2
<1>. QED
  BY <1>1, <1>4, IdleToggles DEF Idle

\* One keyboard changed, settled in whatever it was settled in.
LEMMA TogglesOne ==
  ASSUME Types, Toggles, NEW d \in Devices, UNCHANGED <<toggle, call, torn, refused, textInEx>>,
         \A x \in Devices : x # d => dev'[x] = dev[x],
         \A c \in BOOLEAN : d \in ToSet(textInEx) /\ Settled(d, c) => Settled(d, c)'
  PROVE Toggles'
<1>1. \A c \in BOOLEAN : \A x \in ToSet(textInEx) : x # d /\ Settled(x, c) => Settled(x, c)'
  BY ListIs DEF Settled
<1>2. toggle \in BOOLEAN /\ call.caps \in BOOLEAN
  BY DEF Types, ToggleTypes, Calls
<1>3. \A x \in ToSet(textInEx) : (Settled(x, toggle) => Settled(x, toggle)') /\ (Settled(x, call.caps) => Settled(x, call.caps)')
  <2>1. ASSUME NEW c \in BOOLEAN, NEW x \in ToSet(textInEx), Settled(x, c) PROVE Settled(x, c)'
    BY <1>1, <2>1
  <2>2. ASSUME NEW x \in ToSet(textInEx), Settled(x, toggle) PROVE Settled(x, toggle)'
    <3>1. PICK c \in BOOLEAN : c = toggle
      BY <1>2
    <3>2. Settled(x, c)'
      BY <2>1, <2>2, <3>1
    <3>. QED
      BY <3>1, <3>2 DEF Settled
  <2>3. ASSUME NEW x \in ToSet(textInEx), Settled(x, call.caps) PROVE Settled(x, call.caps)'
    <3>1. PICK c \in BOOLEAN : c = call.caps
      BY <1>2
    <3>2. Settled(x, c)'
      BY <2>1, <2>3, <3>1
    <3>. QED
      BY <3>1, <3>2 DEF Settled
  <2>. QED
    BY <2>2, <2>3
<1>4. CASE call.active
  <2>1. \A i \in DOMAIN textInEx : textInEx[i] \in ToSet(textInEx)
    BY DEF ToSet
  <2>2. ~torn => \A i \in DOMAIN textInEx : i < call.next => Settled(textInEx[i], call.caps)'
    BY <1>3, <1>4, <2>1 DEF Toggles
  <2>. QED
    BY <1>4, <2>2 DEF Toggles
<1>5. CASE ~call.active
  BY <1>3, <1>5 DEF Toggles
<1>. QED
  BY <1>4, <1>5

LEMMA TogglesPressed == ASSUME SplitterAssumption, Types, KeyNumbers, Entries, Toggles, NEW d \in Devices, Press(d)
  PROVE Toggles'
<1>1. UNCHANGED <<toggle, call, torn, refused, textInEx>>
  BY OtherFrames DEF toggles, lists
<1>2. /\ \A x \in Devices : x # d => dev'[x] = dev[x]
      /\ dev'[d].exposed = dev[d].exposed
      /\ \/ dev'[d].caps = dev[d].caps /\ dev'[d].pend = dev[d].pend
         \/ /\ dev'[d].caps = ~dev[d].caps
            /\ dev[d].exposed /\ ToggleSync \in dev[d].regs => dev'[d].pend = Append(dev[d].pend, dev'[d].caps)
  BY PressIs
<1>3. ASSUME NEW c \in BOOLEAN, d \in ToSet(textInEx), Settled(d, c) PROVE Settled(d, c)'
  <2>. SUFFICES ASSUME d \notin refused
                PROVE dev'[d].exposed /\ (dev'[d].caps = c \/ (dev'[d].pend # <<>> /\ Last(dev'[d].pend) = dev'[d].caps))
    BY <1>1 DEF Settled
  <2>1. dev[d].exposed /\ (dev[d].caps = c \/ (dev[d].pend # <<>> /\ Last(dev[d].pend) = dev[d].caps))
    BY <1>3 DEF Settled
  <2>2. CASE dev'[d].caps = dev[d].caps /\ dev'[d].pend = dev[d].pend
    BY <1>2, <2>1, <2>2
  <2>3. CASE dev'[d].pend = Append(dev[d].pend, dev'[d].caps)
    <3>1. PICK p \in Seq(BOOLEAN) : p = dev[d].pend
      BY FieldsAre DEF Types
    <3>2. PICK b : b = dev'[d].caps
      OBVIOUS
    <3>3. dev' \in [Devices -> DeviceState]
      BY PressIs
    <3>4. b \in BOOLEAN
      BY <3>2, <3>3, FieldsAre
    <3>5. Append(p, b) # <<>> /\ Last(Append(p, b)) = b
      BY <3>4 DEF Last
    <3>. QED
      BY <1>2, <2>1, <2>3, <3>1, <3>2, <3>5
  <2>4. ToggleSync \in dev[d].regs
    BY <1>3 DEF Entries
  <2>. QED
    BY <1>2, <2>1, <2>2, <2>3, <2>4
<1>. QED
  BY <1>1, <1>2, <1>3, TogglesOne

LEMMA TogglesHeard == ASSUME Types, Toggles, NEW d \in Devices, ToggleStateSyncKeyNotify(d) PROVE Toggles'
<1>1. UNCHANGED <<call, textInEx>> /\ dev[d].pend # <<>>
  BY NotificationIs, OtherFrames DEF lists
<1>2. \A x \in Devices : dev'[x].pend = IF x = d THEN Tail(dev[d].pend) ELSE dev[x].pend
  BY NotificationIs
<1>3. \A x \in ToSet(textInEx) : x \in Devices
  BY ListIs
<1>4. CASE /\ Head(dev[d].pend) = toggle /\ toggle' = toggle /\ refused' = refused
           /\ torn' = (torn \/ call.active)
           /\ \A x \in Devices : dev'[x].caps = dev[x].caps /\ dev'[x].exposed = dev[x].exposed
  <2>1. ASSUME ~torn', NEW x \in ToSet(textInEx) PROVE Settled(x, toggle)'
    <3>1. Settled(x, toggle) /\ x \in Devices
      BY <1>3, <1>4, <2>1 DEF Toggles
    <3>2. CASE x # d
      BY <1>2, <1>4, <3>1, <3>2 DEF Settled
    <3>3. CASE x = d
      <4>1. PICK p \in Seq(BOOLEAN) : p = dev[d].pend
        BY FieldsAre DEF Types
      <4>2. p # <<>> /\ Head(p) = toggle
        BY <1>1, <1>4, <4>1
      <4>3. Last(p) # toggle => Tail(p) # <<>> /\ Last(Tail(p)) = Last(p)
        <5>1. /\ Len(p) \in Nat /\ Head(p) = p[1] /\ Tail(p) \in Seq(BOOLEAN) /\ Len(Tail(p)) = Len(p) - 1
              /\ \A i \in 1..Len(Tail(p)) : Tail(p)[i] = p[i + 1]
          BY <4>2, TailIs
        <5>2. Last(p) # toggle => Len(p) # 1
          BY <4>2, <5>1 DEF Last
        <5>3. Len(p) # 0
          BY <4>2
        <5>4. Len(p) # 1 => Len(p) - 1 \in 1..Len(Tail(p)) /\ (Len(p) - 1) + 1 = Len(p)
          BY <5>1, <5>3
        <5>5. Len(p) # 1 => Tail(p)[Len(p) - 1] = p[Len(p)]
          BY <5>1, <5>4
        <5>6. Len(p) # 1 => Tail(p) # <<>>
          <6>1. PICK t \in Seq(BOOLEAN) : t = Tail(p)
            BY <5>1
          <6>2. t = <<>> => Len(t) = 0
            OBVIOUS
          <6>3. Len(p) # 1 => Len(t) # 0
            BY <5>1, <5>3, <6>1
          <6>. QED
            BY <6>1, <6>2, <6>3
        <5>. QED
          BY <5>1, <5>2, <5>5, <5>6 DEF Last
      <4>4. dev'[d].pend = Tail(p)
        BY <1>2, <4>1
      <4>. QED
        BY <1>4, <3>1, <3>3, <4>1, <4>3, <4>4 DEF Settled
    <3>. QED
      BY <3>2, <3>3
  <2>2. CASE call.active
    BY <1>4, <2>2 DEF Toggles
  <2>3. CASE ~call.active
    BY <1>1, <2>1, <2>3, IdleToggles
  <2>. QED
    BY <2>2, <2>3
<1>5. ASSUME torn' = call.active, NEW R, SetOn(R, toggle') PROVE Toggles'
  <2>1. \A x \in ToSet(textInEx) : Settled(x, toggle)'
    BY <1>3, <1>5 DEF SetOn, Settled
  <2>2. CASE call.active
    BY <1>5, <2>2 DEF Toggles
  <2>3. CASE ~call.active
    BY <1>1, <2>1, <2>3, IdleToggles
  <2>. QED
    BY <2>2, <2>3
<1>. QED
  BY <1>4, <1>5, NotificationIs

LEMMA TogglesSetting == ASSUME Types, Lists, Toggles, SetStateStep PROVE Toggles'
<1>1. /\ call.active /\ call.next \in 1..Len(textInEx) /\ call.next \in Nat
      /\ UNCHANGED <<textInEx, toggle>>
      /\ \A x \in Devices : dev'[x].pend = dev[x].pend
  BY SetStateStepIs, OtherFrames DEF lists
<1>2. CASE torn' = TRUE /\ call' = NoCall
  BY <1>2 DEF Toggles, NoCall
<1>3. CASE /\ call' = [call EXCEPT !.next = @ + 1] /\ torn' = torn
           /\ refused' = refused \ {textInEx[call.next]}
           /\ \A x \in Devices : x # textInEx[call.next] => dev'[x].caps = dev[x].caps /\ dev'[x].exposed = dev[x].exposed
           /\ dev'[textInEx[call.next]].caps = call.caps /\ dev'[textInEx[call.next]].exposed
  <2>1. call'.active /\ call'.caps = call.caps /\ call'.next = call.next + 1
    BY <1>1, <1>3 DEF Types, ToggleTypes, Calls
  <2>2. /\ DOMAIN textInEx = 1..Len(textInEx) /\ Len(textInEx) \in Nat
        /\ \A i \in DOMAIN textInEx : textInEx[i] \in Devices
    BY ListIs
  <2>3. \A i, j \in DOMAIN textInEx : textInEx[i] = textInEx[j] => i = j
    BY DEF Lists, IsInjective
  <2>4. ASSUME ~torn, NEW i \in DOMAIN textInEx, i < call.next + 1 PROVE Settled(textInEx[i], call.caps)'
    <3>1. CASE i = call.next
      BY <1>1, <1>3, <3>1 DEF Settled
    <3>2. CASE i # call.next
      <4>1. i < call.next
        BY <1>1, <2>2, <2>4, <3>2
      <4>2. Settled(textInEx[i], call.caps)
        BY <1>1, <2>4, <4>1 DEF Toggles
      <4>3. textInEx[i] # textInEx[call.next] /\ textInEx[i] \in Devices
        BY <1>1, <2>2, <2>3, <3>2
      <4>4. PICK x \in Devices : x = textInEx[i]
        BY <4>3
      <4>5. /\ dev'[x].pend = dev[x].pend /\ dev'[x].caps = dev[x].caps /\ dev'[x].exposed = dev[x].exposed
            /\ x \notin refused' => x \notin refused
        BY <1>1, <1>3, <4>3, <4>4
      <4>6. textInEx'[i] = x /\ call'.caps = call.caps
        BY <1>1, <2>1, <4>4
      <4>7. x \notin refused => dev[x].exposed /\ (dev[x].caps = call.caps \/ (dev[x].pend # <<>> /\ Last(dev[x].pend) = dev[x].caps))
        BY <4>2, <4>4 DEF Settled
      <4>8. x \notin refused' => dev'[x].exposed /\ (dev'[x].caps = call.caps \/ (dev'[x].pend # <<>> /\ Last(dev'[x].pend) = dev'[x].caps))
        BY <4>5, <4>7
      <4>. QED
        BY <4>6, <4>8 DEF Settled
    <3>. QED
      BY <3>1, <3>2
  <2>. QED
    BY <1>1, <1>3, <2>1, <2>4 DEF Toggles
<1>. QED
  BY <1>2, <1>3, SetStateStepIs

LEMMA TogglesSet == ASSUME Types, Toggles, SetStateDone PROVE Toggles'
<1>1. /\ call.active /\ call.next > Len(textInEx) /\ toggle' = call.caps /\ call' = NoCall
      /\ UNCHANGED <<textInEx, torn, dev, refused>>
  BY DEF SetStateDone, lists
<1>2. /\ DOMAIN textInEx = 1..Len(textInEx) /\ Len(textInEx) \in Nat
  BY ListIs
<1>3. call.next \in Nat
  BY DEF Types, ToggleTypes, Calls
<1>4. ~torn => \A i \in DOMAIN textInEx : Settled(textInEx[i], call.caps)
  BY <1>1, <1>2, <1>3 DEF Toggles
<1>5. ~torn => \A x \in ToSet(textInEx) : Settled(x, call.caps)
  BY <1>4 DEF ToSet
<1>6. ~torn' => \A x \in ToSet(textInEx') : Settled(x, toggle)'
  BY <1>1, <1>5 DEF Settled
<1>. QED
  BY <1>1, <1>6, IdleToggles DEF NoCall

LEMMA TogglesReset == ASSUME Types, NEW D \in SUBSET Devices, Reset(D), Toggles PROVE Toggles'
<1>1. Idle /\ UNCHANGED <<textInEx, call>>
  BY ResetIs, OtherFrames DEF lists
<1>2. CASE torn' = TRUE
  BY <1>1, <1>2, IdleToggles DEF Idle
<1>3. ASSUME torn' = FALSE,
             NEW R, R \in SUBSET ToSet(textInEx) /\ refused' = R
               /\ \A d \in Devices : d \in ToSet(textInEx) \ R => dev'[d].caps = toggle' /\ dev'[d].exposed
      PROVE Toggles'
  <2>1. \A x \in ToSet(textInEx) : Settled(x, toggle)'
    BY <1>3, ListIs DEF Settled
  <2>. QED
    BY <1>1, <2>1, IdleToggles DEF Idle
<1>. QED
  BY <1>2, <1>3, ResetIs

LEMMA TogglesStep ==
  ASSUME SplitterAssumption, Types, Lists, Room, KeyOrder, RegistrationOrder, Toggles, Next
  PROVE Toggles'
<1>1. UNCHANGED lists => textInEx' = textInEx
  BY DEF lists
<1>2. UNCHANGED toggles => UNCHANGED <<toggle, call, torn, refused>>
  BY DEF toggles
<1>3. TogglesStay /\ UNCHANGED lists /\ UNCHANGED toggles => Toggles'
  BY <1>1, <1>2, TogglesFrame
<1>4. ASSUME NEW d \in Devices, Start(d) PROVE Toggles'
  <2>1. CASE StartPlain(d)
    <3>1. dev' = [dev EXCEPT ![d] = Checked(@)] /\ UNCHANGED <<textInEx, toggle, call, torn, refused>>
      BY <2>1 DEF StartPlain, AddTextIn
    <3>. QED
      BY <3>1, PlainIs, TogglesFrame
  <2>2. CASE StartOutOfMemory(d)
    <3>1. UNCHANGED <<textInEx, toggles, dev>>
      BY <2>2 DEF StartOutOfMemory
    <3>. QED
      BY <1>2, <3>1, NothingChanges, TogglesFrame
  <2>3. CASE StartExOutOfMemory(d)
    <3>1. dev' = [dev EXCEPT ![d] = Checked(@)] /\ UNCHANGED <<textInEx, toggle, call, torn, refused>>
      BY <2>3 DEF StartExOutOfMemory, AddTextIn
    <3>. QED
      BY <3>1, PlainIs, TogglesFrame
  <2>4. CASE StartExRefused(d)
    <3>1. UNCHANGED <<textInEx, toggle, call, torn, refused>>
      BY <2>4 DEF StartExRefused, AddTextIn
    <3>. QED
      BY <2>4, <3>1, StartExRefusedIs, TogglesFrame
  <2>. QED
    BY <1>4, <2>1, <2>2, <2>3, <2>4, TogglesStarted DEF Start
<1>5. ASSUME NEW d \in Devices, Stop(d) PROVE Toggles'
  <2>1. UNCHANGED <<toggles, dev>> /\ Idle /\ ToSet(textInEx') \subseteq ToSet(textInEx)
    BY <1>5, StopIs DEF Stop
  <2>. QED
    BY <1>2, <2>1, NothingChanges, TogglesFrame DEF Idle
<1>6. ASSUME NEW d \in Devices, Press(d) \/ ToggleStateSyncKeyNotify(d) PROVE Toggles'
  BY <1>6, TogglesPressed, TogglesHeard DEF KeyOrder, RegistrationOrder
<1>7. ASSUME NEW r \in Requests, RegisterKeyNotify(r) \/ UnregisterKeyNotify(r) PROVE Toggles'
  <2>1. TogglesStay
    BY <1>7, RegisterKeyNotifyIs, UnregisterKeyNotifyIs
  <2>. QED
    BY <1>3, <1>7, <2>1, OtherFrames
<1>8. ASSUME NEW c \in BOOLEAN, NEW e \in BOOLEAN, SetState(c, e) PROVE Toggles'
  <2>1. call'.active /\ call'.next = 1 /\ textInEx' = textInEx
    BY <1>8 DEF SetState, lists
  <2>2. \A i \in DOMAIN textInEx : ~(i < 1)
    BY ListIs
  <2>. QED
    BY <2>1, <2>2 DEF Toggles
<1>9. ASSUME NEW D \in SUBSET Devices, Reset(D) PROVE Toggles'
  BY <1>9, TogglesReset
<1>10. CASE Read
  BY <1>3, <1>10, ReadIs, ReadFrame DEF KeyOrder
<1>11. ToSet(textIn) \in SUBSET Devices /\ ToSet(textInEx) \in SUBSET Devices
  BY ListIs
<1>. QED
  BY <1>4, <1>5, <1>6, <1>7, <1>8, <1>9, <1>10, <1>11, TogglesSetting, TogglesSet DEF Next

-----------------------------------------------------------------------------
(* No key is lost.                                                          *)

\* What NoKeyLost asks of a step that is no reset.
KeysServed ==
  \A d \in Devices : \A k \in Waiting(d) : k \in Waiting(d)' \/ last'[d] = k.n \/ k.partial

LEMMA ServedBy ==
  ASSUME \A d \in Devices : \A k \in ToSet(dev[d].keys) :
           Complete(k) => \/ k \in ToSet(dev'[d].keys) \/ last'[d] = k.n
                          \/ k \in ToSet(KeyQueue') /\ k.dev = d,
         \A k \in ToSet(KeyQueue) : Complete(k) => k \in ToSet(KeyQueue') \/ last'[k.dev] = k.n
  PROVE KeysServed
BY DEF KeysServed, Waiting, Complete

\* The keyboards keep the complete keys and the queue is as it was.
LEMMA ServedByKeyboards ==
  ASSUME KeyQueue' = KeyQueue,
         \A d \in Devices : \A k \in ToSet(dev[d].keys) : Complete(k) => k \in ToSet(dev'[d].keys)
  PROVE KeysServed
BY ServedBy

LEMMA ServedInPlace == ASSUME KeysStay, KeyQueue' = KeyQueue PROVE KeysServed
BY ServedByKeyboards DEF KeysStay

LEMMA ServedAttached == ASSUME Types, NEW d \in Devices, NEW regs, Attached(d, regs), KeyQueue' = KeyQueue PROVE KeysServed
<1>1. ASSUME NEW x \in Devices, NEW k \in ToSet(dev[x].keys), Complete(k) PROVE k \in ToSet(dev'[x].keys)
  <2>1. CASE x # d
    BY <1>1, <2>1 DEF Attached
  <2>2. CASE x = d
    <3>1. PICK ks \in Seq(Keys) : ks = dev[d].keys
      BY KeysTyped
    <3>2. PICK i \in DOMAIN ks : k = ks[i]
      BY <1>1, <2>2, <3>1 DEF ToSet
    <3>3. ks[i] \in ToSet(DropPartial(ks))
      BY <1>1, <3>2, DropIs
    <3>. QED
      BY <2>2, <3>1, <3>2, <3>3 DEF Attached
  <2>. QED
    BY <2>1, <2>2
<1>. QED
  BY <1>1, ServedByKeyboards

LEMMA ServedFromQueue == ASSUME Types, FromQueue PROVE KeysServed
<1>1. dev' = dev
  BY DEF FromQueue
<1>2. PICK ks \in Seq(Keys) :
        /\ KeepsFull(ks, KeyQueue) /\ ks # <<>> /\ KeyQueue' = Tail(ks) /\ Head(ks).dev \in Devices
        /\ last' = [last EXCEPT ![Head(ks).dev] = Head(ks).n]
  BY DEF FromQueue
<1>3. ToSet(ks) = {Head(ks)} \cup ToSet(KeyQueue') /\ last \in [Devices -> Nat]
  BY <1>2, TailIs, KeysTyped
<1>4. ASSUME NEW k \in ToSet(KeyQueue), Complete(k) PROVE k \in ToSet(KeyQueue') \/ last'[k.dev] = k.n
  <2>1. k \in ToSet(ks)
    BY <1>2, <1>4 DEF KeepsFull, ToSet
  <2>2. CASE k = Head(ks)
    BY <1>2, <1>3, <2>2
  <2>. QED
    BY <1>3, <2>1, <2>2
<1>. QED
  BY <1>1, <1>4, ServedBy

LEMMA ServedFromKeyboard ==
  ASSUME Types, FromKeyboard, KeyQueue' = KeyQueue \/ \A i \in DOMAIN KeyQueue : ~Complete(KeyQueue[i])
  PROVE KeysServed
<1>1. ASSUME NEW d \in Devices, NEW k \in ToSet(dev[d].keys), Complete(k)
      PROVE k \in ToSet(dev'[d].keys) \/ last'[d] = k.n
  <2>1. PICK ks \in Seq(Keys) : ks = dev[d].keys
    BY KeysTyped
  <2>2. PICK i \in DOMAIN ks : k = ks[i]
    BY <1>1, <2>1 DEF ToSet
  <2>3. CASE Passes(d)
    BY <1>1, <2>1, <2>2, <2>3 DEF Passes, KeepsFull
  <2>4. CASE Takes(d)
    <3>1. PICK left \in Seq(Keys) : left = DropPartial(ks) /\ k \in ToSet(left)
      BY <1>1, <2>2, DropIs
    <3>2. left # <<>> /\ dev'[d].keys = Tail(left) /\ last'[d] = Head(left).n
      BY <2>1, <2>4, <3>1 DEF Takes
    <3>3. ToSet(left) = {Head(left)} \cup ToSet(Tail(left))
      BY <3>2, TailIs
    <3>. QED
      BY <3>1, <3>2, <3>3
  <2>. QED
    BY <2>3, <2>4 DEF FromKeyboard
<1>2. \A k \in ToSet(KeyQueue) : Complete(k) => k \in ToSet(KeyQueue')
  BY DEF ToSet
<1>. QED
  BY <1>1, <1>2, ServedBy

LEMMA ServedSaves == ASSUME Types, Lists, KeyNumbers, Saves PROVE KeysServed
<1>1. KeyQueue = <<>>
  BY DEF Saves
<1>2. PICK D \in SUBSET ToSet(textInEx) :
        /\ \A d \in D : dev[d].keys # <<>>
        /\ \A d \in Devices : dev'[d].keys = IF d \in D THEN Tail(dev[d].keys) ELSE dev[d].keys
        /\ IF Saved(D) = <<>> THEN last' = last /\ KeyQueue' = KeyQueue
           ELSE last' = [last EXCEPT ![Saved(D)[1].dev] = Saved(D)[1].n] /\ KeyQueue' = Tail(Saved(D))
  BY DEF Saves
<1>3. PICK ks \in Seq(Keys) : ks = Saved(D) /\ SavedFrom(ks, D, Len(textInEx))
  BY <1>2, SavedKeys
<1>4. ASSUME NEW d \in Devices, NEW k \in ToSet(dev[d].keys), Complete(k)
      PROVE k \in ToSet(dev'[d].keys) \/ last'[d] = k.n \/ (k \in ToSet(KeyQueue') /\ k.dev = d)
  <2>1. PICK own \in Seq(Keys) : own = dev[d].keys
    BY KeysTyped
  <2>2. k.dev = d
    <3>1. PICK i \in DOMAIN own : k = own[i]
      BY <1>4, <2>1 DEF ToSet
    <3>. QED
      BY <2>1, <3>1 DEF KeyNumbers
  <2>3. CASE d \notin D
    BY <1>2, <1>4, <2>3
  <2>4. CASE d \in D
    <3>1. ToSet(own) = {Head(own)} \cup ToSet(Tail(own))
      BY <1>2, <2>1, <2>4, TailIs
    <3>2. CASE k \in ToSet(Tail(own))
      BY <1>2, <2>1, <2>4, <3>2
    <3>3. CASE k = Head(own)
      <4>1. PICK x \in 1..Len(textInEx) : textInEx[x] = d
        BY <2>4, ListIs DEF ToSet
      <4>2. PICK i \in 1..Len(ks) : ks[i] = k
        BY <1>3, <1>4, <2>1, <2>4, <3>3, <4>1 DEF SavedFrom
      <4>3. ks # <<>>
        BY <4>2
      <4>4. last' = [last EXCEPT ![ks[1].dev] = ks[1].n] /\ KeyQueue' = Tail(ks)
        BY <1>2, <1>3, <4>3
      <4>5. ToSet(ks) = {Head(ks)} \cup ToSet(Tail(ks)) /\ Head(ks) = ks[1]
        BY <4>3, TailIs
      <4>6. k \in ToSet(ks)
        BY <4>2 DEF ToSet
      <4>7. CASE k = ks[1]
        <5>1. last \in [Devices -> Nat]
          BY KeysTyped
        <5>. QED
          BY <2>2, <4>4, <4>7, <5>1
      <4>. QED
        BY <2>2, <4>4, <4>5, <4>6, <4>7
    <3>. QED
      BY <1>4, <2>1, <3>1, <3>2, <3>3
  <2>. QED
    BY <2>3, <2>4
<1>5. ToSet(KeyQueue) = {}
  BY <1>1 DEF ToSet
<1>. QED
  BY <1>4, <1>5, ServedBy

LEMMA ServedPressed == ASSUME SplitterAssumption, Types, KeyNumbers, NEW d \in Devices, Press(d) PROVE KeysServed
<1>1. KeyQueue' = KeyQueue
  BY OtherFrames
<1>2. ASSUME NEW x \in Devices PROVE ToSet(dev[x].keys) \subseteq ToSet(dev'[x].keys)
  <2>1. CASE x # d
    BY <2>1, PressIs
  <2>2. CASE x = d
    <3>1. CASE dev'[d].keys = dev[d].keys
      BY <2>2, <3>1
    <3>2. ASSUME NEW k \in Keys, dev'[d].keys = Append(dev[d].keys, k) PROVE ToSet(dev[d].keys) \subseteq ToSet(dev'[d].keys)
      <4>1. PICK ks \in Seq(Keys) : ks = dev[d].keys
        BY KeysTyped
      <4>2. PICK t : t = Append(ks, k)
        OBVIOUS
      <4>3. ToSet(t) = ToSet(ks) \cup {k}
        BY ONLY <4>2, AppendIs
      <4>. QED
        BY <3>2, <4>1, <4>2, <4>3
    <3>. QED
      BY <2>2, <3>1, <3>2, PressIs
  <2>. QED
    BY <2>1, <2>2
<1>. QED
  BY <1>1, <1>2, ServedByKeyboards

LEMMA ServedStep ==
  ASSUME SplitterAssumption, Types, Lists, Room, KeyNumbers, Next
  PROVE KeysServed \/ Reset(ToSet(textIn)) \/ Reset(ToSet(textInEx))
<1>1. ASSUME NEW d \in Devices, Start(d) PROVE KeysServed
  <2>1. KeyQueue' = KeyQueue
    BY <1>1 DEF Start, StartPlain, StartOutOfMemory, StartExOutOfMemory, StartExRefused, StartEx, AddTextIn, keys
  <2>2. CASE StartPlain(d) \/ StartExOutOfMemory(d)
    BY <2>1, <2>2, PlainIs, ServedAttached DEF StartPlain, StartExOutOfMemory
  <2>3. CASE StartOutOfMemory(d)
    BY <2>1, <2>3, NothingChanges, ServedInPlace DEF StartOutOfMemory
  <2>4. CASE StartExRefused(d)
    BY <2>1, <2>4, StartExRefusedIs, ServedAttached
  <2>5. CASE StartEx(d)
    BY <2>1, <2>5, StartExIs, ServedAttached
  <2>. QED
    BY <1>1, <2>2, <2>3, <2>4, <2>5 DEF Start
<1>2. ASSUME NEW d \in Devices, Stop(d) PROVE KeysServed
  <2>1. UNCHANGED <<KeyQueue, dev>>
    BY <1>2 DEF Stop, keys
  <2>. QED
    BY <2>1, NothingChanges, ServedInPlace
<1>3. ASSUME NEW d \in Devices, ToggleStateSyncKeyNotify(d) PROVE KeysServed
  BY <1>3, NotificationIs, OtherFrames, ServedInPlace DEF keys
<1>4. ASSUME NEW r \in Requests, RegisterKeyNotify(r) \/ UnregisterKeyNotify(r) PROVE KeysServed
  <2>1. KeyQueue' = KeyQueue
    BY <1>4, OtherFrames DEF keys
  <2>. QED
    BY <1>4, <2>1, RegisterKeyNotifyIs, UnregisterKeyNotifyIs, ServedInPlace
<1>5. ASSUME (\E c, e \in BOOLEAN : SetState(c, e)) \/ SetStateStep \/ SetStateDone PROVE KeysServed
  <2>1. KeyQueue' = KeyQueue
    BY <1>5, OtherFrames DEF keys
  <2>2. (\E c, e \in BOOLEAN : SetState(c, e)) \/ SetStateDone => dev' = dev
    BY OtherFrames
  <2>3. KeysStay
    BY <1>5, <2>2, SetStateStepIs, NothingChanges
  <2>. QED
    BY <2>1, <2>3, ServedInPlace
<1>6. CASE Read
  <2>1. CASE ReadKeyStroke
    BY <2>1, ReadKeyStrokeIs, ServedFromQueue, ServedFromKeyboard
  <2>2. CASE ReadKeyStrokeEx
    BY <2>2, ReadKeyStrokeExIs, ServedFromQueue, ServedSaves
  <2>3. CASE WaitForKey
    BY <2>3, WaitForKeyIs, ServedFromKeyboard
  <2>. QED
    BY <1>6, <2>1, <2>2, <2>3 DEF Read
<1>. QED
  BY <1>1, <1>2, <1>3, <1>4, <1>5, <1>6, ServedPressed DEF Next

-----------------------------------------------------------------------------
(* The inductive invariant.                                                 *)

LEMMA StartsTyped == ASSUME SplitterAssumption, Init PROVE Types /\ Lists /\ Room
<1>1. /\ AllocUnit \in Nat /\ AllocUnit >= 1 /\ MaxPresses \in Nat
  BY DEF SplitterAssumption
<1>2. PICK h : h = [i \in 1..AllocUnit |-> NoHandle]
  OBVIOUS
<1>3. h \in Seq(Handles) /\ Len(h) = AllocUnit
  BY <1>1, <1>2, RegistrationsAre
<1>4. PICK e : e = [reg |-> ToggleSync, handles |-> h]
  OBVIOUS
<1>5. e \in Entry /\ e.handles = h
  BY <1>3, <1>4, RegistrationsAre DEF Entry
<1>6. NotifyList = <<e>>
  BY <1>2, <1>4 DEF Init
<1>7. NotifyList \in Seq(Entry) /\ \A i \in DOMAIN NotifyList : NotifyList[i] = e
  BY <1>5, <1>6
<1>8. ListTypes
  BY <1>1, <1>7 DEF Init, ListTypes, SplitterAssumption
<1>9. KeyTypes
  <2>1. KeyQueue = <<>> /\ KeyEventSignalState = FALSE /\ last = [d \in Devices |-> 0] /\ pressed = 0
    BY DEF Init
  <2>2. last \in [Devices -> Nat]
    BY <2>1
  <2>3. pressed \in 0..MaxPresses
    BY <1>1, <2>1
  <2>4. KeyQueue \in Seq(Keys)
    BY <2>1
  <2>5. KeyEventSignalState \in BOOLEAN
    BY <2>1
  <2>. QED
    BY <2>2, <2>3, <2>4, <2>5 DEF KeyTypes
<1>10. ToggleTypes
  <2>1. NoCall \in Calls
    BY DEF NoCall, Calls
  <2>2. toggle = FALSE /\ exported = FALSE /\ call = NoCall /\ calls = 0 /\ removed = {} /\ shifted = FALSE /\ refused = {} /\ torn = FALSE
    BY DEF Init
  <2>. QED
    BY <2>1, <2>2 DEF ToggleTypes
<1>11. dev \in [Devices -> DeviceState]
  <2>1. PICK k : k = [keys |-> <<>>, n |-> 0, caps |-> FALSE, exposed |-> FALSE, regs |-> {}, pend |-> <<>>]
    OBVIOUS
  <2>2. k \in DeviceState
    BY <1>1, <2>1 DEF DeviceState
  <2>3. dev = [d \in Devices |-> k]
    BY <2>1 DEF Init
  <2>. QED
    BY <2>2, <2>3
<1>12. Lists
  <2>1. textIn = <<>> /\ textInEx = <<>> /\ opened = {}
    BY DEF Init
  <2>2. IsInjective(<<>>) /\ ToSet(<<>>) = {}
    BY DEF IsInjective, ToSet
  <2>. QED
    BY <2>1, <2>2 DEF Lists
<1>13. Room
  <2>1. Len(textIn) = 0 /\ Len(textInEx) = 0 /\ Len(KeyQueue) = 0 /\ exCount = AllocUnit /\ textInCount = AllocUnit /\ queueSize = AllocUnit
    BY DEF Init
  <2>. QED
    BY <1>1, <1>3, <1>5, <1>7, <2>1 DEF Room
<1>. QED
  BY <1>8, <1>9, <1>10, <1>11, <1>12, <1>13 DEF Types

LEMMA StartsOrdered == ASSUME SplitterAssumption, Init PROVE KeyOrder /\ RegistrationOrder /\ Toggles
<1>1. /\ textInEx = <<>> /\ KeyQueue = <<>> /\ pressed = 0 /\ ~shifted /\ ~call.active
      /\ NotifyList = <<[reg |-> ToggleSync, handles |-> [i \in 1..AllocUnit |-> NoHandle]]>>
  BY DEF Init, NoCall
<1>2. \A d \in Devices : dev[d].keys = <<>> /\ dev[d].n = 0 /\ dev[d].regs = {} /\ last[d] = 0
  BY DEF Init
<1>3. ToSet(textInEx) = {} /\ DOMAIN textInEx = {} /\ DOMAIN KeyQueue = {}
  BY <1>1 DEF ToSet
<1>4. KeyOrder
  <2>1. \A d \in Devices : DOMAIN dev[d].keys = {}
    BY <1>2
  <2>. QED
    BY <1>1, <1>2, <1>3, <2>1 DEF KeyOrder, KeyNumbers, KeysInOrder
<1>5. Apart(NotifyList)
  <2>1. DOMAIN NotifyList = {1} /\ NotifyList[1].reg = ToggleSync /\ NotifyList[1].handles = [i \in 1..AllocUnit |-> NoHandle]
    BY <1>1
  <2>2. \A j \in DOMAIN NotifyList[1].handles : NotifyList[1].handles[j] = NoHandle
    BY <2>1
  <2>. QED
    BY <2>1, <2>2 DEF Apart
<1>6. RegistrationOrder
  <2>1. ex \subseteq Devices
    BY DEF Init, SplitterAssumption
  <2>2. Entries
    BY <1>3, <1>5 DEF Entries
  <2>3. HandlesInPlace
    BY <1>3 DEF HandlesInPlace
  <2>4. RegistrationsAgree
    BY <1>2, <1>3, <2>1 DEF RegistrationsAgree
  <2>. QED
    BY <2>2, <2>3, <2>4 DEF RegistrationOrder
<1>7. Toggles
  BY <1>1, <1>3 DEF Toggles
<1>. QED
  BY <1>4, <1>6, <1>7

LEMMA Stutters == ASSUME SplitterAssumption, IInv, UNCHANGED vars PROVE IInv'
<1>1. UNCHANGED <<lists, NotifyList, keys, toggles, dev, calls, gone>>
  BY DEF vars
<1>2. UNCHANGED <<ex, textInEx, queueSize>> /\ UNCHANGED <<KeyQueue, pressed, last>>
      /\ UNCHANGED <<toggle, call, torn, refused>> /\ UNCHANGED <<removed, shifted>>
  BY <1>1 DEF lists, keys, toggles, gone
<1>3. KeysStay /\ RegsStay /\ TogglesStay /\ dev' \in [Devices -> DeviceState] /\ KeysGo
  BY <1>1, NothingChanges, StayGo DEF IInv
<1>4. ListTypes' /\ Lists' /\ Room'
  <2>1. Len(KeyQueue') <= queueSize
    BY <1>2 DEF IInv, Room
  <2>. QED
    BY <1>1, <2>1, ListsSame DEF IInv
<1>5. Types'
  <2>1. calls' \in Nat
    BY <1>1 DEF IInv, Types, ToggleTypes
  <2>. QED
    BY <1>1, <1>3, <1>4, <2>1, KeysSame, TogglesSame DEF IInv, Types
<1>6. KeyOrder'
  <2>1. KeyQueue \in Seq(Keys) /\ Suffix(KeyQueue, KeyQueue)
    BY NumbersTyped, SuffixSelf DEF IInv
  <2>. QED
    BY <1>2, <1>3, <1>5, <2>1, KeyOrderLeft DEF IInv
<1>7. RegistrationOrder'
  BY <1>1, <1>2, <1>3, RegistrationsSame DEF IInv
<1>8. Toggles'
  BY <1>2, <1>3, TogglesFrame DEF IInv
<1>. QED
  BY <1>4, <1>5, <1>6, <1>7, <1>8 DEF IInv

LEMMA Preserved == ASSUME SplitterAssumption, IInv, [Next]_vars PROVE IInv'
<1>1. CASE Next
  <2>1. Types' /\ Lists' /\ Room'
    BY <1>1, TypesStep DEF IInv, KeyOrder
  <2>2. KeyOrder'
    BY <1>1, <2>1, KeyOrderStep DEF IInv
  <2>3. RegistrationOrder' /\ Toggles'
    BY <1>1, RegistrationStep, TogglesStep DEF IInv
  <2>. QED
    BY <2>1, <2>2, <2>3 DEF IInv
<1>. QED
  BY <1>1, Stutters

\* The splitter's input in every state it reaches: its lists name keyboards it
\* holds, once each; its buffers are at least as long as its list of extended
\* keyboards; the keys that wait are ordered; each keyboard has the registrations
\* of NotifyList; and a keyboard whose state is not the one recorded is about to
\* report it.
THEOREM SplitterInvariant == Spec => []IInv
<1>1. Init => IInv
  BY SplitterAssumption, StartsTyped, StartsOrdered DEF IInv
<1>2. IInv /\ [Next]_vars => IInv'
  BY SplitterAssumption, Preserved
<1>. QED
  BY <1>1, <1>2, PTL DEF Spec

LEMMA HoldsTypes == ASSUME IInv PROVE TypeOK
<1>1. Types /\ Lists
  BY DEF IInv
<1>2. ToSet(KeyQueue) \subseteq Keys
  BY <1>1, KeysTyped, KeySeq DEF ToSet
<1>3. ASSUME NEW d \in Devices PROVE dev[d].regs \subseteq Registrations /\ ToSet(dev[d].keys) \subseteq Keys
  <2>1. dev[d].regs \in SUBSET Registrations /\ dev[d].keys \in Seq(Keys)
    BY <1>1, FieldsAre DEF Types
  <2>. QED
    BY <2>1, KeySeq DEF ToSet
<1>4. \A i \in DOMAIN NotifyList : NotifyList[i].reg \in Registrations
  BY <1>1, ListOfEntries
<1>. QED
  BY <1>1, <1>2, <1>3, <1>4 DEF TypeOK, Types, ListTypes, KeyTypes, ToggleTypes, Lists, Calls

LEMMA HoldsRoom == ASSUME SplitterAssumption, IInv PROVE BuffersFit
<1>1. Types /\ Room
  BY DEF IInv
<1>2. exCount \in Nat /\ queueSize \in Nat /\ AllocUnit \in Nat /\ Len(textInEx) \in Nat
  BY <1>1, ListIs DEF Types, ListTypes, SplitterAssumption
<1>3. exCount <= queueSize
  BY <1>1, <1>2 DEF Room
<1>4. ASSUME NEW i \in DOMAIN NotifyList PROVE Len(textInEx) <= Len(NotifyList[i].handles)
  <2>1. Len(NotifyList[i].handles) \in Nat /\ exCount <= Len(NotifyList[i].handles) /\ Len(textInEx) <= exCount
    BY <1>1, ListOfEntries DEF Room
  <2>. QED
    BY <1>2, <2>1
<1>. QED
  BY <1>1, <1>3, <1>4 DEF BuffersFit, Room

LEMMA HoldsAgreement == ASSUME IInv PROVE KeyboardsAgree
<1>1. ASSUME Idle, ~torn, \A d \in Devices : dev[d].pend = <<>>, NEW d \in ToSet(textInEx) \ refused
      PROVE dev[d].caps = toggle /\ dev[d].exposed
  <2>1. Settled(d, toggle) /\ d \in Devices
    BY <1>1, ListIs DEF IInv, Toggles, Idle
  <2>. QED
    BY <1>1, <2>1 DEF Settled
<1>. QED
  BY <1>1 DEF KeyboardsAgree, TogglesAgree, IInv, RegistrationOrder

\* No list of the splitter is ever written beyond its size, even when memory runs
\* out between enlarging two of them, and the keys of a keyboard are returned in
\* the order of the presses and none twice, whichever protocol reads them.
THEOREM KeysAreKept == Spec => []KeysKept
<1>1. IInv => KeysKept
  BY SplitterAssumption, HoldsTypes, HoldsRoom DEF KeysKept, IInv, KeyOrder
<1>. QED
  BY <1>1, SplitterInvariant, PTL

\* Until a keyboard other than the last is removed, each keyboard has exactly the
\* registrations of the clients, also after one was refused half way; and each
\* has the toggle state recorded, once no notification is under way.
THEOREM KeyboardsAreTrue == Spec => []KeyboardsAgree
<1>1. IInv => KeyboardsAgree
  BY HoldsAgreement
<1>. QED
  BY <1>1, SplitterInvariant, PTL

\* A complete key that waits, on a keyboard or in KeyQueue, is lost by no step
\* but a reset: it goes on waiting or is the one returned.
THEOREM NoKeyIsLost == Spec => NoKeyLost
<1>. DEFINE Safe == \A d \in Devices : \A k \in Waiting(d) :
                      \/ k \in Waiting(d)' \/ last'[d] = k.n \/ k.partial
                      \/ Reset(ToSet(textIn)) \/ Reset(ToSet(textInEx))
<1>1. IInv /\ [Next]_vars => [Safe]_vars
  <2>. SUFFICES ASSUME IInv, Next PROVE Safe
    OBVIOUS
  <2>1. KeysServed \/ Reset(ToSet(textIn)) \/ Reset(ToSet(textInEx))
    BY SplitterAssumption, ServedStep DEF IInv, KeyOrder
  <2>. QED
    BY <2>1 DEF KeysServed
<1>2. NoKeyLost <=> [][Safe]_vars
  BY DEF NoKeyLost
<1>. HIDE DEF Safe
<1>. QED
  BY <1>1, <1>2, SplitterInvariant, PTL DEF Spec
=============================================================================
