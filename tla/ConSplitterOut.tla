--------------------------- MODULE ConSplitterOut --------------------------
(***************************************************************************)
(* The virtual ConOut and StdErr of the console splitter (ConSplitterDxe): *)
(* each offers the text modes that all of its consoles have, under numbers *)
(* of its own that a map translates into each console's.  The map is a     *)
(* flat array of rows as long as the list of consoles has room.  ConOut    *)
(* also joins the displays of its consoles into one Graphics Output.       *)
(*                                                                         *)
(* A console may belong to both.  The consoles are external: they have     *)
(* fixed tables of modes and may refuse a mode other than the first.       *)
(***************************************************************************)
EXTENDS Integers, SequencesExt

CONSTANTS
  Consoles,
  Kinds,          \* what a console may be: its text modes and the modes of its display
  UserModes,      \* what PcdConOutColumn and PcdConOutRow may be at first
  AllocUnit,      \* CONSOLE_SPLITTER_ALLOC_UNIT, 32
  Refuses,        \* a console may refuse a mode
  MaxCalls        \* bound on the calls of a behaviour

Base == <<40, 12>>      \* mode 0 of every console
Zero == <<0, 0>>        \* an unsupported mode 1, and the PCDs when the user chose nothing
Default == <<800, 600>>

ASSUME OutAssumption ==
  /\ \A k \in Kinds :
       /\ Len(k.text) >= 2 /\ k.text[1] = Base
       /\ IsInjective(k.text) /\ IsInjective(k.gop)
       /\ \A i \in DOMAIN k.text : k.text[i] = Zero => i = 2
  /\ AllocUnit \in Nat \ {0} /\ Refuses \in BOOLEAN /\ MaxCalls \in Nat

Splitters == {"ConOut", "StdErr"}

VARIABLES
  kind,           \* the consoles
  out,            \* mConOut, mStdErr: TextOutList, TextOutListCount, TextOutQueryData,
                  \* TextOutModeMap, TextOutMode.MaxMode and .Mode
  text, screen,   \* the text mode and the display mode of each console
  gop,            \* mConOut's GraphicsOutput
  pcd,            \* PcdConOutColumn and PcdConOutRow
  torn,           \* splitters with consoles that were moved or refused, or one removed
  calls

vars == <<kind, out, text, screen, gop, pcd, torn, calls>>

Text(d) == kind[d].text
Gop(d) == kind[d].gop
On(s) == ToSet(out[s].list)
Row(o, i) == (i - 1) \div o.room
Col(o, i) == (i - 1) % o.room
Cell(o, row, col) == o.map[row * o.room + col + 1]
Modes(o) == 0..(o.max - 1)

\* ConSplitterTextOutQueryMode
Geometry(o, m) == o.query[Cell(o, m, 0) + 1]

-----------------------------------------------------------------------------
(* The map of modes *)

OldStep(o) == o.room - AllocUnit

\* ConSplitterGrowMapTable
GrowMapTable(o) ==
  [o EXCEPT !.map = [i \in 1..(o.room * Len(o.query)) |->
     IF o.map # <<>> /\ Row(o, i) < o.max /\ Col(o, i) < Len(o.list)
     THEN o.map[Row(o, i) * OldStep(o) + Col(o, i) + 1] ELSE -1]]

SetColumn(o, col, modes) ==
  [o EXCEPT !.map = [i \in DOMAIN o.map |->
     IF Col(o, i) = col /\ Row(o, i) \in DOMAIN modes THEN modes[Row(o, i)] ELSE o.map[i]]]

\* ConSplitterAddOutputMode: the modes of the first console.
Grown(n, max) == Min({n + k * AllocUnit : k \in {j \in 0..max : n + j * AllocUnit >= max}})

AddOutputMode(o, d) ==
  LET max == Len(Text(d))
      query == [i \in 1..Grown(Len(o.query), max) |->
                  IF i <= max THEN Text(d)[i] ELSE IF i <= Len(o.query) THEN o.query[i] ELSE Zero]
  IN  SetColumn(GrowMapTable([o EXCEPT !.max = max, !.query = query]), 0, [m \in 0..(max - 1) |-> m])

\* ConSplitterGetIntersection: the rows of the modes in gone are closed up.
ModeAfterMutant(mode, gone) == IF mode \in gone THEN -1 ELSE mode   \* its number is kept
ModeAfter(mode, gone) ==
  IF mode \in gone THEN -1 ELSE mode - Cardinality({m \in gone : m < mode})

ClosedUpMutant(kept, row) == row               \* the rows stay where they are
ClosedUp(kept, row) == kept[row + 1]

GetIntersection(o, gone) ==
  LET kept == SetToSortSeq(Modes(o) \ gone, <)
  IN  [o EXCEPT !.max = Len(kept), !.mode = ModeAfter(@, gone),
         !.map = [i \in DOMAIN o.map |->
           IF Row(o, i) < Len(kept) THEN Cell(o, ClosedUp(kept, Row(o, i)), Col(o, i)) ELSE o.map[i]]]

\* ConSplitterSyncOutputMode: a further console, in column col.  A mode it does not
\* have is dropped, unless it is 0 or 1; mode 1 is marked as unsupported.
SyncOutputMode(o, d, col) ==
  LET lacks == Text(d)[2] = Zero
      marked == IF lacks THEN [o EXCEPT !.query[2] = Zero] ELSE o
      has == [m \in {n \in Modes(o) : Geometry(marked, n) # Zero /\ Geometry(marked, n) \in ToSet(Text(d))} |->
                SelectInSeq(Text(d), LAMBDA g : g = Geometry(marked, m)) - 1]
      filled == SetColumn(marked, col, IF lacks THEN has @@ (1 :> 1) ELSE has)
  IN  GetIntersection(filled, {m \in Modes(o) \ {0, 1} : Cell(filled, m, col) = -1})

-----------------------------------------------------------------------------
(* Modes of both splitters.  y holds out, text and torn on the way through *)
(* a call.                                                                 *)

Now == [out |-> out, text |-> text, torn |-> torn]
Sharing(y, s) == {t \in Splitters \ {s} : ToSet(y.out[t].list) \cap ToSet(y.out[s].list) # {}}

\* ConSplitterTextOutSetMode, the consoles in R refusing; the current mode is only cleared.
SetTextMode(y, s, m, R) ==
  LET o == y.out[s]
      Mode(d) == Cell(o, m, SelectInSeq(o.list, LAMBDA x : x = d) - 1)
      Takes(d) == d \notin R /\ Mode(d) # -1 /\ Text(d)[Mode(d) + 1] # Zero
      moved == {d \in ToSet(o.list) : Takes(d)}
  IN  IF o.mode = m THEN y
      ELSE [out |-> [y.out EXCEPT ![s].mode = m],
            text |-> [d \in Consoles |-> IF d \in moved THEN Mode(d) ELSE y.text[d]],
            torn |-> y.torn \cup Sharing(y, s) \cup (IF moved = ToSet(o.list) THEN {} ELSE {s})]

\* ConSplitterGetIntersectionBetweenConOutAndStrErr.  StdErrTextOutList is not set
\* back after the first console of ConOut, so that later ones are compared with
\* whatever lies behind StdErr's list.
Shared(y) ==
  LET a == y.out["ConOut"].list
      b == y.out["StdErr"].list
  IN  IF a = <<>> \/ b = <<>> THEN {FALSE}
      ELSE IF a[1] \in ToSet(b) THEN {TRUE}
      ELSE IF Len(a) > 1 THEN BOOLEAN ELSE {FALSE}

Lacking(o, other) == {m \in Modes(o) \ {0, 1} : \A n \in Modes(other) : Geometry(other, n) # Geometry(o, m)}

Reduce(y, s, gone) ==
  LET z == [y EXCEPT !.out[s] = GetIntersection(@, gone)]
  IN  IF z.out[s].mode < 0 THEN SetTextMode(z, s, 0, {}) ELSE z

Intersect(y) ==
  LET a == y.out["ConOut"]
      b == y.out["StdErr"]
  IN  Reduce(Reduce(y, "ConOut", Lacking(a, b)), "StdErr", Lacking(b, a))

\* ConsplitterSetConsoleOutMode: the user's mode, or the highest; mode 0 if there
\* is none or a console refuses it.
Higher(o, m, best) ==
  LET size == IF best = -1 THEN Zero ELSE Geometry(o, best)
  IN  Geometry(o, m) # Zero /\ Geometry(o, m)[1] >= size[1] /\ Geometry(o, m)[2] >= size[2]

Highest(o) == FoldLeft(LAMBDA best, m : IF Higher(o, m, best) THEN m ELSE best, -1, [i \in 1..o.max |-> i - 1])

PreferMode(o) ==
  IF pcd = Zero THEN Highest(o)
  ELSE IF \E m \in Modes(o) : Geometry(o, m) = pcd
       THEN CHOOSE m \in Modes(o) : Geometry(o, m) = pcd ELSE -1

SetConsoleOutMode(y, s, R) ==
  LET m == PreferMode(y.out[s])
      fails == m = -1 \/ R # {}
      tried == IF m = -1 THEN y ELSE SetTextMode(y, s, m, R)
      done == IF fails THEN SetTextMode(tried, s, 0, {}) ELSE tried
  IN  /\ R # {} => Refuses /\ m > 0
      /\ out' = done.out /\ text' = done.text /\ torn' = done.torn \ {s}
      /\ pcd' = IF fails THEN Base ELSE pcd

-----------------------------------------------------------------------------
(* ConOut's Graphics Output *)

Unset == 65535
Displays(list) == {d \in ToSet(list) : Gop(d) # <<>>}
Position(seq, x) == SelectInSeq(seq, LAMBDA y : y = x) - 1
Shown(d) == Gop(d)[screen[d] + 1]

AllTo(D, r) == [d \in Consoles |-> IF d \in D THEN Position(Gop(d), r) ELSE screen[d]]
MovedMutant(list, d) == {d}                    \* only the new display is set
Moved(list, d) == Displays(list) \cup {d}

\* ConSplitterAddGraphicsOutputMode and the installation of the protocol.  Of no
\* common mode nothing is set, and what is in the buffer decides on the number.
AddGraphicsOutputMode(d) ==
  LET first == gop.count = 0
      modes == IF first THEN Gop(d) ELSE SelectSeq(gop.modes, LAMBDA r : r \in ToSet(Gop(d)))
      info == IF first THEN Shown(d) ELSE gop.info
      best == IF Shown(d) \in ToSet(modes) THEN Shown(d)
              ELSE IF Default \in ToSet(modes) THEN Default ELSE modes[1]
      added == [count |-> gop.count + 1, modes |-> modes, mode |-> gop.mode,
                info |-> info, installed |-> gop.installed \/ first]
  IN  IF modes = <<>>
      THEN \E n \in {0, Unset} :
             /\ gop' = [added EXCEPT !.mode = n]
             /\ screen' = IF n = 0 /\ info \in ToSet(Gop(d)) THEN AllTo({d}, info) ELSE screen
      ELSE /\ gop' = [added EXCEPT !.mode = Position(modes, best), !.info = best]
           /\ screen' = AllTo(IF best = info THEN {d} ELSE Moved(out["ConOut"].list, d), best)

RemoveDisplay(d) ==
  IF Gop(d) = <<>> THEN UNCHANGED gop
  ELSE gop' = [gop EXCEPT !.count = @ - 1, !.installed = gop.count > 1]

-----------------------------------------------------------------------------
(* Start and Stop of a console *)

Call == calls < MaxCalls /\ calls' = calls + 1 /\ UNCHANGED kind

\* ConSplitterTextOutAddDevice up to the intersection.  The list and the map grow together.
AddDevice(o, d) ==
  LET roomy == IF Len(o.list) >= o.room THEN GrowMapTable([o EXCEPT !.room = @ + AllocUnit]) ELSE o
      fresh == [roomy EXCEPT !.mode = 255]
      merged == IF o.list = <<>> THEN AddOutputMode(fresh, d)
                ELSE SyncOutputMode(fresh, d, Len(o.list))
  IN  [merged EXCEPT !.list = Append(@, d)]

\* ConSplitterConOutDriverBindingStart, ConSplitterStdErrDriverBindingStart
Start(s, d) ==
  /\ Call /\ d \notin On(s)
  /\ LET y == [Now EXCEPT !.out[s] = AddDevice(@, d)]
     IN \E shared \in Shared(y), R \in SUBSET (On(s) \cup {d}) :
          SetConsoleOutMode(IF shared THEN Intersect(y) ELSE y, s, R)
  /\ IF s = "ConOut" /\ Gop(d) # <<>> THEN AddGraphicsOutputMode(d) ELSE UNCHANGED <<gop, screen>>

\* ConSplitterTextOutDeleteDevice: the map is built anew from the consoles left.
DeleteDevice(o, d) ==
  LET left == SelectSeq(o.list, LAMBDA x : x # d)
      cleared == [o EXCEPT !.query = [i \in DOMAIN @ |-> Zero], !.map = <<>>, !.list = left]
  IN  IF left = <<>>
      THEN [o EXCEPT !.list = <<>>, !.max = 1, !.query[1] = Base, !.mode = 0]
      ELSE FoldLeft(LAMBDA acc, i : SyncOutputMode(acc, left[i], i - 1),
                    AddOutputMode(cleared, left[1]), [i \in 1..(Len(left) - 1) |-> i + 1])

\* ConSplitterConOutDriverBindingStop, ConSplitterStdErrDriverBindingStop
Stop(s, d) ==
  /\ Call /\ d \in On(s)
  /\ LET y == [Now EXCEPT !.out[s] = DeleteDevice(@, d), !.torn = @ \cup {s}]
     IN \E shared \in IF y.out[s].list = <<>> THEN {FALSE} ELSE Shared(y) :
          LET z == IF shared THEN Intersect(y) ELSE y
          IN  out' = z.out /\ text' = z.text /\ torn' = z.torn
  /\ IF s = "ConOut" THEN RemoveDisplay(d) ELSE UNCHANGED gop
  /\ UNCHANGED <<screen, pcd>>

-----------------------------------------------------------------------------
(* Clients *)

SetMode(s, m) ==
  /\ Call /\ out[s].list # <<>> /\ m \in Modes(out[s])
  /\ \E R \in SUBSET On(s) :
       /\ R # {} => Refuses /\ m > 0
       /\ LET y == SetTextMode(Now, s, m, R) IN out' = y.out /\ text' = y.text /\ torn' = y.torn
  /\ UNCHANGED <<screen, gop, pcd>>

\* ConSplitterTextOutReset: each console goes to its mode 0, unless it fails.
Reset(s) ==
  /\ Call /\ out[s].list # <<>>
  /\ \E R \in SUBSET On(s) :
       /\ R # {} => Refuses
       /\ text' = [d \in Consoles |-> IF d \in On(s) \ R THEN 0 ELSE text[d]]
       /\ torn' = torn \cup Sharing(Now, s) \cup (IF R = {} THEN {} ELSE {s})
  /\ out' = [out EXCEPT ![s].mode = 0]
  /\ UNCHANGED <<screen, gop, pcd>>

\* ConSplitterGraphicsOutputSetMode, ConSplitterGraphicsOutputQueryMode
SetGraphicsMode(m) ==
  /\ Call /\ gop.installed /\ m < Len(gop.modes)
  /\ gop' = [gop EXCEPT !.mode = m, !.info = gop.modes[m + 1]]
  /\ screen' = AllTo(Displays(out["ConOut"].list), gop.modes[m + 1])
  /\ UNCHANGED <<out, text, pcd, torn>>

-----------------------------------------------------------------------------
\* ConSplitterTextOutConstructor, and consoles in their first modes.
Init ==
  /\ kind \in [Consoles -> Kinds]
  /\ out = [s \in Splitters |-> [list |-> <<>>, room |-> AllocUnit, map |-> <<>>, max |-> 1, mode |-> 0,
                                 query |-> [i \in 1..AllocUnit |-> IF i = 1 THEN Base ELSE Zero]]]
  /\ text = [d \in Consoles |-> 0] /\ screen = [d \in Consoles |-> 0]
  /\ gop = [count |-> 0, modes |-> <<Default>>, mode |-> 0, info |-> Default, installed |-> FALSE]
  /\ pcd \in UserModes /\ torn = {} /\ calls = 0

Next ==
  \/ \E s \in Splitters, d \in Consoles : Start(s, d) \/ Stop(s, d)
  \/ \E s \in Splitters : Reset(s) \/ \E m \in Modes(out[s]) : SetMode(s, m)
  \/ \E m \in 0..(Len(gop.modes) - 1) : SetGraphicsMode(m)

Spec == Init /\ [][Next]_vars

\* Consoles are interchangeable.
Symmetry == Permutations(Consoles)

-----------------------------------------------------------------------------
\* One mode number means one geometry on all consoles: a mode that QueryMode
\* reports is mapped, for every console of the list, to a mode of that console with
\* this geometry, however often consoles came and went and the map was rebuilt.
ModesAgree ==
  \A s \in Splitters : LET o == out[s] IN
    \A i \in DOMAIN o.list, m \in Modes(o) : Geometry(o, m) # Zero =>
      LET n == Cell(o, m, i - 1)
      IN  n \in 0..(Len(Text(o.list[i])) - 1) /\ Text(o.list[i])[n + 1] = Geometry(o, m)

\* "After adding new console device, all existing console devices should be synced to
\* the current shared mode" (ConSplitter.c:3302-3303), and "current mode won't change even if
\* mode number changes" (2513): consoles are in the geometry of their splitter's current
\* mode, until one is removed, refuses a mode, or is set through the other splitter.
InStep ==
  \A s \in Splitters \ torn : LET o == out[s] IN
    \A i \in DOMAIN o.list :
      o.mode \in Modes(o) /\ (Geometry(o, o.mode) # Zero => Text(o.list[i])[text[o.list[i]] + 1] = Geometry(o, o.mode))

\* The Graphics Output is there as long as a display is; all displays have each of its
\* modes; and, when there is one, they all show the current one.
DisplaysAgree ==
  LET D == Displays(out["ConOut"].list)
  IN  /\ gop.count = Cardinality(D) /\ (gop.installed <=> D # {})
      /\ D # {} => \A r \in ToSet(gop.modes) : \A d \in D : r \in ToSet(Gop(d))
      /\ gop.modes # <<>> => \A d \in D : Shown(d) = gop.info

\* Together: all consoles behind a virtual one agree with it and with each other.
OutputsAgree == ModesAgree /\ InStep /\ DisplaysAgree
=============================================================================
