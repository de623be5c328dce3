--------------------------- MODULE GraphicsConsole ---------------------------
(***************************************************************************)
(* The text console over a Graphics Output device (GraphicsConsoleDxe):    *)
(* the text modes made from the resolution, the driver binding, and the    *)
(* text protocol with its cursor.  Every call runs at TPL_NOTIFY and is    *)
(* one action.  The cursor is drawn by exclusive or with the foreground,   *)
(* so drawing it twice in the same place and colour removes it: the screen *)
(* is a text and a set of marks, a mark being a place and a colour.        *)
(*                                                                         *)
(* OutputString calls itself to blank a character and to break a line.     *)
(* The ghost term is what a terminal shows that has no such detours.       *)
(***************************************************************************)
EXTENDS Integers, Sequences, FiniteSets, SequencesExt

CONSTANTS GopModes,         \* resolutions of the device: a sequence of [w, h]
          PcdResolutions,   \* the resolutions a build may ask for; [w |-> 0, h |-> 0] is the largest
          FirstMode, SecondMode, ModeTable, \* text modes of the source, [cols, rows], to scale
          Strings,          \* the strings output, sequences of characters
          Colours,          \* foreground colours but black
          ConsoleCalls, ConsoleFaults       \* bounds on calls and on failures of a behaviour

VARIABLES tty,      \* the console's mode, cursor and attribute, and the screen
          gc,       \* the driver: protocols it opened, line buffer, device mode
          term      \* ghost: the terminal that tty should show
gcVars == <<tty, gc, term>>

(***************************************************************************)
(* The text modes (InitializeGraphicsConsoleTextMode): the second slot is  *)
(* left empty if the screen is too small for it.                           *)
(***************************************************************************)
GlyphWidth == 8
GlyphHeight == 19
NoMode == [cols |-> 0, rows |-> 0]
FullScreen(res) == [cols |-> res.w \div GlyphWidth, rows |-> res.h \div GlyphHeight]
FitsIn(m, full) == m # NoMode /\ m.cols <= full.cols /\ m.rows <= full.rows
AddMode(list, m, full) == IF FitsIn(m, full) /\ ~Contains(list, m) THEN Append(list, m) ELSE list
TextModes(res) ==
    LET full == FullScreen(res)
        Add(list, m) == AddMode(list, m, full)
    IN FoldLeft(Add, <<FirstMode, IF FitsIn(SecondMode, full) THEN SecondMode ELSE NoMode>>, Append(ModeTable, full))
Margins(res, m) == [x |-> (res.w - m.cols * GlyphWidth) \div 2, y |-> (res.h - m.rows * GlyphHeight) \div 2]

(***************************************************************************)
(* The screen.                                                             *)
(***************************************************************************)
Blank == "blank"
BlankText(m) == [p \in (0..m.rows - 1) \X (0..m.cols - 1) |-> Blank]
Size(t) == t.modes[t.mode + 1]
MaxColumn(t) == Size(t).cols
LastRow(t) == Size(t).rows - 1

FlushCursor(t) ==
    LET mark == {<<t.row, t.col, t.fg>>}
    IN IF t.visible THEN [t EXCEPT !.marks = (@ \ mark) \cup (mark \ @)] ELSE t

(* Drawing and filling remove the marks they cover.                        *)
Over(t, row, cols, ch) ==
    [t EXCEPT !.text = [p \in DOMAIN @ |-> IF p[1] = row /\ p[2] \in cols THEN ch ELSE @[p]],
              !.marks = {k \in @ : ~(k[1] = row /\ k[2] \in cols)}]
Cleared(t) == [t EXCEPT !.text = BlankText(Size(t)), !.marks = {}, !.col = 0, !.row = 0]
Scroll(t) ==
    [t EXCEPT !.text = [p \in DOMAIN @ |-> IF p[1] = LastRow(t) THEN Blank ELSE @[<<p[1] + 1, p[2]>>]],
              !.marks = {<<k[1] - 1, k[2], k[3]>> : k \in {j \in @ : j[1] > 0}}]

(***************************************************************************)
(* OutputString.                                                           *)
(***************************************************************************)
Controls == {"bs", "lf", "cr", "wide", "narrow"}
SpaceStr == <<"narrow", " ">>
CrLfString == <<"cr", "lf">>
Shown(ch) == IF ch = " " THEN Blank ELSE ch

(* How many characters of the string are drawn at once, and how far the    *)
(* cursor then moves: over the edge if a wide character has half a place.  *)
RunLength(str) ==
    LET stops == {i \in 1..Len(str) : str[i] \in Controls}
    IN IF stops = {} THEN Len(str) ELSE (CHOOSE i \in stops : \A j \in stops : i <= j) - 1
Least(a, b) == IF a < b THEN a ELSE b
Count(t, str) == Least(RunLength(str), (MaxColumn(t) - t.col) \div (IF t.wide THEN 2 ELSE 1))
HalfLeft(t, str) == t.wide /\ Count(t, str) < RunLength(str) /\ t.col + 2 * Count(t, str) < MaxColumn(t)
Index(t, str) == (IF t.wide THEN 2 * Count(t, str) ELSE Count(t, str)) + (IF HalfLeft(t, str) THEN 2 ELSE 0)
DrawUnicodeWeightAtCursorN(t, str, n) ==
    LET Draw(u, i) == IF t.wide THEN Over(u, t.row, {t.col + 2 * (i - 1), t.col + 2 * i - 1}, Shown(str[i]))
                      ELSE Over(u, t.row, {t.col + i - 1}, Shown(str[i]))
    IN FoldLeft(Draw, t, [i \in 1..n |-> i])

ShortStepMutant(t) == [t EXCEPT !.col = @ - 1]
StepBack(t) == [t EXCEPT !.col = @ - 2]
NoEraseMutant(t) == t
Erased(t) == FlushCursor(t)         \* what a nested call drew at its end

RECURSIVE OutputString(_, _), Characters(_, _)

LineFeed(t) == IF t.row = LastRow(t) THEN Scroll(t) ELSE [t EXCEPT !.row = @ + 1]
Backspace(t) ==
    LET blanked(u) == Erased(OutputString(u, SpaceStr))
        back == [t EXCEPT !.row = @ - 1, !.col = MaxColumn(t) - 1]
    IN IF t.col > 0 THEN [blanked([t EXCEPT !.col = @ - 1]) EXCEPT !.col = @ - 1]
       ELSE IF t.row > 0 THEN [blanked(back) EXCEPT !.row = @ - 1, !.col = MaxColumn(t) - 1]
       ELSE t
BreakLine(t) ==
    LET padded == IF t.col > MaxColumn(t) THEN OutputString(StepBack(t), SpaceStr) ELSE t
    IN IF padded.col >= MaxColumn(t) THEN Erased(OutputString(FlushCursor(padded), CrLfString)) ELSE padded
PrintRun(t, str) ==
    BreakLine([DrawUnicodeWeightAtCursorN(t, str, Count(t, str)) EXCEPT !.col = @ + Index(t, str)])

Characters(t, str) ==
    IF str = <<>> THEN t
    ELSE CASE Head(str) = "bs" -> Characters(Backspace(t), Tail(str))
           [] Head(str) = "lf" -> Characters(LineFeed(t), Tail(str))
           [] Head(str) = "cr" -> Characters([t EXCEPT !.col = 0], Tail(str))
           [] Head(str) \in {"wide", "narrow"} -> Characters([t EXCEPT !.wide = Head(str) = "wide"], Tail(str))
           [] OTHER -> Characters(PrintRun(t, str), SubSeq(str, Count(t, str) + 1, Len(str)))
OutputString(t, str) ==
    IF t.mode = -1 THEN t
    ELSE FlushCursor([Characters(FlushCursor(t), str) EXCEPT !.wide = t.wide])

(***************************************************************************)
(* The other calls of the protocol.                                        *)
(***************************************************************************)
ClearScreen(t) == IF t.mode = -1 THEN t ELSE FlushCursor(Cleared(t))
SetAttribute(t, fg) == IF fg = t.fg THEN t ELSE FlushCursor([FlushCursor(t) EXCEPT !.fg = fg])
EnableCursor(t, visible) == IF t.mode = -1 THEN t ELSE FlushCursor([FlushCursor(t) EXCEPT !.visible = visible])
SetCursorPosition(t, col, row) ==
    IF t.mode = -1 \/ col >= MaxColumn(t) \/ row > LastRow(t) \/ (col = t.col /\ row = t.row) THEN t
    ELSE FlushCursor([FlushCursor(t) EXCEPT !.col = col, !.row = row])
QueryMode(t, n) == IF n >= Len(t.modes) \/ t.modes[n + 1] = NoMode THEN "unsupported" ELSE "ok"

(* A change of mode gives the old line buffer back before it has the new   *)
(* one, and has erased the cursor by then.                                 *)
MayChange(t, n) == QueryMode(t, n) = "ok" /\ ~(gc.line # "none" /\ n = t.mode)
LeftMode(t) == IF gc.line # "none" THEN FlushCursor(t) ELSE t
Entered(t, n) == FlushCursor(Cleared([t EXCEPT !.mode = n]))

----------------------------------------------------------------------------
(***************************************************************************)
(* The driver.                                                             *)
(***************************************************************************)
Template == [mode |-> -1, modes |-> <<>>, col |-> 0, row |-> 0, fg |-> CHOOSE c \in Colours : TRUE, wide |-> FALSE,
             visible |-> TRUE, text |-> <<>>, marks |-> {}]
NoTerm == [text |-> <<>>, col |-> 0, row |-> 0, mode |-> -1]

GcInit ==
    /\ tty = Template /\ term = NoTerm
    /\ \E pcd \in PcdResolutions, debug \in BOOLEAN, gop \in 0..Len(GopModes) - 1 :
           gc = [st |-> "stopped", opens |-> {}, hii |-> FALSE, line |-> "none", gop |-> gop, at |-> 0, pcd |-> pcd,
                 debug |-> debug, intact |-> TRUE, ret |-> "ok", calls |-> ConsoleCalls, faults |-> ConsoleFaults]

(* The database of fonts arrives; the driver registers its font.           *)
RegisterFontPackage == ~gc.hii /\ gc' = [gc EXCEPT !.hii = TRUE] /\ UNCHANGED <<tty, term>>

(* Another driver of the device, or a user of the device path.             *)
OthersOpen(protocol) ==
    /\ gc.st = "stopped" /\ gc.calls > 0
    /\ gc' = [gc EXCEPT !.opens = IF <<protocol, "other">> \in @ THEN @ \ {<<protocol, "other">>} ELSE @ \cup {<<protocol, "other">>},
                        !.calls = @ - 1]
    /\ UNCHANGED <<tty, term>>

CanOpen(protocol) == \A o \in gc.opens : o[1] # protocol
KeptOpenMutant(opens) == opens
Closed(opens) == {o \in opens : o[2] # "console"}
Supported == CanOpen("gop") /\ CanOpen("path") /\ gc.hii

(* The mode of the device: the largest, the one asked for, 800 by 600, or  *)
(* the one that is set.                                                    *)
Larger(a, b) == a.w > b.w \/ (a.w = b.w /\ a.h > b.h)
Largest == CHOOSE i \in DOMAIN GopModes : /\ \A j \in DOMAIN GopModes : ~Larger(GopModes[j], GopModes[i])
                                          /\ \A j \in 1..i - 1 : Larger(GopModes[i], GopModes[j])
CheckModeSupported(res) == \E i \in DOMAIN GopModes : GopModes[i] = res
ModeOf(res) == SelectInSeq(GopModes, LAMBDA r : r = res) - 1
Chosen ==
    IF gc.pcd.w = 0 \/ gc.pcd.h = 0 THEN Largest - 1
    ELSE IF CheckModeSupported(gc.pcd) THEN ModeOf(gc.pcd)
    ELSE IF CheckModeSupported([w |-> 800, h |-> 600]) THEN ModeOf([w |-> 800, h |-> 600])
    ELSE gc.gop

Fresh(n) == [Template EXCEPT !.modes = TextModes(GopModes[n + 1])]
Banner == <<"a", "lf", "cr">>
Ref(t) == [text |-> t.text, col |-> t.col, row |-> t.row, mode |-> t.mode]

NotStarted(closes) ==
    /\ gc' = [gc EXCEPT !.ret = "error", !.faults = @ - 1, !.opens = closes]
    /\ UNCHANGED <<tty, term>>
Start ==
    /\ gc.st = "stopped" /\ gc.calls > 0 /\ Supported
    /\ LET console == gc.opens \cup {<<"gop", "console">>}
           first == IF gc.debug THEN OutputString(Entered(Fresh(Chosen), 0), Banner) ELSE Fresh(Chosen)
       IN \/ gc.faults > 0 /\ NotStarted(Closed(console))
          \/ /\ tty' = first /\ term' = Ref(first)
             /\ gc' = [gc EXCEPT !.st = "started", !.opens = console, !.gop = Chosen, !.at = Chosen, !.intact = TRUE, !.ret = "ok",
                                 !.line = IF gc.debug THEN "held" ELSE "none", !.calls = @ - 1]

Stop ==
    /\ gc.st = "started" /\ gc.calls > 0
    /\ \/ /\ gc' = [gc EXCEPT !.st = "stopped", !.opens = Closed(@), !.line = "none", !.ret = "ok", !.calls = @ - 1]
          /\ tty' = Template /\ term' = NoTerm
       \/ /\ gc.faults > 0
          /\ gc' = [gc EXCEPT !.ret = "error", !.faults = @ - 1]
          /\ UNCHANGED <<tty, term>>

(* Someone else sets the mode of the device, which clears it.              *)
OthersSetGopMode(n) ==
    /\ gc.st = "started" /\ gc.calls > 0 /\ n # gc.gop
    /\ gc' = [gc EXCEPT !.gop = n, !.intact = FALSE, !.calls = @ - 1]
    /\ tty' = [tty EXCEPT !.marks = {}, !.text = [p \in DOMAIN @ |-> Blank]]
    /\ UNCHANGED term

----------------------------------------------------------------------------
(***************************************************************************)
(* The terminal: characters one by one.                                    *)
(***************************************************************************)
Cols == MaxColumn(tty)
NewLine(s) ==
    IF s.row < LastRow(tty) THEN [s EXCEPT !.row = @ + 1]
    ELSE [s EXCEPT !.text = [p \in DOMAIN @ |-> IF p[1] = LastRow(tty) THEN Blank ELSE @[<<p[1] + 1, p[2]>>]]]
Wrapped(s) == IF s.col = Cols THEN [NewLine(s) EXCEPT !.col = 0] ELSE s
Put(s, cells, ch) ==
    Wrapped([s EXCEPT !.text = [p \in DOMAIN @ |-> IF p[1] = s.row /\ p[2] \in cells THEN ch ELSE @[p]], !.col = @ + Cardinality(cells)])
BackOne(s) ==
    LET r == IF s.col > 0 THEN s.row ELSE s.row - 1
        c == IF s.col > 0 THEN s.col - 1 ELSE Cols - 1
    IN IF s.col = 0 /\ s.row = 0 THEN s ELSE [s EXCEPT !.row = r, !.col = c, !.text[<<r, c>>] = Blank]
TypeWide(s, ch) ==
    LET u == IF s.col + 2 > Cols THEN Put(s, {s.col}, Blank) ELSE s IN Put(u, {u.col, u.col + 1}, ch)
Type(s, ch) ==
    CASE ch = "bs" -> BackOne(s)
      [] ch = "lf" -> NewLine(s)
      [] ch = "cr" -> [s EXCEPT !.col = 0]
      [] ch = "W" -> TypeWide(s, ch)
      [] ch \in {"wide", "narrow"} -> s
      [] OTHER -> Put(s, {s.col}, Shown(ch))

----------------------------------------------------------------------------
(***************************************************************************)
(* The calls.                                                              *)
(***************************************************************************)
Calling == gc.st = "started" /\ gc.calls > 0
Done(t, s) == tty' = t /\ term' = s /\ gc' = [gc EXCEPT !.calls = @ - 1, !.ret = "ok"]

Output(str) ==
    /\ Calling
    /\ Done(OutputString(tty, str), IF tty.mode = -1 THEN term ELSE FoldLeft(Type, term, str))
(* ClearScreen, which is also what SetMode and Reset do in the mode in force. *)
Clear == Calling /\ LET t == ClearScreen(tty) IN Done(t, Ref(t))
(* Clients set a mode before they set an attribute.                        *)
Attribute(fg) == Calling /\ tty.mode # -1 /\ Done(SetAttribute(tty, fg), term)
Cursor(visible) == Calling /\ Done(EnableCursor(tty, visible), term)
Move(col, row) == Calling /\ LET t == SetCursorPosition(tty, col, row) IN Done(t, [term EXCEPT !.col = t.col, !.row = t.row])

(* Reset is SetMode(0), and takes the background, not modelled, away.       *)
SetMode(n) ==
    /\ Calling /\ MayChange(tty, n)
    /\ tty' = Entered(tty, n) /\ term' = Ref(Entered(tty, n))
    /\ gc' = [gc EXCEPT !.line = "held", !.gop = gc.at, !.calls = @ - 1, !.ret = "ok", !.intact = TRUE]
SetModeUnsupported(n) ==
    /\ Calling /\ QueryMode(tty, n) # "ok"
    /\ gc' = [gc EXCEPT !.ret = "unsupported", !.calls = @ - 1]
    /\ UNCHANGED <<tty, term>>
SetModeNoMemory(n) ==
    /\ Calling /\ gc.faults > 0 /\ MayChange(tty, n)
    /\ tty' = LeftMode(tty)
    /\ gc' = [gc EXCEPT !.line = IF @ = "none" THEN "none" ELSE "freed", !.ret = "out_of_resources", !.faults = @ - 1, !.intact = FALSE]
    /\ UNCHANGED term
SetModeDeviceFails(n) ==
    /\ Calling /\ gc.faults > 0 /\ MayChange(tty, n) /\ gc.gop # gc.at
    /\ tty' = LeftMode(tty)
    /\ gc' = [gc EXCEPT !.line = "held", !.ret = "device_error", !.faults = @ - 1, !.intact = FALSE]
    /\ UNCHANGED term

GcNext ==
    \/ RegisterFontPackage \/ Start \/ Stop \/ Clear
    \/ \E p \in {"gop", "path"} : OthersOpen(p)
    \/ \E n \in 0..Len(GopModes) - 1 : OthersSetGopMode(n)
    \/ \E str \in Strings : Output(str)
    \/ \E fg \in Colours : Attribute(fg)
    \/ \E v \in BOOLEAN : Cursor(v)
    \/ \E c, r \in 0..3 : Move(c, r)
    \/ \E n \in 0..Len(tty.modes) : SetMode(n) \/ SetModeUnsupported(n) \/ SetModeNoMemory(n) \/ SetModeDeviceFails(n)
GcSpec == GcInit /\ [][GcNext]_gcVars

----------------------------------------------------------------------------
(* As long as no change of mode failed and nobody changed the device's,     *)
(* the screen shows one cursor, at the cursor's place and in the current   *)
(* colour, if it is visible, and none otherwise: the pairs of FlushCursor  *)
(* balance through every nested OutputString (GraphicsConsole.c).          *)
CursorShownOnce ==
    (tty.mode # -1 /\ gc.intact) =>
        tty.marks = IF tty.visible THEN {<<tty.row, tty.col, tty.fg>>} ELSE {}

(* The text and the cursor are those of a terminal that takes the same     *)
(* characters one by one; and the text window lies inside the screen.      *)
ScreenIsTerminal ==
    tty.mode # -1 =>
        /\ gc.intact => tty.text = term.text /\ tty.col = term.col /\ tty.row = term.row
        /\ tty.col \in 0..MaxColumn(tty) - 1 /\ tty.row \in 0..LastRow(tty)
        /\ Margins(GopModes[gc.at + 1], Size(tty)).x >= 0 /\ Margins(GopModes[gc.at + 1], Size(tty)).y >= 0

(* The device is held by the console while its protocol is installed, and  *)
(* at no other time, whatever failed on the way (GraphicsConsole.c:606).   *)
DeviceReleased == <<"gop", "console">> \in gc.opens <=> gc.st = "started"

(* "No changes to the state of the current console have been made, so the  *)
(* current console is still valid" (GraphicsConsole.c:1357-1358) after the *)
(* line buffer of a new mode could not be allocated.                       *)
ValidStep == (gc'.faults < gc.faults /\ gc'.ret = "out_of_resources") => gc'.line = gc.line /\ tty' = tty
StillValid == [][ValidStep]_gcVars
=============================================================================
