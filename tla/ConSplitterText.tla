--------------------------- MODULE ConSplitterText ---------------------------
(***************************************************************************)
(* The text calls of the console splitter's ConOut (ConSplitterDxe): each  *)
(* goes to every console, any of which may fail, and the virtual console   *)
(* keeps a cursor and an attribute of its own, also while there is no      *)
(* console at all.  The consoles have the same modes; ConSplitterOut is    *)
(* about those that do not.                                                *)
(***************************************************************************)
EXTENDS Integers, FiniteSets, SequencesExt

CONSTANTS Consoles,
          TextModes,        \* the modes as <<columns, rows>>, the first the smallest
          Strings,          \* what is written: sequences of "a", "bs", "lf" and "cr"
          TextCalls, TextFailures

VARIABLES split,    \* TextOutMode, the list of consoles and the answer of the last call
          con,      \* the consoles' own modes, cursors and attributes
          ideal     \* ghost: who missed a call, and where a console in the place of none would be
textVars == <<split, con, ideal>>

White == 7
Blue == 16 + White      \* an attribute with a background
Home == <<0, 0>>
Fresh == [mode |-> 1, cursor |-> Home, attr |-> White, visible |-> TRUE]
TextInit ==
    /\ split = [list |-> <<>>, mode |-> 1, cursor |-> Home, attr |-> White, visible |-> TRUE, status |-> "success", calls |-> TextCalls,
                failures |-> TextFailures]
    /\ con = [c \in Consoles |-> Fresh]
    /\ ideal = [off |-> {}, faded |-> {}, mirrored |-> TRUE, cursor |-> Home, failed |-> {}]

Listed == ToSet(split.list)
Cols(mode) == TextModes[mode][1]
Rows(mode) == TextModes[mode][2]

(***************************************************************************)
(* A console's own cursor (GraphicsConsole): a line feed in the last row   *)
(* scrolls, and so does a character in the last cell.                      *)
(***************************************************************************)
Cell(mode, cursor) == cursor[2] * Cols(mode) + cursor[1]
At(mode, cell) == <<cell % Cols(mode), cell \div Cols(mode)>>
Scrolled(mode, cell) == IF cell >= Cols(mode) * Rows(mode) THEN cell - Cols(mode) ELSE cell
Shown(mode, cursor, ch) ==
    LET cell == Cell(mode, cursor)
    IN CASE ch = "cr" -> <<0, cursor[2]>>
         [] ch = "bs" -> At(mode, IF cell = 0 THEN 0 ELSE cell - 1)
         [] ch = "lf" -> At(mode, Scrolled(mode, cell + Cols(mode)))
         [] OTHER -> At(mode, Scrolled(mode, cell + 1))

(* The virtual cursor of ConSplitterTextOutOutputString when there is no   *)
(* console.                                                                *)
MaxColumn == Cols(split.mode)
MaxRow == Rows(split.mode)
Below(row) == IF row < MaxRow - 1 THEN row + 1 ELSE row
StayMutant(col, row) == IF col = 0 THEN <<0, row>> ELSE <<col - 1, row>>
Backspace(col, row) ==
    IF col = 0 /\ row > 0 THEN <<MaxColumn - 1, row - 1>> ELSE IF col > 0 THEN <<col - 1, row>> ELSE <<col, row>>
NullConsole(cursor, ch) ==
    LET col == cursor[1]
        row == cursor[2]
    IN CASE ch = "bs" -> Backspace(col, row)
         [] ch = "lf" -> <<col, Below(row)>>
         [] ch = "cr" -> <<0, row>>
         [] OTHER -> IF col < MaxColumn - 1 THEN <<col + 1, row>> ELSE <<0, Below(row)>>

----------------------------------------------------------------------------
(***************************************************************************)
(* One call: the consoles in turn, the worst answer of all.                *)
(***************************************************************************)
Calling == split.calls > 0
Fail(failed) == failed \subseteq Listed /\ Cardinality(failed) <= split.failures
Worst(failed) == IF failed = {} THEN "success" ELSE "device_error"
Called(s, failed) == [s EXCEPT !.status = Worst(failed), !.calls = @ - 1, !.failures = @ - Cardinality(failed)]

(* TextOutSetMode.                                                         *)
Reparametrised(s, mode) == [s EXCEPT !.mode = mode, !.cursor = Home, !.visible = TRUE]

(* A call that positions every console: those that fail are off until the  *)
(* next, those in another mode stay off.                                   *)
Positioned(failed, mode, at) ==
    [ideal EXCEPT !.off = {c \in Consoles : c \in failed \/ (c \in Listed /\ con[c].mode # mode)}, !.mirrored = TRUE, !.cursor = at, !.failed = failed]

Homed(failed) == [c \in Consoles |-> IF c \in Listed \ failed THEN [con[c] EXCEPT !.cursor = Home] ELSE con[c]]
Cleared(failed) ==
    /\ split' = Called([split EXCEPT !.cursor = Home, !.visible = TRUE], failed)
    /\ con' = Homed(failed)
    /\ ideal' = Positioned(failed, split.mode, Home)
\* Also what SetMode does for the current mode.
ClearScreen(failed) == Calling /\ Fail(failed) /\ Cleared(failed)

SetMode(mode, failed) ==
    /\ Calling /\ Fail(failed) /\ mode # split.mode
    /\ Listed # {}          \* MaxMode is 1 without a console
    /\ split' = Called(Reparametrised(split, mode), failed)
    /\ con' = [c \in Consoles |-> IF c \in Listed \ failed THEN [con[c] EXCEPT !.mode = mode, !.cursor = Home] ELSE con[c]]
    /\ ideal' = [ideal EXCEPT !.off = failed, !.mirrored = TRUE, !.cursor = Home, !.failed = failed]
SetModeUnsupported == Calling /\ split' = [split EXCEPT !.calls = @ - 1, !.status = "unsupported"] /\ UNCHANGED <<con, ideal>>

SetAttribute(attr, failed) ==
    /\ Calling /\ Fail(failed)
    /\ IF attr <= 127
       THEN /\ split' = Called([split EXCEPT !.attr = attr], failed)
            /\ con' = [c \in Consoles |-> IF c \in Listed \ failed THEN [con[c] EXCEPT !.attr = attr] ELSE con[c]]
            /\ ideal' = [ideal EXCEPT !.faded = failed, !.failed = failed]
       ELSE failed = {} /\ split' = [split EXCEPT !.calls = @ - 1, !.status = "unsupported"] /\ UNCHANGED <<con, ideal>>

SetCursorPosition(at, failed) ==
    /\ Calling /\ Fail(failed)
    /\ IF at[1] < MaxColumn /\ at[2] < MaxRow
       THEN /\ split' = Called([split EXCEPT !.cursor = at], failed)
            /\ con' = [c \in Consoles |-> IF c \in Listed \ failed THEN [con[c] EXCEPT !.cursor = at] ELSE con[c]]
            /\ ideal' = Positioned(failed, split.mode, at)
       ELSE failed = {} /\ split' = [split EXCEPT !.calls = @ - 1, !.status = "unsupported"] /\ UNCHANGED <<con, ideal>>

EnableCursor(visible, failed) ==
    /\ Calling /\ Fail(failed)
    /\ split' = Called([split EXCEPT !.visible = visible], failed)
    /\ con' = [c \in Consoles |-> IF c \in Listed \ failed THEN [con[c] EXCEPT !.visible = visible] ELSE con[c]]
    /\ ideal' = [ideal EXCEPT !.failed = failed]

(* The attribute is set again before every string, and its failure is not  *)
(* looked at; the virtual cursor follows the first console.                *)
Written(c, s) == [con[c] EXCEPT !.cursor = FoldLeft(LAMBDA at, ch : Shown(con[c].mode, at, ch), @, s)]
OutputString(s, faded, failed) ==
    /\ Calling /\ faded \subseteq Listed /\ Fail(failed \cup faded)
    /\ LET inked == [c \in Consoles |-> IF c \in Listed \ faded THEN [con[c] EXCEPT !.attr = split.attr] ELSE con[c]]
           off == ideal.off \cup failed
       IN /\ con' = [c \in Consoles |-> IF c \in Listed \ failed THEN [Written(c, s) EXCEPT !.attr = inked[c].attr] ELSE inked[c]]
          /\ split' = [Called(split, failed) EXCEPT !.failures = split.failures - Cardinality(failed \cup faded),
                                                   !.cursor = IF Listed # {} THEN con'[split.list[1]].cursor ELSE FoldLeft(NullConsole, @, s)]
          /\ ideal' = [ideal EXCEPT !.off = off, !.faded = faded, !.failed = failed, !.mirrored = IF Listed # {} THEN split.list[1] \notin off ELSE @,
                                    !.cursor = FoldLeft(LAMBDA at, ch : Shown(split.mode, at, ch), @, s)]

(* Reset: the consoles go back to their first mode; the attribute without  *)
(* its background goes to all of them, and the parameters are reset.       *)
OnBlack(attr) == attr % 16
ResetConsoles(failed) ==
    /\ Calling /\ Fail(failed)
    /\ split' = Called(Reparametrised([split EXCEPT !.attr = OnBlack(@)], 1), failed)
    /\ con' = [c \in Consoles |-> IF c \in Listed \ failed THEN [Fresh EXCEPT !.attr = OnBlack(split.attr)]
                                  ELSE IF c \in Listed THEN [con[c] EXCEPT !.attr = OnBlack(split.attr)] ELSE con[c]]
    /\ ideal' = [ideal EXCEPT !.off = failed, !.faded = {}, !.mirrored = TRUE, !.cursor = Home, !.failed = failed]

----------------------------------------------------------------------------
(***************************************************************************)
(* A console that comes is in the current mode, and all are set to the     *)
(* preferred one, the largest (ConsplitterSetConsoleOutMode), so that they *)
(* are cleared whatever mode is current; the last that leaves resets the   *)
(* virtual console to its smallest mode.                                   *)
(***************************************************************************)
Preferred == Len(TextModes)
AddConsole(c) ==
    /\ Calling /\ c \notin Listed /\ ideal.off \cap Listed = {}
    /\ split' = Called([split EXCEPT !.list = Append(@, c), !.mode = Preferred, !.cursor = Home, !.visible = TRUE], {})
    /\ con' = [d \in Consoles |-> IF d \in Listed \cup {c} THEN [con[d] EXCEPT !.mode = Preferred, !.cursor = Home, !.attr = IF d = c THEN White ELSE @]
                                  ELSE con[d]]
    /\ ideal' = [ideal EXCEPT !.off = {}, !.faded = @ \cup {c}, !.mirrored = TRUE, !.cursor = Home, !.failed = {}]
DeleteConsole(c) ==
    /\ Calling /\ c \in Listed
    /\ LET left == Remove(split.list, c)
           kept == Called([split EXCEPT !.list = left], {})
       IN /\ split' = IF left = <<>> THEN Reparametrised(kept, 1) ELSE kept
          /\ ideal' = [ideal EXCEPT !.off = @ \ {c}, !.faded = @ \ {c}, !.cursor = IF left = <<>> THEN Home ELSE @,
                                    !.mirrored = @ \/ left = <<>>, !.failed = {}]
    /\ UNCHANGED con

TextNext ==
    \/ SetModeUnsupported
    \/ \E c \in Consoles : AddConsole(c) \/ DeleteConsole(c)
    \/ \E failed \in SUBSET Consoles :
        \/ ClearScreen(failed) \/ ResetConsoles(failed)
        \/ \E mode \in DOMAIN TextModes : SetMode(mode, failed)
        \/ \E attr \in {White, Blue, 128} : SetAttribute(attr, failed)
        \/ \E at \in {<<1, 1>>, TextModes[1]} : SetCursorPosition(at, failed)
        \/ \E visible \in BOOLEAN : EnableCursor(visible, failed)
        \/ \E s \in Strings, faded \in SUBSET Consoles : OutputString(s, faded, failed)
TextSpec == TextInit /\ [][TextNext]_textVars

----------------------------------------------------------------------------
(* The cursor that the virtual console reports is that of every console    *)
(* that missed no call, and inside the current mode; without a console it  *)
(* is where a console's would be after the same calls.  Every console that *)
(* takes attributes has the virtual console's, and no call succeeds that   *)
(* failed on one of them.                                                  *)
ConsolesFollow ==
    /\ ideal.mirrored => \A c \in Listed \ ideal.off : con[c].cursor = split.cursor /\ con[c].mode = split.mode
    /\ (ideal.mirrored /\ ideal.off = {}) => split.cursor = ideal.cursor
    /\ ideal.mirrored => split.cursor[1] < MaxColumn /\ split.cursor[2] < MaxRow
    /\ \A c \in Listed \ ideal.faded : con[c].attr = split.attr
    /\ split.status = "success" => ideal.failed = {}
=============================================================================
