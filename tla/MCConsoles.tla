----------------------------- MODULE MCConsoles -----------------------------
(***************************************************************************)
(* Consoles for TLC: the splitter's output (part = "splitter"), and one    *)
(* graphics console as the splitter would have it below (part =            *)
(* "graphics").  The two share no state.                                   *)
(***************************************************************************)
EXTENDS ConSplitterOut

CONSTANTS ConsoleCalls, ConsoleFaults

VARIABLES part, slot1, slot2, slot3     \* which of the two; the graphics console's variables
slots == <<slot1, slot2, slot3>>
allVars == <<vars, part, slots>>

\* With and without mode 1, further modes of which neither is the higher one, in
\* either order; no display, or one or two modes in either order.
Wide == <<80, 25>>
Tall == <<60, 50>>
Console(second, further, modes) == [text |-> <<Base, second>> \o further, gop |-> modes]
MCKinds ==
  { Console(<<40, 25>>, <<Wide, Tall>>, <<>>),
    Console(<<40, 25>>, <<Tall, Wide>>, <<Default, <<320, 480>>>>),
    Console(Zero, <<Tall>>, <<<<320, 480>>, Default>>),
    Console(Zero, <<>>, <<<<320, 480>>>>) }
MCUserModes == {Zero, Wide}

\* GraphicsConsoleDxe: two resolutions of the device and two text modes besides the first,
\* 3 columns by 2 rows, strings that wrap and scroll.
Resolutions == <<[w |-> 24, h |-> 38], [w |-> 40, h |-> 76]>>
Written == {<<"a">>, <<"a", "b", "a", "b">>, <<"lf">>, <<"cr">>, <<"bs">>, <<"wide", "W", "W">>,
            <<"a", "wide", "W", "bs", "narrow", "b">>, <<"a", "b", "cr", "lf", "a", "bs", "bs">>}
Graphics == INSTANCE GraphicsConsole WITH
  GopModes <- Resolutions,
  PcdResolutions <- {[w |-> 0, h |-> 0], [w |-> 24, h |-> 38], [w |-> 99, h |-> 99]},
  FirstMode <- [cols |-> 3, rows |-> 2], SecondMode <- [cols |-> 5, rows |-> 4],
  ModeTable <- <<[cols |-> 4, rows |-> 2], [cols |-> 3, rows |-> 2]>>,
  Strings <- Written, Colours <- {"white", "grey"},
  tty <- slot1, gc <- slot2, term <- slot3

NoSplitter ==
  /\ kind = 0 /\ out = 0 /\ text = 0 /\ screen = 0
  /\ gop = 0 /\ pcd = 0 /\ torn = 0 /\ calls = 0
MCInit ==
  \/ part = "splitter" /\ Init /\ slot1 = 0 /\ slot2 = 0 /\ slot3 = 0
  \/ part = "graphics" /\ Graphics!GcInit /\ NoSplitter
MCNext ==
  \/ part = "splitter" /\ Next /\ UNCHANGED <<part, slots>>
  \/ part = "graphics" /\ Graphics!GcNext /\ UNCHANGED <<part, vars>>
MCSpec == MCInit /\ [][MCNext]_allVars

-----------------------------------------------------------------------------
\* The consoles of the splitter agree with it and with each other, whatever comes, goes and
\* refuses a mode (ConSplitter.c, ConSplitterGraphics.c).
ConsolesAgree == part = "splitter" => OutputsAgree

\* The screen shows the terminal and one cursor, and a stopped console has given back every
\* protocol it opened (GraphicsConsole.c).
ConsoleTrue ==
  part = "graphics" => Graphics!CursorShownOnce /\ Graphics!ScreenIsTerminal /\ Graphics!DeviceReleased

\* "No changes to the state of the current console have been made" after the line buffer of
\* a new mode could not be allocated (GraphicsConsole.c:1357).
GraphicsSpec == part = "graphics" /\ MCSpec
StillValid == [][part = "graphics" => Graphics!ValidStep]_allVars
=============================================================================
