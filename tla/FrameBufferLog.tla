---------------------------- MODULE FrameBufferLog ----------------------------
(***************************************************************************)
(* The log written on the screen (FrameBufferSerialPortLib): characters    *)
(* drawn cell by cell into the frame buffer, the page cleared when it is   *)
(* full, with the interrupt state each routine saves and an interrupt      *)
(* handler that logs too.  Width and Height are in pixels.                 *)
(***************************************************************************)
EXTENDS Integers, Sequences, SequencesExt

CONSTANTS Width, Height, Scale, MaxWriters

VARIABLES fbcon,   \* m_Initialized, m_Position, m_Color.Foreground, the glyphs in the frame buffer
          writers, \* SerialPortWrite under way, a handler's on top of the one it interrupted
          ints,    \* interrupts are enabled
          latest   \* the last character logged and the colour it was logged in
logVars == <<fbcon, writers, ints, latest>>

FontWidth == 5
FontHeight == 12
MaxX == Width \div (FontWidth + 1)
MaxY == (Height - 1) \div FontHeight
Characters == {"a", "space", "newline", "return", "other"}
Glyph(x, y, c, colour, late) ==
    [left |-> x * Scale * (FontWidth + 1), top |-> y * FontHeight, c |-> c, colour |-> colour, late |-> late]

LogInit ==
    /\ fbcon = [ready |-> FALSE, x |-> 0, y |-> 0, colour |-> "white", picture |-> {}]
    /\ writers = <<>> /\ ints \in BOOLEAN
    /\ latest = [c |-> "other", colour |-> "white", late |-> FALSE]

(* SerialPortInitialize: once. *)
Initialize ==
    /\ writers = <<>> /\ ~fbcon.ready
    /\ fbcon' = [fbcon EXCEPT !.ready = TRUE, !.x = 0, !.y = 0, !.colour = "white"]
    /\ UNCHANGED <<writers, ints, latest>>

(***************************************************************************)
(* SerialPortWrite and SerialPortWriteCritical, called with interrupts on  *)
(* or off, or by a handler whenever they are on; the exception return      *)
(* turns them on again.  at is where a writer stands in                    *)
(* FbConPutCharWithFactor: between two characters ("free") or at what it   *)
(* does next; again, the page was cleared for c and c is to be painted     *)
(* again; y, the row it has computed; on, its intstate.                    *)
(***************************************************************************)
LineFeed == {"store", "start", "test", "clear"}
BeginWrite(critical, handler) ==
    /\ writers' = Append(writers, [saved |-> ints /\ ~handler, colour |-> fbcon.colour, critical |-> critical, handler |-> handler,
                                   at |-> "free", c |-> "other", again |-> FALSE, y |-> 0, on |-> FALSE])
    /\ ints' = FALSE
    /\ fbcon' = [fbcon EXCEPT !.colour = IF critical THEN "yellow" ELSE @]
    /\ UNCHANGED latest
Write(critical) == writers = <<>> /\ BeginWrite(critical, FALSE)
Interrupt(critical) == ints /\ Len(writers) < MaxWriters /\ BeginWrite(critical, TRUE)
WriterAt(place, again) == writers # <<>> /\ Last(writers).at = place /\ Last(writers).again = again
EndWrite ==
    /\ WriterAt("free", FALSE)
    /\ writers' = Front(writers)
    /\ ints' = (ints \/ Last(writers).saved \/ Last(writers).handler)
    /\ fbcon' = [fbcon EXCEPT !.colour = IF Last(writers).critical THEN Last(writers).colour ELSE @]
    /\ UNCHANGED latest
SetInterrupts == writers = <<>> /\ ints' = ~ints /\ UNCHANGED <<fbcon, writers, latest>>

(***************************************************************************)
(* FbConPutCharWithFactor up to the drawing, with the interrupts as they   *)
(* are.  A line feed jumps over the reading of the interrupt state, which  *)
(* may then have any value.                                                *)
(***************************************************************************)
Becomes(w) == writers' = [writers EXCEPT ![Len(writers)] = w]
Returned == [Last(writers) EXCEPT !.at = "free", !.c = "other", !.again = FALSE, !.y = 0, !.on = FALSE]
Feeding(c, on) == [Last(writers) EXCEPT !.at = "store", !.c = c, !.again = FALSE, !.y = fbcon.y + Scale, !.on = on]
Late == \E i \in 1..(Len(writers) - 1) : writers[i].at \in LineFeed
Logged(c) == [c |-> IF fbcon.ready THEN c ELSE "other", colour |-> fbcon.colour, late |-> Late]
Drawable(c) == c = "a" \/ (c = "space" /\ fbcon.x # 0)
Paint(c) ==
    \/ /\ fbcon.ready /\ Drawable(c)
       /\ Becomes([Last(writers) EXCEPT !.at = "draw", !.c = c]) /\ UNCHANGED <<fbcon, ints, latest>>
    \/ /\ fbcon.ready /\ c = "newline"
       /\ \E garbage \in BOOLEAN : Becomes(Feeding(c, garbage))
       /\ latest' = Logged(c) /\ UNCHANGED <<fbcon, ints>>
    \/ /\ ~fbcon.ready \/ (c # "newline" /\ ~Drawable(c))
       /\ fbcon' = [fbcon EXCEPT !.x = IF fbcon.ready /\ c = "return" THEN 0 ELSE @]
       /\ Becomes(Returned) /\ latest' = Logged(c) /\ UNCHANGED ints
PutChar(c) == WriterAt("free", FALSE) /\ Paint(c)
Repaint == WriterAt("free", TRUE) /\ Paint(Last(writers).c)

(* With the interrupts off: the glyph, and where the line ends the line feed. *)
Drawn(c) ==
    LET g == Glyph(fbcon.x, fbcon.y, c, fbcon.colour, Late)
    IN  {old \in fbcon.picture : old.left # g.left \/ old.top # g.top} \cup {g}
Draw ==
    /\ writers # <<>> /\ Last(writers).at = "draw"
    /\ LET c == Last(writers).c
       IN  /\ fbcon' = [fbcon EXCEPT !.x = @ + 1, !.picture = Drawn(c)] /\ latest' = Logged(c)
           /\ IF fbcon.x + 1 >= MaxX \div Scale
              THEN Becomes(Feeding(c, ints)) /\ ints' = FALSE
              ELSE Becomes(Returned) /\ UNCHANGED ints

(***************************************************************************)
(* From "newline:", for a line feed with the interrupts as they are: y is  *)
(* stored, x is cleared, y (kept or loaded anew) compared with the last    *)
(* row, the screen cleared pixel by pixel, and the character handled again *)
(* when the page was full.  What a handler draws during the clearing may   *)
(* be cleared or stay.                                                     *)
(***************************************************************************)
StoreRow ==
    /\ WriterAt("store", FALSE)
    /\ fbcon' = [fbcon EXCEPT !.y = Last(writers).y]
    /\ Becomes([Last(writers) EXCEPT !.at = "start"]) /\ UNCHANGED <<ints, latest>>
StartLine ==
    /\ WriterAt("start", FALSE)
    /\ fbcon' = [fbcon EXCEPT !.x = 0]
    /\ Becomes([Last(writers) EXCEPT !.at = "test"]) /\ UNCHANGED <<ints, latest>>
PageFull(y) == y >= MaxY - Scale
ResetFb == {}
BlankMutant == FALSE
PaintAgain == TRUE
Cleared == [latest EXCEPT !.c = IF latest.late THEN "other" ELSE @]
TestRow ==
    /\ WriterAt("test", FALSE)
    /\ \E y \in {Last(writers).y, fbcon.y} :
         \/ /\ PageFull(y)
            /\ fbcon' = [fbcon EXCEPT !.picture = ResetFb] /\ latest' = Cleared
            /\ Becomes([Last(writers) EXCEPT !.at = "clear"]) /\ UNCHANGED ints
         \/ /\ ~PageFull(y)
            /\ ints' = (ints \/ Last(writers).on) /\ Becomes(Returned) /\ UNCHANGED <<fbcon, latest>>
TurnPage ==
    /\ WriterAt("clear", FALSE)
    /\ \E picture \in SUBSET fbcon.picture : fbcon' = [fbcon EXCEPT !.y = 0, !.picture = picture]
    /\ latest' = Cleared /\ ints' = (ints \/ Last(writers).on)
    /\ Becomes([Last(writers) EXCEPT !.at = "free", !.again = PaintAgain, !.y = 0, !.on = FALSE])

LogNext ==
    \/ Initialize \/ EndWrite \/ SetInterrupts \/ Repaint \/ Draw \/ StoreRow \/ StartLine \/ TestRow \/ TurnPage
    \/ \E critical \in BOOLEAN : Write(critical) \/ Interrupt(critical)
    \/ \E c \in Characters : PutChar(c)
LogSpec == LogInit /\ [][LogNext]_logVars

----------------------------------------------------------------------------
Inside(g) == g.left + FontWidth * Scale <= Width /\ g.top + FontHeight * Scale <= Height
Overlap(g, h) ==
    /\ g.left < h.left + FontWidth * Scale /\ h.left < g.left + FontWidth * Scale
    /\ g.top < h.top + FontHeight * Scale /\ h.top < g.top + FontHeight * Scale

Due(w) == w.c = "a" /\ (w.at = "clear" \/ w.again)

(* Wherever lines wrap, pages turn and handlers break in, between any two  *)
(* stores of a line feed too: glyphs lie apart, and in the frame buffer    *)
(* unless a handler drew them in the middle of a line feed; the last       *)
(* character logged is on the screen in its colour, unless one is to be    *)
(* painted again, or a handler logged it in the middle of a line feed that *)
(* then cleared the page; between writes the colour is the ordinary one.   *)
LogReadable ==
    /\ \A g, h \in fbcon.picture : (~g.late => Inside(g)) /\ (Overlap(g, h) => g = h)
    /\ (latest.c = "a" /\ \A i \in DOMAIN writers : ~Due(writers[i]))
         => \E g \in fbcon.picture : g.c = "a" /\ g.colour = latest.colour
    /\ writers = <<>> => fbcon.colour = "white"
=============================================================================
