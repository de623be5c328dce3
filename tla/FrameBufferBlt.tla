--------------------------- MODULE FrameBufferBlt ---------------------------
(***************************************************************************)
(* The frame buffer of SimpleFbDxe and the copies of FrameBufferBltLib, on *)
(* the bytes of video memory: the visible pixels, the end of every scan    *)
(* line, and one line of other memory behind the frame.  A colour has      *)
(* three channels; a pixel of the caller's buffer is their bytes and a     *)
(* reserved one, a pixel of video has each at the place its mask says.     *)
(***************************************************************************)
EXTENDS Integers, FiniteSets, SequencesExt

CONSTANTS Width, Height,
          Formats,      \* [bgr, android, reserved : BOOLEAN, stride : Nat, place : channel -> byte]
          BltCalls      \* calls after the first picture

VARIABLES mode,     \* FRAME_BUFFER_CONFIGURE
          video,    \* memory from the first byte of the frame buffer on
          blt,      \* the caller's BltBuffer, Width by Height pixels
          picture,  \* what the calls ask the screen and the buffer to be
          draw      \* the client: calls left, and its calls the library does not carry out as documented
bltVars == <<mode, video, blt, picture, draw>>

Channels3 == {"blue", "green", "red"}
BltPlace == [blue |-> 0, green |-> 1, red |-> 2]
Columns == 0..Width - 1
Rows == 0..Height - 1
Black == [c \in Channels3 |-> 0]
Other == 99         \* what lies behind the frame
Logo == [i \in 0..Width * Height - 1 |-> [c \in Channels3 |-> i + 1 + BltPlace[c]]]
BltInit ==
    /\ \E format \in Formats : mode = [f |-> format, bytes |-> 0]
    /\ video = <<>> /\ blt = Logo
    /\ picture = [screen |-> [x \in Columns, y \in Rows |-> Black], buffer |-> Logo]
    /\ draw = [left |-> BltCalls, astray |-> {}, pc |-> "off"]

(***************************************************************************)
(* FrameBufferBltConfigure: the bytes from the lowest to the highest bit   *)
(* of the masks, on an Android platform without the reserved one.          *)
(* SimpleFbDxeInitialize clears the frame it has described.                *)
(***************************************************************************)
BytesPerPixel(f) == IF f.reserved THEN 4 ELSE 3
ConfiguredBytes(f) == IF f.android THEN BytesPerPixel(f) - BytesPerPixel(f) \div 4 ELSE BytesPerPixel(f)
FrameBytes(bytes) == Height * mode.f.stride * bytes
Configure ==
    /\ draw.pc = "off" /\ mode.f.stride >= Width
    /\ LET bytes == ConfiguredBytes(mode.f)
       IN /\ mode' = [mode EXCEPT !.bytes = bytes]
          /\ video' = [i \in 0..(Height + 1) * mode.f.stride * bytes - 1 |-> IF i < FrameBytes(bytes) THEN 0 ELSE Other]
    /\ draw' = [draw EXCEPT !.pc = "logo"]
    /\ UNCHANGED <<blt, picture>>

----------------------------------------------------------------------------
(* The place of a pixel, and the conversion by shifts and masks.           *)
Offset(x, y) == (y * mode.f.stride + x) * mode.bytes
InPlace(colour, k) == IF \E c \in Channels3 : mode.f.place[c] = k THEN colour[CHOOSE c \in Channels3 : mode.f.place[c] = k] ELSE 0
ColourAt(mem, at) == [c \in Channels3 |-> mem[at + mode.f.place[c]]]
Fits(x, y, w, h) == x + w <= Width /\ y + h <= Height /\ w > 0 /\ h > 0
PixelsOfLine(w, delta) == IF delta = 0 THEN w ELSE delta

(* CopyMem of len bytes, Value[i] to the i-th.                             *)
Store(mem, at, len, Value) == [i \in DOMAIN mem |-> IF i \in at..at + len - 1 THEN Value[i - at] ELSE mem[i]]

(***************************************************************************)
(* FrameBufferBltLibVideoFill.  Four-byte pixels repeat in eight bytes,    *)
(* and so do others if all their bytes are equal; the pattern goes to      *)
(* whole lines at once, to an aligned line, or is not used and the line    *)
(* buffer is.                                                              *)
(***************************************************************************)
AlwaysMutant(colour) == TRUE
UseWideFill(colour) == 8 % mode.bytes = 0 \/ \A k \in 1..mode.bytes - 1 : InPlace(colour, k) = InPlace(colour, 0)
WideByte(colour, i) == IF 8 % mode.bytes = 0 THEN InPlace(colour, i % mode.bytes) ELSE InPlace(colour, 0)
OneShot(colour, x, w) == UseWideFill(colour) /\ x = 0 /\ w = mode.f.stride
LineByte(colour, at, i) ==
    IF UseWideFill(colour) /\ at % 8 = 0 THEN WideByte(colour, i % 8) ELSE InPlace(colour, i % mode.bytes)
FillLine(colour, x, y, w, mem) ==
    Store(mem, Offset(x, y), w * mode.bytes, [i \in 0..w * mode.bytes - 1 |-> LineByte(colour, Offset(x, y), i)])
FillVideo(colour, x, y, w, h) ==
    IF OneShot(colour, x, w)
    THEN Store(video, Offset(0, y), w * mode.bytes * h, [i \in 0..w * mode.bytes * h - 1 |-> WideByte(colour, i % 4)])
    ELSE FoldLeft(LAMBDA mem, row : FillLine(colour, x, row, w, mem), video, [i \in 1..h |-> y + i - 1])

(* A line of the buffer as bytes of video: raw, from the start of the line *)
(* whatever SourceX is, or converted.                                      *)
RawByte(pixels, first, i) ==
    LET colour == pixels[first + i \div 4]
    IN IF i % 4 = 3 THEN 0 ELSE colour[CHOOSE c \in Channels3 : BltPlace[c] = i % 4]
ConvertedByte(pixels, first, i) == InPlace(pixels[first + i \div mode.bytes], i % mode.bytes)
ShowLine(bx, by, x, y, w, line, mem) ==
    Store(mem, Offset(x, y), w * mode.bytes,
          [i \in 0..w * mode.bytes - 1 |-> IF mode.f.bgr THEN RawByte(blt, by * line, i) ELSE ConvertedByte(blt, by * line + bx, i)])
ShowVideo(bx, by, x, y, w, h, line) ==
    FoldLeft(LAMBDA mem, i : ShowLine(bx, by + i, x, y + i, w, line, mem), video, [i \in 1..h |-> i - 1])

(* FrameBufferBltLibVideoToBltBuffer: the lines come back as colours.      *)
ReadVideo(x, y, bx, by, w, h, line) ==
    FoldLeft(LAMBDA b, i :
                 [p \in DOMAIN b |-> LET col == p - (by + i) * line - bx
                                     IN IF col \in 0..w - 1 THEN ColourAt(video, Offset(x + col, y + i)) ELSE b[p]],
             blt, [i \in 1..h |-> i - 1])

(* FrameBufferBltLibVideoToVideo: to a higher address from Height lines    *)
(* down on, one too far, and otherwise from the first line.                *)
MoveLine(sx, sy, x, y, w, mem) ==
    Store(mem, Offset(x, y), w * mode.bytes, [i \in 0..w * mode.bytes - 1 |-> mem[Offset(sx, sy) + i]])
Downward(sx, sy, x, y) == Offset(x, y) > Offset(sx, sy)
LineOrder(down, h) == [i \in 1..h |-> IF down THEN h + 1 - i ELSE i - 1]
MoveVideo(sx, sy, x, y, w, h) ==
    FoldLeft(LAMBDA mem, i : MoveLine(sx, sy + i, x, y + i, w, mem), video, LineOrder(Downward(sx, sy, x, y), h))

----------------------------------------------------------------------------
(***************************************************************************)
(* The calls, each at TPL_NOTIFY from start to end, and what they ask for. *)
(* A call whose rectangle is not on the screen is refused.                 *)
(***************************************************************************)
Area(w, h) == (0..w - 1) \X (0..h - 1)
Paint(old, x, y, w, h, Colour) ==
    [at \in DOMAIN old |-> IF <<at[1] - x, at[2] - y>> \in Area(w, h) THEN Colour[<<at[1] - x, at[2] - y>>] ELSE old[at]]
Call == draw.pc = "on" /\ draw.left > 0 /\ draw.astray = {}
Done(deviations) == draw' = [draw EXCEPT !.left = IF draw.pc = "on" THEN @ - 1 ELSE @, !.pc = "on", !.astray = deviations]
Refuse(x, y, w, h) == Call /\ ~Fits(x, y, w, h) /\ Done({}) /\ UNCHANGED <<mode, video, blt, picture>>

VideoFill(colour, x, y, w, h) ==
    /\ Call /\ Fits(x, y, w, h)
    /\ video' = FillVideo(colour, x, y, w, h)
    /\ picture' = [picture EXCEPT !.screen = Paint(@, x, y, w, h, [at \in Area(w, h) |-> colour])]
    /\ Done({}) /\ UNCHANGED <<mode, blt>>

(* The client keeps its lines inside its buffer; Delta is 0 or counts the  *)
(* pixels of a whole line of it.                                           *)
InBuffer(bx, by, w, h, delta) ==
    /\ bx + w <= (IF delta = 0 THEN w ELSE delta)
    /\ (by + h - 1) * (IF delta = 0 THEN w ELSE delta) + bx + w <= Width * Height
Asked(bx, by, w, delta, at) == (by + at[2]) * (IF delta = 0 THEN w ELSE delta) + bx + at[1]
BufferToVideo(bx, by, x, y, w, h, delta) ==
    /\ Fits(x, y, w, h) /\ InBuffer(bx, by, w, h, delta)
    /\ video' = ShowVideo(bx, by, x, y, w, h, PixelsOfLine(w, delta))
    /\ picture' = [picture EXCEPT !.screen = Paint(@, x, y, w, h, [at \in Area(w, h) |-> blt[Asked(bx, by, w, delta, at)]])]
    /\ Done(IF mode.f.bgr /\ bx > 0 THEN {"sourceX"} ELSE {}) /\ UNCHANGED <<mode, blt>>
DrawLogo == draw.pc = "logo" /\ BufferToVideo(0, 0, 0, 0, Width, Height, 0)
VideoToBuffer(x, y, bx, by, w, h, delta) ==
    /\ Call /\ Fits(x, y, w, h) /\ InBuffer(bx, by, w, h, delta)
    /\ blt' = ReadVideo(x, y, bx, by, w, h, PixelsOfLine(w, delta))
    /\ LET wanted == {<<Asked(bx, by, w, delta, at), picture.screen[<<x + at[1], y + at[2]>>]>> : at \in Area(w, h)}
       IN picture' = [picture EXCEPT !.buffer = [p \in DOMAIN @ |-> IF \E r \in wanted : r[1] = p THEN (CHOOSE r \in wanted : r[1] = p)[2] ELSE @[p]]]
    /\ Done({}) /\ UNCHANGED <<mode, video>>
VideoToVideo(sx, sy, x, y, w, h) ==
    /\ Call /\ Fits(x, y, w, h) /\ Fits(sx, sy, w, h)
    /\ video' = MoveVideo(sx, sy, x, y, w, h)
    /\ picture' = [picture EXCEPT !.screen = Paint(@, x, y, w, h, [at \in Area(w, h) |-> picture.screen[<<sx + at[1], sy + at[2]>>]])]
    /\ Done(IF Offset(x, y) > Offset(sx, sy) THEN {"down"} ELSE {}) /\ UNCHANGED <<mode, blt>>

BltNext ==
    \/ Configure \/ DrawLogo
    \/ \E x \in Columns, y \in Rows, w \in 0..Width, h \in 0..Height :
        \/ Refuse(x, y, w, h)
        \/ \E colour \in {[blue |-> 1, green |-> 2, red |-> 3], [c \in Channels3 |-> 7]} : VideoFill(colour, x, y, w, h)
        \/ \E b \in {<<0, 0>>, <<1, 0>>, <<0, 1>>}, delta \in {0, Width} :
            \/ Call /\ BufferToVideo(b[1], b[2], x, y, w, h, delta)
            \/ VideoToBuffer(x, y, b[1], b[2], w, h, delta)
        \/ \E sx \in Columns, sy \in Rows : VideoToVideo(sx, sy, x, y, w, h)
BltSpec == BltInit /\ [][BltNext]_bltVars

----------------------------------------------------------------------------
OnScreen(i) == \E at \in DOMAIN picture.screen : i - Offset(at[1], at[2]) \in 0..mode.bytes - 1
Faithful ==
    draw.pc = "on" =>
        /\ \A at \in DOMAIN picture.screen : ColourAt(video, Offset(at[1], at[2])) = picture.screen[at]
        /\ \A i \in DOMAIN video : ~OnScreen(i) => video[i] = (IF i < FrameBytes(mode.bytes) THEN 0 ELSE Other)
        /\ blt = picture.buffer

(* After every sequence of calls the screen and the buffer hold the colours *)
(* that were asked for, whichever of its ways the library took, and nothing *)
(* off the screen has changed; the two kinds of call that go astray are     *)
(* the library's, and are named by the client.                              *)
DrawnExact == draw.astray = {} => Faithful

(* A rectangle moved on the screen arrives as it was, wherever it goes.    *)
MoveExact == "sourceX" \notin draw.astray => Faithful
=============================================================================
