------------------------------ MODULE MCDrivers ------------------------------
(***************************************************************************)
(* The small drivers for TLC.  No two of them share state, so a behaviour  *)
(* is one of any of them: part says which, and the slots hold its          *)
(* variables (those of ClockTree are its own: TLC evaluates the tables of  *)
(* a module once only if it is extended).  The constants are chosen so     *)
(* that the limits of each driver are met.                                 *)
(***************************************************************************)
EXTENDS ClockTree, TLC

CONSTANTS p1, p2, p3, none, g1, summary, smd, con1, con2,   \* model values
          SpmiCommands, PmicCalls, PmicFailures, I2cFaults, GpioCalls, PointerCalls, TextCalls,
          TextFailures, Transfers, BusErrors, BltCalls, MaintenanceCalls, CommandFaults,
          BindingCalls, BindingFaults, MaxWriters

VARIABLES part, slot1, slot2, slot3, slot4, slot5
vars == <<part, slot1, slot2, slot3, slot4, slot5, clk, users>>

NoClocks == clk = 0 /\ users = 0
Unused3 == slot4 = 0 /\ slot5 = 0 /\ NoClocks
Unused4 == slot5 = 0 /\ NoClocks
Keep5 == UNCHANGED <<part, clk, users>>
Keep4 == Keep5 /\ UNCHANGED slot5
Keep3 == Keep4 /\ UNCHANGED slot4

(* SpmiDxe: three peripherals, a channel without an owner, two owned by    *)
(* the same peripheral; buffers of one and two data registers.             *)
ChannelMap == (0 :> p1) @@ (1 :> none) @@ (2 :> p2) @@ (3 :> p1)
Spmi == INSTANCE SpmiArbiter WITH
    Peripherals <- {p1, p2, p3}, Channels <- 0..3, ChannelOwner <- ChannelMap, NoPeripheral <- none,
    Offsets <- {0, 3}, Sizes <- {1, 4, 5, 8},
    spmi <- slot1, arb <- slot2, pmicMem <- slot3, memAtCall <- slot4

(* Pm8x41Dxe and its users: conversions below, at, between and above the   *)
(* limits of adc_limit_result_range.                                       *)
Pmic == INSTANCE PmicDriver WITH
    RawValues <- {20000, 30265, 36000, 50000}, pmic <- slot1, prog <- slot2, pins <- slot3, sids <- slot4

I2c == INSTANCE I2cQup WITH i2c <- slot1, qup <- slot2, bridge <- slot3

Gpio == INSTANCE GpioTlmm WITH
    Pins <- {g1}, SummaryIrq <- summary, OtherIrqs <- {smd},
    gic <- slot1, lib <- slot2, pin <- slot3, want <- slot4

(* ConSplitterDxe's pointers: mice as fine as the virtual one, coarser and *)
(* without the axis, and a touch screen.                                   *)
Mice == ("m1" :> 2) @@ ("m2" :> 8) @@ ("m3" :> 0)
Pointer == INSTANCE ConSplitterPointer WITH
    Resolution <- Mice, MaxX <- ("t1" :> 4), VirtualResolution <- 8, VirtualMaxX <- 8, Room <- 2,
    ptr <- slot1, dev <- slot2, client <- slot3

Text == INSTANCE ConSplitterText WITH
    Consoles <- {con1, con2}, TextModes <- <<<<2, 2>>, <<3, 2>>>>,
    Strings <- {<<"a">>, <<"bs">>, <<"lf">>, <<"cr", "bs">>, <<"a", "a">>},
    split <- slot1, con <- slot2, ideal <- slot3

(* BamDxe: a FIFO of four descriptors that three transfers go around.      *)
Bam == INSTANCE BamPipe WITH FifoSize <- 4, MaxLen <- 2, pipe <- slot1, hw <- slot2, job <- slot3

(* FrameBufferBltLib: four bytes in the caller's order, in another, three  *)
(* bytes, and four without a reserved byte; lines longer than the screen.  *)
PixelFormats ==
    {[bgr |-> TRUE, android |-> FALSE, reserved |-> TRUE, stride |-> 2, place |-> [blue |-> 0, green |-> 1, red |-> 2]],
     [bgr |-> FALSE, android |-> FALSE, reserved |-> TRUE, stride |-> 3, place |-> [blue |-> 2, green |-> 1, red |-> 0]],
     [bgr |-> FALSE, android |-> TRUE, reserved |-> TRUE, stride |-> 2, place |-> [blue |-> 2, green |-> 1, red |-> 0]],
     [bgr |-> FALSE, android |-> FALSE, reserved |-> FALSE, stride |-> 3, place |-> [blue |-> 1, green |-> 2, red |-> 0]]}
Blt == INSTANCE FrameBufferBlt WITH
    Width <- 2, Height <- 3, Formats <- PixelFormats,
    mode <- slot1, video <- slot2, blt <- slot3, picture <- slot4, draw <- slot5

(* mmc_sdhci.c's maintenance: a sector addressed eMMC with high capacity   *)
(* groups, a byte addressed one, and an SD card.                           *)
Kinds == {[mmc |-> TRUE, hc |-> TRUE, bytes |-> FALSE, size |-> 1, mult |-> 1, wp |-> 2],
          [mmc |-> TRUE, hc |-> FALSE, bytes |-> TRUE, size |-> 2, mult |-> 1, wp |-> 1],
          [mmc |-> FALSE, hc |-> FALSE, bytes |-> FALSE, size |-> 2, mult |-> 1, wp |-> 1]}
Maintenance == INSTANCE MmcMaintenance WITH
    CardKinds <- Kinds, CardBlocks <- 8, HcUnit <- 2, SectorSize <- 2, MaxStat <- 3, RpmbPolls <- 5,
    Ranges <- [addr : {0, 1, 2, 6, 8}, len : {1, 3, 4}], BufferBytes <- {0, 1, 2},
    chip <- slot1, cached <- slot2, task <- slot3

Binding == INSTANCE KeypadBinding WITH held <- slot1, binding <- slot2, ticks <- slot3

(* FrameBufferSerialPortLib: two columns and three lines of glyphs.        *)
Log == INSTANCE FrameBufferLog WITH
    Width <- 16, Height <- 37, Scale <- 1, fbcon <- slot1, writers <- slot2, ints <- slot3, latest <- slot4

(* Register contents: no bit, each bit alone, and pairs of bits that lie   *)
(* next to each other, in neighbouring words or just across a word.        *)
RegisterBits == {{}} \cup {{b} : b \in 8..127} \cup {{b, b + d} : b \in 8..90, d \in {1, 3, 31, 32}}
SectorCounts == {<<{}, {}, {}, {}>>, <<{0}, {1}, {}, {6}>>, <<{7}, {7}, {7}, {7}>>}
Registers == INSTANCE CardRegisters WITH
    Answers <- RegisterBits, SecCounts <- SectorCounts, chip <- slot1, resp <- slot2, read <- slot3

ASSUME BoundsAssumption ==
    {GpioCalls, MaintenanceCalls, CommandFaults, BindingCalls, BindingFaults, Transfers, BusErrors} \subseteq Nat
ASSUME SpmiAssumption == Spmi!SpmiAssumption
ASSUME I2cFaultsAssumption == I2c!I2cFaultsAssumption

----------------------------------------------------------------------------
Init ==
    \/ part = "spmi" /\ Spmi!SpmiInitState /\ Unused4
    \/ part = "pmic" /\ Pmic!PmicInit /\ Unused4
    \/ part = "clock" /\ ClockInit /\ slot1 = 0 /\ slot2 = 0 /\ slot3 = 0 /\ slot4 = 0 /\ slot5 = 0
    \/ part = "i2c" /\ I2c!I2cInit /\ Unused3
    \/ part = "gpio" /\ Gpio!GpioInit /\ Unused4
    \/ part = "pointer" /\ Pointer!PtrInit /\ Unused3
    \/ part = "text" /\ Text!TextInit /\ Unused3
    \/ part = "bam" /\ Bam!BamInit /\ Unused3
    \/ part = "blt" /\ Blt!BltInit /\ NoClocks
    \/ part = "maintenance" /\ Maintenance!MntInit /\ Unused3
    \/ part = "binding" /\ Binding!BindInit /\ Unused3
    \/ part = "log" /\ Log!LogInit /\ Unused4
    \/ part = "registers" /\ Registers!RegInit /\ Unused3

Next ==
    \/ part = "spmi" /\ Spmi!SpmiNext /\ Keep4
    \/ part = "pmic" /\ Pmic!PmicNext /\ Keep4
    \/ part = "clock" /\ ClockNext /\ UNCHANGED <<part, slot1, slot2, slot3, slot4, slot5>>
    \/ part = "i2c" /\ I2c!I2cNext /\ Keep3
    \/ part = "gpio" /\ Gpio!GpioNext /\ Keep4
    \/ part = "pointer" /\ Pointer!PtrNext /\ Keep3
    \/ part = "text" /\ Text!TextNext /\ Keep3
    \/ part = "bam" /\ Bam!BamNext /\ Keep3
    \/ part = "blt" /\ Blt!BltNext /\ Keep5
    \/ part = "maintenance" /\ Maintenance!MntNext /\ Keep3
    \/ part = "binding" /\ Binding!BindNext /\ Keep3
    \/ part = "log" /\ Log!LogNext /\ Keep4
    \/ part = "registers" /\ Registers!RegNext /\ Keep3
Spec == Init /\ [][Next]_vars

----------------------------------------------------------------------------
(* A command on the PMIC bus that reports success moved exactly the        *)
(* caller's bytes, one that reports an error changed nothing (spmi.c).     *)
SpmiTransfer == part = "spmi" => Spmi!SpmiTransfer

(* What the PMIC functions leave behind and convert to (pm8x41.c,          *)
(* pm8x41_adc.c, ResetSystemLib.c).                                        *)
PmicResult == part = "pmic" => Pmic!CallLeaves /\ Pmic!ReferencesReadTrue

(* Pins, resets, secured registers and the USB controller are written only *)
(* in the states their manuals ask for (pm8x41.c, Msm8916UsbDxe.c).        *)
OnlyWhenSafe == [][part = "pmic" => Pmic!SafeStep]_vars

(* A clock that was given a rate has it, and a clock somebody holds runs   *)
(* (clock.c, clock_lib2.c, msm8909-clock.c).                               *)
ClockDelivered == part = "clock" => RateDelivered /\ HeldClocksRun

(* A transfer that returns its number of messages took place (i2c_qup.c).  *)
TransferReal == part = "i2c" => I2c!TransferReal

(* Interrupts are enabled for those who asked and pins are as configured   *)
(* (InterruptsLib.c, GpioTlmm.c, GpioTlmmInterrupt.c).                     *)
PinsAndInterrupts == part = "gpio" => Gpio!OnlyWantedInterrupts /\ Gpio!PinAsConfigured

(* What pointing devices hand over reaches the client (ConSplitter.c).     *)
InputDelivered == part = "pointer" => Pointer!InputDelivered

(* Every text console shows what the virtual one does (ConSplitter.c).     *)
ConsolesFollow == part = "text" => Text!ConsolesFollow

(* A transfer that ends with its event was moved whole (bam.c).            *)
TransferMoved == part = "bam" => Bam!TransferMoved

(* Screen and buffer hold the colours asked for (FrameBufferBltLib.c).     *)
DrawnExact == part = "blt" => Blt!DrawnExact

(* Erase, write protection and RPMB do to the card what they report, and   *)
(* leave it in its default partition (mmc_sdhci.c).                        *)
MaintenanceDone == part = "maintenance" => Maintenance!MaintenanceExact /\ Maintenance!PartitionRestored

(* Between calls of the binding the driver holds all of a device or        *)
(* nothing (Keypad.c).                                                     *)
DeviceWhole == part = "binding" => Binding!DeviceWhole

(* The log on the screen is readable wherever handlers break in            *)
(* (FrameBufferSerialPortLib.c).                                           *)
LogReadable == part = "log" => Log!LogReadable

(* What the driver decodes is what the card's registers say                *)
(* (mmc_sdhci.c).                                                          *)
RegistersRead == part = "registers" => Registers!RegistersRead

(* The run that finds one of the drivers at odds with its comments.        *)
BltSpec == part = "blt" /\ Spec

(* A rectangle moved on the screen arrives as it was: "Copy from last line *)
(* to avoid source is corrupted by copying" (FrameBufferBltLib.c:598).     *)
MoveExact == part = "blt" => Blt!MoveExact
=============================================================================
