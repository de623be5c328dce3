---------------------------- MODULE DriverProofs ----------------------------
(***************************************************************************)
(* What the small drivers promise, for all sizes of their parts: one       *)
(* section for each driver, which shares no name with the others.          *)
(***************************************************************************)
EXTENDS GpioTlmm, MmcMaintenance, SpmiArbiter, KeypadBinding, FrameBufferLog,
        BamPipe, SequenceTheorems, WellFoundedInduction, TLAPS

(***************************************************************************)
(* Pins and interrupts: any number of pins and interrupt lines, any number *)
(* of calls in any order, whatever the boot stage before left enabled or   *)
(* pending.                                                                *)
(***************************************************************************)
Lines == SUBSET Irqs
PCs == {"boot", "dist", "init", "find", "insert", "raise", "source", "mask", "restore",
        "unmask", "ready", "output"}
Outputs == {<<>>} \cup (Pins \X {0, 1})
Controllers == [on : BOOLEAN, enabled : Lines, pending : Lines]
Libraries == [entries : Lines, sources : Lines, pc : PCs, irq : Irqs, todo : Lines,
              tpl : {"high", "low"}, unmasked : Lines, out : Outputs,
              calls : Int]
WellTyped == gic \in Controllers /\ lib \in Libraries

\* The inductive invariant: a line is enabled beyond what its driver wants only where no
\* interrupt is taken, which is before the controller is reset and while register_int_handler
\* enables the line it masks again.
Here == IF lib.pc = "mask" THEN {lib.irq} ELSE {}
LinesInv ==
  /\ lib.pc \in {"boot", "dist", "source", "mask", "restore"} => lib.tpl = "high"
  /\ lib.pc \in {"raise", "source", "mask", "restore", "unmask"} => lib.irq \in lib.entries
  /\ lib.pc # "boot" => gic.enabled \subseteq (lib.unmasked \cap lib.entries) \cup Here
  /\ lib.sources \subseteq lib.entries
IInv == WellTyped /\ LinesInv

-----------------------------------------------------------------------------
LEMMA InvInit == ASSUME GpioCalls \in Nat, GpioInit PROVE IInv
<1>1. PICK left \in SUBSET Irqs, raised \in SUBSET Irqs :
        gic = [on |-> TRUE, enabled |-> left, pending |-> raised]
  BY DEF GpioInit
<1>2. gic \in Controllers
  BY <1>1 DEF Controllers, Lines
<1>3. /\ lib \in Libraries /\ lib.pc = "boot" /\ lib.tpl = "high"
      /\ lib.sources = {} /\ lib.entries = {}
  BY DEF GpioInit, Libraries, Lines, PCs, Irqs, Outputs
<1>. QED
  BY <1>2, <1>3 DEF IInv, WellTyped, LinesInv

\* A step that changes nothing of the library but the place, among those where nothing is
\* asked of the lines, and its counters.
LEMMA MovesKeep ==
  ASSUME IInv, WellTyped', gic'.enabled = gic.enabled, lib'.entries = lib.entries,
         lib'.sources = lib.sources, lib'.unmasked = lib.unmasked,
         \/ lib'.pc = lib.pc /\ lib'.tpl = lib.tpl /\ lib'.irq = lib.irq
         \/ /\ lib.pc \notin {"boot", "mask"}
            /\ lib'.pc \in {"init", "find", "insert", "ready", "output"}
  PROVE  IInv'
BY DEF IInv, LinesInv, Here

\* The calls on pins, and the events that are no driver's.
LEMMA CallKeeps ==
  ASSUME IInv, Called, Calling PROVE IInv'
<1>1. lib' = [lib EXCEPT !.calls = lib.calls - 1] /\ gic' = gic
  BY DEF Called
<1>2. /\ lib' \in Libraries /\ lib'.entries = lib.entries /\ lib'.sources = lib.sources
      /\ lib'.unmasked = lib.unmasked /\ lib'.pc = lib.pc /\ lib'.tpl = lib.tpl
      /\ lib'.irq = lib.irq
  BY <1>1 DEF IInv, WellTyped, Libraries
<1>. QED
  BY <1>1, <1>2, MovesKeep DEF IInv, WellTyped

LEMMA LibraryStands ==
  ASSUME IInv, lib' = lib, gic' \in Controllers, gic'.enabled = gic.enabled PROVE IInv'
BY MovesKeep DEF IInv, WellTyped

LEMMA PinCallKeeps ==
  ASSUME IInv, NEW p \in Pins,
         \/ PinEvent(p) \/ DirectionInput(p) \/ IrqMask(p) \/ IrqUnmask(p) \/ IrqAck(p)
         \/ SetCustomHandler(p)
         \/ \E fn \in {0, 2, 11} : SetFunction(p, fn)
         \/ \E ma \in {0, 3, 2, 16} : SetDriveStrength(p, ma)
         \/ \E pull \in {0, 3, 4} : SetPull(p, pull)
         \/ \E v \in {0, 1} : SetValue(p, v)
         \/ \E type \in Types : SetType(p, type)
         \/ TlmmSetPins(p, 5, 2)
  PROVE  IInv'
<1>1. CASE Calling /\ Called
  BY <1>1, CallKeeps
<1>2. CASE PinEvent(p)
  BY <1>2, LibraryStands DEF PinEvent, IInv, WellTyped
<1>. QED
  BY <1>1, <1>2 DEF DirectionInput, IrqMask, IrqUnmask, IrqAck, SetCustomHandler, SetFunction,
     SetDriveStrength, SetPull, SetValue, SetType, TlmmSetPins

LEMMA DirectionOutputKeeps ==
  ASSUME IInv, NEW p \in Pins, NEW v \in {0, 1}, DirectionOutput(p, v) PROVE IInv'
<1>. DEFINE out == <<p, v>>
            calls == lib.calls - 1
<1>1. /\ lib' = [lib EXCEPT !.calls = calls, !.pc = "output", !.out = out]
      /\ gic' = gic /\ lib.pc = "ready"
  BY DEF DirectionOutput, Calling, At
<1>2. out \in Outputs /\ calls \in Int
  BY DEF Outputs, IInv, WellTyped, Libraries
<1>. HIDE DEF out, calls
<1>3. /\ lib' \in Libraries /\ lib'.entries = lib.entries /\ lib'.sources = lib.sources
      /\ lib'.unmasked = lib.unmasked /\ lib'.pc = "output"
  BY <1>1, <1>2 DEF IInv, WellTyped, Libraries, PCs
<1>. QED
  BY <1>1, <1>3, MovesKeep DEF IInv, WellTyped

LEMMA EnableOutputKeeps == ASSUME IInv, EnableOutput PROVE IInv'
<1>1. lib' = [lib EXCEPT !.pc = "ready", !.out = <<>>] /\ gic' = gic /\ lib.pc = "output"
  BY DEF EnableOutput, At
<1>2. /\ lib' \in Libraries /\ lib'.entries = lib.entries /\ lib'.sources = lib.sources
      /\ lib'.unmasked = lib.unmasked /\ lib'.pc = "ready"
  BY <1>1 DEF IInv, WellTyped, Libraries, PCs, Outputs
<1>. QED
  BY <1>1, <1>2, MovesKeep DEF IInv, WellTyped

\* An interrupt changes nothing but what is pending.
LEMMA InterruptKeeps ==
  ASSUME IInv, NEW i \in Irqs, DeviceRaises(i) \/ TakeInterrupt(i) \/ SummaryRaised PROVE IInv'
<1>1. /\ lib' = lib
      /\ \E pending \in Lines : gic' = [gic EXCEPT !.pending = pending]
  <2>1. SummaryIrq \in Irqs /\ OtherIrqs \subseteq Irqs
    BY DEF Irqs
  <2>2. gic.pending \cup {i} \in Lines /\ gic.pending \ {i} \in Lines
        /\ gic.pending \cup {SummaryIrq} \in Lines
    BY <2>1 DEF IInv, WellTyped, Controllers, Lines
  <2>. QED
    BY <2>2 DEF DeviceRaises, TakeInterrupt, SummaryRaised
<1>2. gic' \in Controllers /\ gic'.enabled = gic.enabled
  BY <1>1 DEF IInv, WellTyped, Controllers
<1>. QED
  BY <1>1, <1>2, LibraryStands

\* The reset of the controller, and what register_int_handler does.
LEMMA RegistrationKeeps ==
  ASSUME IInv,
         \/ QGicHardwareReset \/ QGicDistInit \/ IrqInit \/ FindEntry \/ InsertEntry
         \/ RaiseTpl \/ RegisterSource \/ MaskSource \/ RestoreTpl \/ Unmask \/ LeaveMasked
  PROVE  IInv'
<1>. USE DEF At, Goto
<1>1. ASSUME NEW p \in PCs, lib' = [lib EXCEPT !.pc = p]
      PROVE  /\ lib' \in Libraries /\ lib'.entries = lib.entries /\ lib'.sources = lib.sources
             /\ lib'.unmasked = lib.unmasked /\ lib'.pc = p /\ lib'.tpl = lib.tpl
             /\ lib'.irq = lib.irq
  BY <1>1 DEF IInv, WellTyped, Libraries
<1>2. ASSUME NEW p \in PCs, NEW tpl \in {"high", "low"}, lib' = [lib EXCEPT !.pc = p, !.tpl = tpl]
      PROVE  /\ lib' \in Libraries /\ lib'.entries = lib.entries /\ lib'.sources = lib.sources
             /\ lib'.unmasked = lib.unmasked /\ lib'.pc = p /\ lib'.tpl = tpl
             /\ lib'.irq = lib.irq
  BY <1>2 DEF IInv, WellTyped, Libraries
<1>3. CASE QGicHardwareReset
  <2>1. gic' = [gic EXCEPT !.on = FALSE, !.enabled = {}, !.pending = {}] /\ lib.pc = "boot"
        /\ lib' = [lib EXCEPT !.pc = "dist"]
    BY <1>3 DEF QGicHardwareReset
  <2>2. gic' \in Controllers /\ gic'.enabled = {}
    BY <2>1 DEF IInv, WellTyped, Controllers, Lines
  <2>. QED
    BY <1>1, <2>1, <2>2 DEF IInv, WellTyped, LinesInv, PCs
<1>4. CASE QGicDistInit
  <2>1. gic' = [gic EXCEPT !.on = TRUE, !.enabled = {}] /\ lib.pc = "dist"
        /\ lib' = [lib EXCEPT !.pc = "init", !.tpl = "low"]
    BY <1>4 DEF QGicDistInit
  <2>2. gic' \in Controllers /\ gic'.enabled = {}
    BY <2>1 DEF IInv, WellTyped, Controllers, Lines
  <2>. QED
    BY <1>2, <2>1, <2>2 DEF IInv, WellTyped, LinesInv, PCs
<1>5. CASE IrqInit \/ FindEntry \/ LeaveMasked
  <2>1. \E p \in {"find", "insert", "ready"} : lib' = [lib EXCEPT !.pc = p]
    BY <1>5 DEF IrqInit, FindEntry, LeaveMasked
  <2>2. gic' = gic /\ lib.pc \in {"init", "find", "unmask"}
    BY <1>5 DEF IrqInit, FindEntry, LeaveMasked
  <2>. QED
    BY <1>1, <2>1, <2>2, MovesKeep DEF IInv, WellTyped, PCs
<1>6. CASE InsertEntry
  <2>. DEFINE entries == lib.entries \cup {lib.irq}
  <2>1. lib' = [lib EXCEPT !.entries = entries, !.pc = "raise"] /\ gic' = gic /\ lib.pc = "insert"
    BY <1>6 DEF InsertEntry
  <2>2. entries \in Lines /\ lib.irq \in entries /\ lib.entries \subseteq entries
    BY DEF IInv, WellTyped, Libraries, Lines
  <2>. HIDE DEF entries
  <2>3. /\ lib' \in Libraries /\ lib'.entries = entries /\ lib'.sources = lib.sources
        /\ lib'.unmasked = lib.unmasked /\ lib'.pc = "raise" /\ lib'.irq = lib.irq
    BY <2>1, <2>2 DEF IInv, WellTyped, Libraries, PCs
  <2>. QED
    BY <2>1, <2>2, <2>3 DEF IInv, WellTyped, LinesInv, Here
<1>7. CASE RaiseTpl
  <2>1. lib' = [lib EXCEPT !.pc = "source", !.tpl = "high"] /\ gic' = gic /\ lib.pc = "raise"
    BY <1>7 DEF RaiseTpl, IInv, WellTyped, Libraries
  <2>. QED
    BY <1>2, <2>1 DEF IInv, WellTyped, LinesInv, Here, PCs
<1>8. CASE RegisterSource
  <2>. DEFINE sources == lib.sources \cup {lib.irq}
              enabled == gic.enabled \cup {lib.irq}
  <2>1. /\ lib' = [lib EXCEPT !.sources = sources, !.pc = "mask"] /\ lib.pc = "source"
        /\ gic' = [gic EXCEPT !.enabled = enabled]
    BY <1>8 DEF RegisterSource
  <2>2. sources \in Lines /\ enabled \in Lines
    BY DEF IInv, WellTyped, Libraries, Controllers, Lines
  <2>3. lib.irq \in lib.entries /\ sources \subseteq lib.entries /\ lib.tpl = "high"
        /\ enabled \subseteq (lib.unmasked \cap lib.entries) \cup {lib.irq}
    BY <2>1 DEF IInv, LinesInv, Here
  <2>. HIDE DEF sources, enabled
  <2>4. /\ lib' \in Libraries /\ lib'.entries = lib.entries /\ lib'.sources = sources
        /\ lib'.unmasked = lib.unmasked /\ lib'.pc = "mask" /\ lib'.irq = lib.irq
        /\ lib'.tpl = lib.tpl
    BY <2>1, <2>2 DEF IInv, WellTyped, Libraries, PCs
  <2>5. gic' \in Controllers /\ gic'.enabled = enabled
    BY <2>1, <2>2 DEF IInv, WellTyped, Controllers
  <2>. QED
    BY <2>3, <2>4, <2>5 DEF IInv, WellTyped, LinesInv, Here
<1>9. CASE MaskSource
  <2>. DEFINE enabled == gic.enabled \ {lib.irq}
  <2>1. /\ lib' = [lib EXCEPT !.pc = "restore"] /\ lib.pc = "mask"
        /\ gic' = [gic EXCEPT !.enabled = enabled]
    BY <1>9 DEF MaskSource, Masked
  <2>2. enabled \in Lines /\ enabled \subseteq lib.unmasked \cap lib.entries
    BY <2>1 DEF IInv, WellTyped, Controllers, Lines, LinesInv, Here
  <2>. HIDE DEF enabled
  <2>3. gic' \in Controllers /\ gic'.enabled = enabled
    BY <2>1, <2>2 DEF IInv, WellTyped, Controllers
  <2>. QED
    BY <1>1, <2>1, <2>2, <2>3 DEF IInv, WellTyped, LinesInv, PCs
<1>10. CASE RestoreTpl
  <2>1. lib' = [lib EXCEPT !.pc = "unmask", !.tpl = "low"] /\ gic' = gic /\ lib.pc = "restore"
    BY <1>10 DEF RestoreTpl, IInv, WellTyped, Libraries
  <2>. QED
    BY <1>2, <2>1 DEF IInv, WellTyped, LinesInv, Here, PCs
<1>11. CASE Unmask
  <2>. DEFINE unmasked == lib.unmasked \cup {lib.irq}
              enabled == gic.enabled \cup {lib.irq}
  <2>1. /\ lib' = [lib EXCEPT !.unmasked = unmasked, !.pc = "ready"] /\ lib.pc = "unmask"
        /\ gic' = [gic EXCEPT !.enabled = enabled]
    BY <1>11 DEF Unmask
  <2>2. unmasked \in Lines /\ enabled \in Lines
    BY DEF IInv, WellTyped, Libraries, Controllers, Lines
  <2>3. enabled \subseteq unmasked \cap lib.entries
    BY <2>1 DEF IInv, LinesInv, Here
  <2>. HIDE DEF unmasked, enabled
  <2>4. /\ lib' \in Libraries /\ lib'.entries = lib.entries /\ lib'.sources = lib.sources
        /\ lib'.unmasked = unmasked /\ lib'.pc = "ready"
    BY <2>1, <2>2 DEF IInv, WellTyped, Libraries, PCs
  <2>5. gic' \in Controllers /\ gic'.enabled = enabled
    BY <2>1, <2>2 DEF IInv, WellTyped, Controllers
  <2>. QED
    BY <2>3, <2>4, <2>5 DEF IInv, WellTyped, LinesInv
<1>. QED
  BY <1>3, <1>4, <1>5, <1>6, <1>7, <1>8, <1>9, <1>10, <1>11

LEMMA NextDriverKeeps == ASSUME IInv, NEW i \in Irqs, NextDriver(i) PROVE IInv'
<1>. DEFINE todo == lib.todo \ {i}
<1>1. lib' = [lib EXCEPT !.todo = todo, !.irq = i, !.pc = "find"] /\ gic' = gic /\ lib.pc = "ready"
  BY DEF NextDriver, At
<1>2. todo \in Lines
  BY DEF IInv, WellTyped, Libraries, Lines
<1>. HIDE DEF todo
<1>3. /\ lib' \in Libraries /\ lib'.entries = lib.entries /\ lib'.sources = lib.sources
      /\ lib'.unmasked = lib.unmasked /\ lib'.pc = "find"
  BY <1>1, <1>2 DEF IInv, WellTyped, Libraries, PCs
<1>. QED
  BY <1>1, <1>3, MovesKeep DEF IInv, WellTyped

LEMMA MaskInterruptKeeps == ASSUME IInv, NEW i \in Irqs, MaskInterrupt(i) PROVE IInv'
<1>. DEFINE unmasked == lib.unmasked \ {i}
            enabled == gic.enabled \ {i}
<1>1. /\ lib' = [lib EXCEPT !.unmasked = unmasked] /\ lib.pc = "ready"
      /\ gic' = [gic EXCEPT !.enabled = enabled]
  BY DEF MaskInterrupt, Masked, At
<1>2. unmasked \in Lines /\ enabled \in Lines
  BY DEF IInv, WellTyped, Libraries, Controllers, Lines
<1>3. enabled \subseteq unmasked \cap lib.entries
  BY <1>1 DEF IInv, LinesInv, Here
<1>. HIDE DEF unmasked, enabled
<1>4. /\ lib' \in Libraries /\ lib'.entries = lib.entries /\ lib'.sources = lib.sources
      /\ lib'.unmasked = unmasked /\ lib'.pc = "ready"
  BY <1>1, <1>2 DEF IInv, WellTyped, Libraries
<1>5. gic' \in Controllers /\ gic'.enabled = enabled
  BY <1>1, <1>2 DEF IInv, WellTyped, Controllers
<1>. QED
  BY <1>3, <1>4, <1>5 DEF IInv, WellTyped, LinesInv

LEMMA NextKeeps == ASSUME IInv, [GpioNext]_gpioVars PROVE IInv'
<1>1. ASSUME NEW i \in Irqs, NextDriver(i) \/ MaskInterrupt(i) \/ DeviceRaises(i) \/ TakeInterrupt(i)
      PROVE  IInv'
  BY <1>1, NextDriverKeeps, MaskInterruptKeeps, InterruptKeeps
<1>2. CASE SummaryRaised
  BY <1>2, InterruptKeeps DEF Irqs
<1>3. ASSUME NEW p \in Pins,
             \/ PinEvent(p) \/ DirectionInput(p) \/ IrqMask(p) \/ IrqUnmask(p) \/ IrqAck(p)
             \/ SetCustomHandler(p)
             \/ \E fn \in {0, 2, 11} : SetFunction(p, fn)
             \/ \E ma \in {0, 3, 2, 16} : SetDriveStrength(p, ma)
             \/ \E pull \in {0, 3, 4} : SetPull(p, pull)
             \/ \E v \in {0, 1} : SetValue(p, v)
             \/ \E type \in Types : SetType(p, type)
             \/ TlmmSetPins(p, 5, 2)
      PROVE  IInv'
  BY <1>3, PinCallKeeps
<1>4. ASSUME NEW p \in Pins, NEW v \in {0, 1}, DirectionOutput(p, v) PROVE IInv'
  BY <1>4, DirectionOutputKeeps
<1>5. CASE UNCHANGED gpioVars
  BY <1>5, LibraryStands DEF gpioVars, IInv, WellTyped
<1>. QED
  BY <1>1, <1>2, <1>3, <1>4, <1>5, RegistrationKeeps, EnableOutputKeeps DEF GpioNext

LEMMA WantedLines == ASSUME IInv PROVE OnlyWantedInterrupts
BY DEF IInv, WellTyped, Libraries, PCs, LinesInv, Here, OnlyWantedInterrupts

\* Whatever is left enabled before DXE, whoever registers, masks and unmasks, and wherever an
\* interrupt is taken: a line that can be taken has a handler and is wanted, so the assertion
\* of InterruptsLibIrqHandler holds (Interrupts.c:53; EarlyQGic).
THEOREM InterruptsAreWanted == ASSUME GpioCalls \in Nat PROVE GpioSpec => []OnlyWantedInterrupts
<1>1. IInv => OnlyWantedInterrupts
  BY WantedLines
<1>. QED
  BY <1>1, InvInit, NextKeeps, PTL DEF GpioSpec

-----------------------------------------------------------------------------
(* The registers of the pins.                                               *)

PinRegs == [ctl : Int, io : {0, 2}, cfg : Int, status : BOOLEAN, enabled : BOOLEAN,
            custom : BOOLEAN, handler : {"none", "level", "edge"}]
Wants == [fn : 0..15, drv : 0..7, pull : 0..3, oe : {0, 1}, out : SUBSET {0, 1}, type : Types,
          on : {0, 1}, typed : BOOLEAN]

\* The two registers with fields, put together.
CtlOf(pull, fn, drv, oe) == pull + 4 * fn + 64 * drv + 512 * oe
CfgOf(on, pol, det, raw, target) == on + 2 * pol + 4 * det + 16 * raw + 32 * target
CfgFits(cfg, w, pol, det, raw, target) ==
  /\ cfg = CfgOf(w.on, pol, det, raw, target)
  /\ w.typed => pol = PolarityOf[w.type] /\ det = DetectionOf[w.type] /\ raw = 1 /\ target = 4
PinFits(r, w) ==
  /\ r \in PinRegs /\ w \in Wants
  /\ r.ctl = CtlOf(w.pull, w.fn, w.drv, w.oe)
  /\ w.oe = 1 => \E v \in w.out : r.io = 2 * v
  /\ r.enabled <=> w.on = 1
  /\ \E pol \in {0, 1}, det \in 0..3, raw \in {0, 1}, target \in 0..7 :
       CfgFits(r.cfg, w, pol, det, raw, target)
Finished == lib.pc # "output"
Outputting == /\ lib.out \in Pins \X {0, 1} /\ pin[lib.out[1]].io = 2 * lib.out[2]
PinsKept ==
  /\ pin \in [Pins -> PinRegs] /\ want \in [Pins -> Wants]
  /\ \A p \in Pins : PinFits(pin[p], want[p])
PinsInv ==
  /\ PinsKept
  /\ lib.pc = "output" => Outputting

\* Four bits hold the numbers of the functions.
LEMMA OnlyFour ==
  ASSUME NEW k \in 0..31, 2^k >= 12, k = 0 \/ 2^(k - 1) < 12 PROVE k = 4
<1>0. CASE k = 0
  BY <1>0
<1>1. CASE k = 1
  BY <1>1
<1>2. CASE k = 2
  BY <1>2
<1>3. CASE k = 3
  BY <1>3
<1>5. CASE k = 5
  BY <1>5
<1>6. CASE k = 6
  BY <1>6
<1>7. CASE k = 7
  BY <1>7
<1>8. CASE k = 8
  BY <1>8
<1>9. CASE k = 9
  BY <1>9
<1>10. CASE k = 10
  BY <1>10
<1>11. CASE k = 11
  BY <1>11
<1>12. CASE k = 12
  BY <1>12
<1>13. CASE k = 13
  BY <1>13
<1>14. CASE k = 14
  BY <1>14
<1>15. CASE k = 15
  BY <1>15
<1>16. CASE k = 16
  BY <1>16
<1>17. CASE k = 17
  BY <1>17
<1>18. CASE k = 18
  BY <1>18
<1>19. CASE k = 19
  BY <1>19
<1>20. CASE k = 20
  BY <1>20
<1>21. CASE k = 21
  BY <1>21
<1>22. CASE k = 22
  BY <1>22
<1>23. CASE k = 23
  BY <1>23
<1>24. CASE k = 24
  BY <1>24
<1>25. CASE k = 25
  BY <1>25
<1>26. CASE k = 26
  BY <1>26
<1>27. CASE k = 27
  BY <1>27
<1>28. CASE k = 28
  BY <1>28
<1>29. CASE k = 29
  BY <1>29
<1>30. CASE k = 30
  BY <1>30
<1>31. CASE k = 31
  BY <1>31
<1>. QED
  BY <1>0, <1>1, <1>2, <1>3, <1>5, <1>6, <1>7, <1>8, <1>9, <1>10, <1>11, <1>12, <1>13, <1>14, <1>15, <1>16, <1>17, <1>18, <1>19, <1>20, <1>21, <1>22, <1>23, <1>24, <1>25, <1>26, <1>27, <1>28, <1>29, <1>30, <1>31

LEMMA FourBits == OrderBase2(NumFunctions) = 4
<1>. DEFINE P(k) == 2^k >= 12 /\ (k = 0 \/ 2^(k - 1) < 12)
<1>1. 4 \in 0..31 /\ P(4)
  OBVIOUS
<1>2. \A k \in 0..31 : P(k) => k = 4
  BY OnlyFour
<1>3. OrderBase2(NumFunctions) = CHOOSE k \in 0..31 : P(k)
  BY DEF OrderBase2, NumFunctions
<1>. HIDE DEF P
<1>. QED
  BY <1>1, <1>2, <1>3

\* The fields, as numbers.
LEMMA FieldValues ==
  ASSUME NEW reg \in Int
  PROVE  /\ Get(reg, Pull) = reg % 4 /\ Get(reg, Mux) = (reg \div 4) % 16
         /\ Get(reg, Drv) = (reg \div 64) % 8 /\ Get(reg, Oe) = (reg \div 512) % 2
         /\ Get(reg, OutBit) = (reg \div 2) % 2
         /\ Get(reg, Enable) = reg % 2 /\ Get(reg, Polarity) = (reg \div 2) % 2
         /\ Get(reg, Detection) = (reg \div 4) % 4 /\ Get(reg, RawStatus) = (reg \div 16) % 2
         /\ Get(reg, Target) = (reg \div 32) % 8
<1>1. Get(reg, Pull) = reg % 4
  BY DEF Get, Pull, Fld
<1>2. Get(reg, Mux) = (reg \div 4) % 16
  BY FourBits DEF Get, Mux, MuxField, Fld
<1>3. Get(reg, Drv) = (reg \div 64) % 8
  BY DEF Get, Drv, Fld
<1>4. Get(reg, Oe) = (reg \div 512) % 2
  BY DEF Get, Oe, Fld
<1>5. Get(reg, OutBit) = (reg \div 2) % 2 /\ Get(reg, Polarity) = (reg \div 2) % 2
  BY DEF Get, OutBit, Polarity, Fld
<1>6. Get(reg, Enable) = reg % 2
  BY DEF Get, Enable, Fld
<1>7. Get(reg, Detection) = (reg \div 4) % 4
  BY DEF Get, Detection, Fld
<1>8. Get(reg, RawStatus) = (reg \div 16) % 2 /\ Get(reg, Target) = (reg \div 32) % 8
  BY DEF Get, RawStatus, Target, Fld
<1>. QED
  BY <1>1, <1>2, <1>3, <1>4, <1>5, <1>6, <1>7, <1>8

\* A register put together from its fields has them, and keeps the others when one is put.
LEMMA ControlReads ==
  ASSUME NEW pull \in 0..3, NEW fn \in 0..15, NEW drv \in 0..7, NEW oe \in {0, 1},
         NEW c, c = CtlOf(pull, fn, drv, oe)
  PROVE  Get(c, Pull) = pull /\ Get(c, Mux) = fn /\ Get(c, Drv) = drv /\ Get(c, Oe) = oe
<1>1. c = pull + 4 * fn + 64 * drv + 512 * oe /\ c \in 0..1023
  BY DEF CtlOf
<1>2. c % 4 = pull /\ (c \div 4) % 16 = fn
  <2>1. c % 4 = pull
    BY <1>1
  <2>2. c \div 4 = fn + 16 * drv + 128 * oe
    BY <1>1
  <2>. QED
    BY <2>1, <2>2
<1>3. (c \div 64) % 8 = drv /\ (c \div 512) % 2 = oe
  <2>1. c \div 64 = drv + 8 * oe
    BY <1>1
  <2>2. c \div 512 = oe
    BY <1>1
  <2>. QED
    BY <2>1, <2>2
<1>4. Get(c, Pull) = pull /\ Get(c, Mux) = fn /\ Get(c, Drv) = drv /\ Get(c, Oe) = oe
  <2>1. c \in Int
    BY <1>1
  <2>2. Get(c, Pull) = c % 4
    BY <2>1 DEF Get, Pull, Fld
  <2>3. Get(c, Mux) = (c \div 4) % 16
    BY <2>1, FourBits DEF Get, Mux, MuxField, Fld
  <2>4. Get(c, Drv) = (c \div 64) % 8
    BY <2>1 DEF Get, Drv, Fld
  <2>5. Get(c, Oe) = (c \div 512) % 2
    BY <2>1 DEF Get, Oe, Fld
  <2>. QED
    BY <1>2, <1>3, <2>2, <2>3, <2>4, <2>5
<1>. QED
  BY <1>4

LEMMA ConfigReads ==
  ASSUME NEW on \in {0, 1}, NEW pol \in {0, 1}, NEW det \in 0..3, NEW raw \in {0, 1},
         NEW target \in 0..7, NEW c, c = CfgOf(on, pol, det, raw, target)
  PROVE  /\ Get(c, Enable) = on /\ Get(c, Polarity) = pol /\ Get(c, Detection) = det
         /\ Get(c, RawStatus) = raw /\ Get(c, Target) = target
<1>1. c = on + 2 * pol + 4 * det + 16 * raw + 32 * target /\ c \in 0..255
  BY DEF CfgOf
<1>2. c % 2 = on /\ (c \div 2) % 2 = pol /\ (c \div 4) % 4 = det
  <2>1. c % 2 = on
    BY <1>1
  <2>2. c \div 2 = pol + 2 * det + 8 * raw + 16 * target
    BY <1>1
  <2>3. c \div 4 = det + 4 * raw + 8 * target
    BY <1>1
  <2>4. (c \div 2) % 2 = pol
    BY <2>2
  <2>5. (c \div 4) % 4 = det
    BY <2>3
  <2>. QED
    BY <2>1, <2>4, <2>5
<1>3. (c \div 16) % 2 = raw /\ (c \div 32) % 8 = target
  <2>1. c \div 16 = raw + 2 * target
    BY <1>1
  <2>2. c \div 32 = target
    BY <1>1
  <2>. QED
    BY <2>1, <2>2
<1>4. /\ Get(c, Enable) = on /\ Get(c, Polarity) = pol /\ Get(c, Detection) = det
      /\ Get(c, RawStatus) = raw /\ Get(c, Target) = target
  <2>1. c \in Int
    BY <1>1
  <2>2. Get(c, Enable) = c % 2
    BY <2>1 DEF Get, Enable, Fld
  <2>3. Get(c, Polarity) = (c \div 2) % 2
    BY <2>1 DEF Get, Polarity, Fld
  <2>4. Get(c, Detection) = (c \div 4) % 4
    BY <2>1 DEF Get, Detection, Fld
  <2>5. Get(c, RawStatus) = (c \div 16) % 2
    BY <2>1 DEF Get, RawStatus, Fld
  <2>6. Get(c, Target) = (c \div 32) % 8
    BY <2>1 DEF Get, Target, Fld
  <2>. QED
    BY <1>2, <1>3, <2>2, <2>3, <2>4, <2>5, <2>6
<1>. QED
  BY <1>4

LEMMA PutEnable ==
  ASSUME NEW on \in {0, 1}, NEW pol \in {0, 1}, NEW det \in 0..3, NEW raw \in {0, 1},
         NEW target \in 0..7, NEW c, c = CfgOf(on, pol, det, raw, target), NEW v \in Int
  PROVE  Put(c, Enable, v) = CfgOf(v, pol, det, raw, target)
<1>1. c = on + 2 * pol + 4 * det + 16 * raw + 32 * target /\ c \in Int
  BY DEF CfgOf
<1>2. Get(c, Enable) = on
  BY ConfigReads
<1>3. Put(c, Enable, v) = c - on + v
  BY <1>2 DEF Put, Enable, Fld
<1>. QED
  BY <1>1, <1>3 DEF CfgOf

LEMMA PutPolarity ==
  ASSUME NEW on \in {0, 1}, NEW pol \in {0, 1}, NEW det \in 0..3, NEW raw \in {0, 1},
         NEW target \in 0..7, NEW c, c = CfgOf(on, pol, det, raw, target), NEW v \in Int
  PROVE  Put(c, Polarity, v) = CfgOf(on, v, det, raw, target)
<1>1. c = on + 2 * pol + 4 * det + 16 * raw + 32 * target /\ c \in Int
  BY DEF CfgOf
<1>2. Get(c, Polarity) = pol
  BY ConfigReads
<1>3. Put(c, Polarity, v) = c - pol * 2 + v * 2
  BY <1>2 DEF Put, Polarity, Fld
<1>. QED
  BY <1>1, <1>3 DEF CfgOf

LEMMA PutDetection ==
  ASSUME NEW on \in {0, 1}, NEW pol \in {0, 1}, NEW det \in 0..3, NEW raw \in {0, 1},
         NEW target \in 0..7, NEW c, c = CfgOf(on, pol, det, raw, target), NEW v \in Int
  PROVE  Put(c, Detection, v) = CfgOf(on, pol, v, raw, target)
<1>1. c = on + 2 * pol + 4 * det + 16 * raw + 32 * target /\ c \in Int
  BY DEF CfgOf
<1>2. Get(c, Detection) = det
  BY ConfigReads
<1>3. Put(c, Detection, v) = c - det * 4 + v * 4
  BY <1>2 DEF Put, Detection, Fld
<1>. QED
  BY <1>1, <1>3 DEF CfgOf

LEMMA PutRawStatus ==
  ASSUME NEW on \in {0, 1}, NEW pol \in {0, 1}, NEW det \in 0..3, NEW raw \in {0, 1},
         NEW target \in 0..7, NEW c, c = CfgOf(on, pol, det, raw, target), NEW v \in Int
  PROVE  Put(c, RawStatus, v) = CfgOf(on, pol, det, v, target)
<1>1. c = on + 2 * pol + 4 * det + 16 * raw + 32 * target /\ c \in Int
  BY DEF CfgOf
<1>2. Get(c, RawStatus) = raw
  BY ConfigReads
<1>3. Put(c, RawStatus, v) = c - raw * 16 + v * 16
  BY <1>2 DEF Put, RawStatus, Fld
<1>. QED
  BY <1>1, <1>3 DEF CfgOf

LEMMA PutTarget ==
  ASSUME NEW on \in {0, 1}, NEW pol \in {0, 1}, NEW det \in 0..3, NEW raw \in {0, 1},
         NEW target \in 0..7, NEW c, c = CfgOf(on, pol, det, raw, target), NEW v \in Int
  PROVE  Put(c, Target, v) = CfgOf(on, pol, det, raw, v)
<1>1. c = on + 2 * pol + 4 * det + 16 * raw + 32 * target /\ c \in Int
  BY DEF CfgOf
<1>2. Get(c, Target) = target
  BY ConfigReads
<1>3. Put(c, Target, v) = c - target * 32 + v * 32
  BY <1>2 DEF Put, Target, Fld
<1>. QED
  BY <1>1, <1>3 DEF CfgOf

\* Registers that fit read as they were asked to.
LEMMA FittingReads ==
  ASSUME NEW r, NEW w, PinFits(r, w)
  PROVE  /\ Get(r.ctl, Mux) = w.fn /\ Get(r.ctl, Drv) = w.drv /\ Get(r.ctl, Pull) = w.pull
         /\ Get(r.ctl, Oe) = w.oe /\ r.ctl < 2^10
         /\ w.oe = 1 => Get(r.io, OutBit) \in w.out
         /\ Get(r.cfg, Enable) = w.on /\ (r.enabled <=> w.on = 1) /\ r.cfg < 2^8
         /\ w.typed => /\ Get(r.cfg, Detection) = DetectionOf[w.type]
                       /\ Get(r.cfg, Polarity) = PolarityOf[w.type]
                       /\ Get(r.cfg, Target) = 4 /\ Get(r.cfg, RawStatus) = 1
<1>1. r \in PinRegs /\ w \in Wants /\ (r.enabled <=> w.on = 1)
  BY DEF PinFits
<1>2. /\ w.pull \in 0..3 /\ w.fn \in 0..15 /\ w.drv \in 0..7 /\ w.oe \in {0, 1} /\ w.on \in {0, 1}
      /\ r.io \in {0, 2}
  BY <1>1 DEF Wants, PinRegs
<1>3. /\ Get(r.ctl, Mux) = w.fn /\ Get(r.ctl, Drv) = w.drv /\ Get(r.ctl, Pull) = w.pull
      /\ Get(r.ctl, Oe) = w.oe /\ r.ctl \in 0..1023
  <2>1. PICK pull \in 0..3, fn \in 0..15, drv \in 0..7, oe \in {0, 1} :
          pull = w.pull /\ fn = w.fn /\ drv = w.drv /\ oe = w.oe
    BY <1>2
  <2>2. PICK c : c = r.ctl
    OBVIOUS
  <2>3. c = CtlOf(pull, fn, drv, oe)
    BY <2>1, <2>2 DEF PinFits
  <2>4. Get(c, Pull) = pull /\ Get(c, Mux) = fn /\ Get(c, Drv) = drv /\ Get(c, Oe) = oe
    BY <2>3, ControlReads
  <2>5. c \in 0..1023
    BY <2>3 DEF CtlOf
  <2>. QED
    BY <2>1, <2>2, <2>4, <2>5
<1>4. w.oe = 1 => Get(r.io, OutBit) \in w.out
  <2>1. SUFFICES ASSUME NEW v \in w.out, r.io = 2 * v PROVE Get(r.io, OutBit) \in w.out
    BY DEF PinFits
  <2>2. v \in {0, 1}
    BY <1>1, <2>1 DEF Wants
  <2>3. Get(r.io, OutBit) = (r.io \div 2) % 2
    BY <1>2, FieldValues
  <2>4. (r.io \div 2) % 2 = v
    BY <2>1, <2>2
  <2>. QED
    BY <2>1, <2>3, <2>4
<1>5. PICK pol \in {0, 1}, det \in 0..3, raw \in {0, 1}, target \in 0..7 : CfgFits(r.cfg, w, pol, det, raw, target)
  BY DEF PinFits
<1>6. /\ Get(r.cfg, Enable) = w.on /\ Get(r.cfg, Polarity) = pol /\ Get(r.cfg, Detection) = det
      /\ Get(r.cfg, RawStatus) = raw /\ Get(r.cfg, Target) = target /\ r.cfg \in 0..255
  <2>1. PICK on \in {0, 1} : on = w.on
    BY <1>2
  <2>2. PICK c : c = r.cfg
    OBVIOUS
  <2>3. c = CfgOf(on, pol, det, raw, target)
    BY <1>5, <2>1, <2>2 DEF CfgFits
  <2>4. /\ Get(c, Enable) = on /\ Get(c, Polarity) = pol /\ Get(c, Detection) = det
        /\ Get(c, RawStatus) = raw /\ Get(c, Target) = target
    BY <2>3, ConfigReads
  <2>5. c \in 0..255
    BY <2>3 DEF CfgOf
  <2>. QED
    BY <2>1, <2>2, <2>4, <2>5
<1>7. w.typed => pol = PolarityOf[w.type] /\ det = DetectionOf[w.type] /\ raw = 1 /\ target = 4
  BY <1>5 DEF CfgFits
<1>8. 2^10 = 1024 /\ 2^8 = 256
  OBVIOUS
<1>9. r.ctl < 1024 /\ r.cfg < 256
  <2>1. (\A v \in 0..1023 : v < 1024) /\ (\A v \in 0..255 : v < 256)
    OBVIOUS
  <2>2. r.ctl \in 0..1023
    BY ONLY <1>3
  <2>3. r.cfg \in 0..255
    BY ONLY <1>6
  <2>. QED
    BY ONLY <2>1, <2>2, <2>3
<1>. QED
  BY <1>1, <1>3, <1>4, <1>6, <1>7, <1>8, <1>9

LEMMA ChangeKeepsPins ==
  ASSUME PinsInv, NEW p \in Pins, NEW s, NEW x, PinFits(s, x), Change(p, s, x)
  PROVE  PinsKept'
<1>1. pin' = [pin EXCEPT ![p] = s] /\ want' = [want EXCEPT ![p] = x]
  BY DEF Change
<1>2. s \in PinRegs /\ x \in Wants
  BY DEF PinFits
<1>3. pin' \in [Pins -> PinRegs] /\ want' \in [Pins -> Wants]
  BY <1>1, <1>2 DEF PinsInv, PinsKept
<1>4. ASSUME NEW q \in Pins PROVE PinFits(pin'[q], want'[q])
  <2>1. CASE q = p
    <3>1. pin'[q] = s /\ want'[q] = x
      BY <1>1, <2>1 DEF PinsInv, PinsKept
    <3>. QED
      BY <3>1
  <2>2. CASE q # p
    <3>1. pin'[q] = pin[q] /\ want'[q] = want[q]
      BY <1>1, <2>2 DEF PinsInv, PinsKept
    <3>. QED
      BY <3>1 DEF PinsInv, PinsKept
  <2>. QED
    BY <2>1, <2>2
<1>5. \A q \in Pins : PinFits(pin[q], want[q])'
  BY <1>4 DEF PinFits, CfgFits
<1>. QED
  BY <1>3, <1>5 DEF PinsKept

LEMMA ChangeKeeps ==
  ASSUME PinsInv, NEW p \in Pins, NEW s, NEW x, PinFits(s, x), Change(p, s, x), Finished'
  PROVE  PinsInv'
<1>1. PinsKept'
  BY ChangeKeepsPins
<1>. QED
  BY <1>1 DEF PinsInv, PinsKept, Finished

\* A pin whose configuration register and switches stay as they are.
LEMMA FitsAgain ==
  ASSUME NEW r, NEW w, NEW s, NEW x, PinFits(r, w), s \in PinRegs, x \in Wants,
         s.ctl = CtlOf(x.pull, x.fn, x.drv, x.oe),
         x.oe = 1 => \E v \in x.out : s.io = 2 * v,
         s.cfg = r.cfg, s.enabled = r.enabled,
         x.on = w.on, x.type = w.type, x.typed = w.typed
  PROVE  PinFits(s, x)
<1>1. PICK pol \in {0, 1}, det \in 0..3, raw \in {0, 1}, target \in 0..7 : CfgFits(r.cfg, w, pol, det, raw, target)
  BY DEF PinFits
<1>2. CfgFits(s.cfg, x, pol, det, raw, target)
  BY <1>1 DEF CfgFits
<1>3. s.enabled <=> x.on = 1
  BY DEF PinFits
<1>. QED
  BY <1>2, <1>3 DEF PinFits

\* A step that writes none of these registers.
LEMMA QuietKeeps ==
  ASSUME PinsInv, pin' \in [Pins -> PinRegs], want' = want,
         \A p \in Pins : /\ pin'[p].ctl = pin[p].ctl /\ pin'[p].io = pin[p].io
                         /\ pin'[p].cfg = pin[p].cfg /\ pin'[p].enabled = pin[p].enabled,
         lib'.pc = "output" => lib.pc = "output" /\ lib'.out = lib.out
  PROVE  PinsInv'
<1>1. ASSUME NEW q \in Pins PROVE PinFits(pin'[q], want'[q])
  <2>1. PinFits(pin[q], want[q])
    BY DEF PinsInv, PinsKept
  <2>2. pin'[q] \in PinRegs
    OBVIOUS
  <2>3. /\ pin'[q].ctl = pin[q].ctl /\ pin'[q].io = pin[q].io
        /\ pin'[q].cfg = pin[q].cfg /\ pin'[q].enabled = pin[q].enabled
    OBVIOUS
  <2>4. /\ want[q] \in Wants /\ pin[q].ctl = CtlOf(want[q].pull, want[q].fn, want[q].drv, want[q].oe)
        /\ want[q].oe = 1 => \E v \in want[q].out : pin[q].io = 2 * v
    BY <2>1 DEF PinFits
  <2>5. PinFits(pin'[q], want[q])
    BY ONLY <2>1, <2>2, <2>3, <2>4, FitsAgain
  <2>. QED
    BY <2>5
<1>2. \A q \in Pins : PinFits(pin[q], want[q])'
  BY <1>1 DEF PinFits, CfgFits
<1>3. lib'.pc = "output" => Outputting'
  BY DEF PinsInv, PinsKept, Outputting
<1>. QED
  BY <1>2, <1>3 DEF PinsInv, PinsKept

LEMMA OutputWritten ==
  ASSUME NEW io \in {0, 2}, NEW v \in {0, 1} PROVE Put(io, OutBit, v) = 2 * v
<1>1. Get(io, OutBit) = (io \div 2) % 2
  BY FieldValues
<1>2. Put(io, OutBit, v) = io - ((io \div 2) % 2) * 2 + v * 2
  BY <1>1 DEF Put, OutBit, Fld
<1>3. CASE io = 0
  BY <1>2, <1>3
<1>4. CASE io = 2
  BY <1>2, <1>4
<1>. QED
  BY <1>3, <1>4

\* A field of the control register written: the register as it is put together afterwards.
LEMMA FieldWritten ==
  ASSUME NEW r, NEW w, PinFits(r, w), NEW v \in Int
  PROVE  /\ Put(r.ctl, Pull, v) = CtlOf(v, w.fn, w.drv, w.oe)
         /\ Put(r.ctl, Mux, v) = CtlOf(w.pull, v, w.drv, w.oe)
         /\ Put(r.ctl, Drv, v) = CtlOf(w.pull, w.fn, v, w.oe)
         /\ Put(r.ctl, Oe, v) = CtlOf(w.pull, w.fn, w.drv, v)
<1>1. PICK pull \in 0..3, fn \in 0..15, drv \in 0..7, oe \in {0, 1} :
        pull = w.pull /\ fn = w.fn /\ drv = w.drv /\ oe = w.oe
  BY DEF PinFits, Wants
<1>2. PICK c : c = r.ctl
  OBVIOUS
<1>3. c = CtlOf(pull, fn, drv, oe)
  BY <1>1, <1>2 DEF PinFits
<1>4. c = pull + 4 * fn + 64 * drv + 512 * oe
  BY <1>3 DEF CtlOf
<1>5. Get(c, Pull) = pull /\ Get(c, Mux) = fn /\ Get(c, Drv) = drv /\ Get(c, Oe) = oe
  BY <1>3, ControlReads
<1>6. /\ Put(c, Pull, v) = CtlOf(v, fn, drv, oe) /\ Put(c, Mux, v) = CtlOf(pull, v, drv, oe)
      /\ Put(c, Drv, v) = CtlOf(pull, fn, v, oe) /\ Put(c, Oe, v) = CtlOf(pull, fn, drv, v)
  <2>. c \in Int
    BY <1>4
  <2>1. Put(c, Pull, v) = CtlOf(v, fn, drv, oe)
    <3>1. Put(c, Pull, v) = c - pull + v
      BY <1>5 DEF Put, Pull, Fld
    <3>. QED
      BY <1>4, <3>1 DEF CtlOf
  <2>2. Put(c, Mux, v) = CtlOf(pull, v, drv, oe)
    <3>1. Put(c, Mux, v) = c - fn * 4 + v * 4
      BY <1>5, FourBits DEF Put, Mux, MuxField, Fld
    <3>. QED
      BY <1>4, <3>1 DEF CtlOf
  <2>3. Put(c, Drv, v) = CtlOf(pull, fn, v, oe)
    <3>1. Put(c, Drv, v) = c - drv * 64 + v * 64
      BY <1>5 DEF Put, Drv, Fld
    <3>. QED
      BY <1>4, <3>1 DEF CtlOf
  <2>4. Put(c, Oe, v) = CtlOf(pull, fn, drv, v)
    <3>1. Put(c, Oe, v) = c - oe * 512 + v * 512
      BY <1>5 DEF Put, Oe, Fld
    <3>. QED
      BY <1>4, <3>1 DEF CtlOf
  <2>. QED
    BY <2>1, <2>2, <2>3, <2>4
<1>. QED
  BY <1>1, <1>2, <1>6

\* A call on a pin that leaves the two registers as the callers want them.
LEMMA CallFits ==
  ASSUME PinsInv, NEW p \in Pins, NEW ctl \in Int, NEW x \in Wants,
         NEW s, s = [pin[p] EXCEPT !.ctl = ctl],
         x.on = want[p].on, x.type = want[p].type, x.typed = want[p].typed,
         x.oe = 1 => want[p].oe = 1 /\ x.out = want[p].out,
         ctl = CtlOf(x.pull, x.fn, x.drv, x.oe)
  PROVE  PinFits(s, x)
<1>1. pin[p] \in PinRegs /\ PinFits(pin[p], want[p])
  BY DEF PinsInv, PinsKept
<1>2. /\ s \in PinRegs /\ s.cfg = pin[p].cfg /\ s.enabled = pin[p].enabled
      /\ s.io = pin[p].io /\ s.ctl = ctl
  BY <1>1 DEF PinRegs
<1>3. x.oe = 1 => \E v \in x.out : s.io = 2 * v
  BY <1>1, <1>2 DEF PinFits
<1>4. /\ x \in Wants /\ x.on = want[p].on /\ x.type = want[p].type /\ x.typed = want[p].typed
      /\ s.ctl = CtlOf(x.pull, x.fn, x.drv, x.oe)
  BY <1>2
<1>. QED
  BY ONLY <1>1, <1>2, <1>3, <1>4, FitsAgain

LEMMA CallEnds == ASSUME lib \in Libraries, Calling, Called PROVE Finished'
BY DEF Calling, Called, At, Libraries, Finished

LEMMA SetFunctionKeeps ==
  ASSUME WellTyped, PinsInv, NEW p \in Pins, NEW fn \in {0, 2, 11}, SetFunction(p, fn)
  PROVE  PinsInv'
<1>. DEFINE x == [want[p] EXCEPT !.fn = fn]
<1>1. want[p] \in Wants /\ PinFits(pin[p], want[p])
  BY DEF PinsInv, PinsKept
<1>2. /\ x \in Wants /\ x.on = want[p].on /\ x.type = want[p].type /\ x.typed = want[p].typed
      /\ x.oe = want[p].oe /\ x.out = want[p].out /\ x.pull = want[p].pull /\ x.drv = want[p].drv
      /\ x.fn = fn
  BY <1>1 DEF Wants
<1>3. PICK ctl : ctl = Put(pin[p].ctl, Mux, fn)
  OBVIOUS
<1>4. ctl = CtlOf(x.pull, x.fn, x.drv, x.oe)
  BY <1>1, <1>2, <1>3, FieldWritten
<1>5. ctl \in Int
  BY <1>2, <1>4 DEF CtlOf, Wants
<1>6. PICK s : s = [pin[p] EXCEPT !.ctl = ctl]
  OBVIOUS
<1>7. Change(p, s, x) /\ Finished'
  BY <1>3, <1>6, CallEnds DEF SetFunction, WellTyped
<1>. HIDE DEF x
<1>8. PinFits(s, x)
  BY <1>2, <1>4, <1>5, <1>6, CallFits
<1>. QED
  BY <1>7, <1>8, ChangeKeeps

LEMMA SetDriveStrengthKeeps ==
  ASSUME WellTyped, PinsInv, NEW p \in Pins, NEW ma \in {0, 3, 2, 16}, SetDriveStrength(p, ma)
  PROVE  PinsInv'
<1>. DEFINE v == (ma \div 2) - 1
            x == [want[p] EXCEPT !.drv = v]
<1>1. want[p] \in Wants /\ PinFits(pin[p], want[p])
  BY DEF PinsInv, PinsKept
<1>2. Finished'
  BY CallEnds DEF SetDriveStrength, WellTyped
<1>3. CASE ~ValidStrength(ma)
  <2>1. pin' = pin /\ want' = want
    BY <1>3 DEF SetDriveStrength
  <2>. QED
    BY <1>2, <2>1, QuietKeeps DEF Finished, PinsInv, PinsKept
<1>4. CASE ValidStrength(ma)
  <2>1. v \in 0..7
    BY <1>4 DEF ValidStrength
  <2>2. /\ x \in Wants /\ x.on = want[p].on /\ x.type = want[p].type /\ x.typed = want[p].typed
        /\ x.oe = want[p].oe /\ x.out = want[p].out /\ x.pull = want[p].pull /\ x.fn = want[p].fn
        /\ x.drv = v
    BY <1>1, <2>1 DEF Wants
  <2>3. Change(p, [pin[p] EXCEPT !.ctl = Put(pin[p].ctl, Drv, v)], x)
    BY <1>4 DEF SetDriveStrength
  <2>. HIDE DEF x, v
  <2>4. PICK ctl : ctl = Put(pin[p].ctl, Drv, v)
    OBVIOUS
  <2>5. ctl = CtlOf(x.pull, x.fn, x.drv, x.oe)
    BY <1>1, <2>1, <2>2, <2>4, FieldWritten
  <2>6. ctl \in Int
    BY <2>2, <2>5 DEF CtlOf, Wants
  <2>7. PICK s : s = [pin[p] EXCEPT !.ctl = ctl]
    OBVIOUS
  <2>8. Change(p, s, x)
    BY <2>3, <2>4, <2>7
  <2>9. PinFits(s, x)
    BY <2>2, <2>5, <2>6, <2>7, CallFits
  <2>. QED
    BY <1>2, <2>8, <2>9, ChangeKeeps
<1>. QED
  BY <1>3, <1>4

LEMMA SetPullKeeps ==
  ASSUME WellTyped, PinsInv, NEW p \in Pins, NEW v \in {0, 3, 4}, SetPull(p, v)
  PROVE  PinsInv'
<1>. DEFINE x == [want[p] EXCEPT !.pull = v]
<1>1. want[p] \in Wants /\ PinFits(pin[p], want[p])
  BY DEF PinsInv, PinsKept
<1>2. Finished'
  BY CallEnds DEF SetPull, WellTyped
<1>3. CASE ~(v < 4)
  <2>1. pin' = pin /\ want' = want
    BY <1>3 DEF SetPull
  <2>. QED
    BY <1>2, <2>1, QuietKeeps DEF Finished, PinsInv, PinsKept
<1>4. CASE v < 4
  <2>1. v \in 0..3
    BY <1>4
  <2>2. /\ x \in Wants /\ x.on = want[p].on /\ x.type = want[p].type /\ x.typed = want[p].typed
        /\ x.oe = want[p].oe /\ x.out = want[p].out /\ x.drv = want[p].drv /\ x.fn = want[p].fn
        /\ x.pull = v
    BY <1>1, <2>1 DEF Wants
  <2>3. Change(p, [pin[p] EXCEPT !.ctl = Put(pin[p].ctl, Pull, v)], x)
    BY <1>4 DEF SetPull
  <2>. HIDE DEF x
  <2>4. PICK ctl : ctl = Put(pin[p].ctl, Pull, v)
    OBVIOUS
  <2>5. ctl = CtlOf(x.pull, x.fn, x.drv, x.oe)
    BY <1>1, <2>1, <2>2, <2>4, FieldWritten
  <2>6. ctl \in Int
    BY <2>2, <2>5 DEF CtlOf, Wants
  <2>7. PICK s : s = [pin[p] EXCEPT !.ctl = ctl]
    OBVIOUS
  <2>8. Change(p, s, x)
    BY <2>3, <2>4, <2>7
  <2>9. PinFits(s, x)
    BY <2>2, <2>5, <2>6, <2>7, CallFits
  <2>. QED
    BY <1>2, <2>8, <2>9, ChangeKeeps
<1>. QED
  BY <1>3, <1>4

LEMMA DirectionInputKeeps ==
  ASSUME WellTyped, PinsInv, NEW p \in Pins, DirectionInput(p)
  PROVE  PinsInv'
<1>. DEFINE x == [want[p] EXCEPT !.oe = 0]
<1>1. want[p] \in Wants /\ PinFits(pin[p], want[p])
  BY DEF PinsInv, PinsKept
<1>2. /\ x \in Wants /\ x.on = want[p].on /\ x.type = want[p].type /\ x.typed = want[p].typed
      /\ x.oe = 0 /\ x.pull = want[p].pull /\ x.drv = want[p].drv /\ x.fn = want[p].fn
  BY <1>1 DEF Wants
<1>3. PICK ctl : ctl = Put(pin[p].ctl, Oe, 0)
  OBVIOUS
<1>4. ctl = CtlOf(x.pull, x.fn, x.drv, x.oe)
  BY <1>1, <1>2, <1>3, FieldWritten
<1>5. ctl \in Int
  BY <1>2, <1>4 DEF CtlOf, Wants
<1>6. PICK s : s = [pin[p] EXCEPT !.ctl = ctl]
  OBVIOUS
<1>7. Change(p, s, x) /\ Finished'
  BY <1>3, <1>6, CallEnds DEF DirectionInput, WellTyped
<1>. HIDE DEF x
<1>8. PinFits(s, x)
  BY <1>2, <1>4, <1>5, <1>6, CallFits
<1>. QED
  BY <1>7, <1>8, ChangeKeeps

LEMMA TlmmSetPinsKeeps ==
  ASSUME WellTyped, PinsInv, NEW p \in Pins, TlmmSetPins(p, 5, 2)
  PROVE  PinsInv'
<1>. DEFINE y == [want[p] EXCEPT !.drv = 5]
            x == [want[p] EXCEPT !.drv = 5, !.pull = 2]
<1>1. want[p] \in Wants /\ PinFits(pin[p], want[p]) /\ pin[p] \in PinRegs
  BY DEF PinsInv, PinsKept, PinFits
<1>3. /\ y \in Wants /\ y.on = want[p].on /\ y.type = want[p].type /\ y.typed = want[p].typed
      /\ y.oe = want[p].oe /\ y.out = want[p].out /\ y.drv = 5 /\ y.pull = want[p].pull
      /\ y.fn = want[p].fn
  BY <1>1 DEF Wants
<1>2. /\ x \in Wants /\ x.on = want[p].on /\ x.type = want[p].type /\ x.typed = want[p].typed
      /\ x.oe = want[p].oe /\ x.out = want[p].out /\ x.drv = 5 /\ x.pull = 2 /\ x.fn = want[p].fn
  <2>1. x = [y EXCEPT !.pull = 2]
    BY <1>1 DEF Wants
  <2>. HIDE DEF x, y
  <2>2. /\ x \in Wants /\ x.pull = 2 /\ x.drv = y.drv /\ x.fn = y.fn /\ x.on = y.on
        /\ x.type = y.type /\ x.typed = y.typed /\ x.oe = y.oe /\ x.out = y.out
    BY <1>3, <2>1 DEF Wants
  <2>. QED
    BY <1>3, <2>2
<1>4. Change(p, [pin[p] EXCEPT !.ctl = Put(Put(pin[p].ctl, Drv, 5), Pull, 2)], x) /\ Finished'
  BY CallEnds DEF TlmmSetPins, WellTyped
<1>. HIDE DEF x, y
<1>5. PICK one : one = Put(pin[p].ctl, Drv, 5)
  OBVIOUS
<1>6. one = CtlOf(y.pull, y.fn, y.drv, y.oe)
  BY <1>1, <1>3, <1>5, FieldWritten
<1>7. one \in Int
  BY <1>3, <1>6 DEF CtlOf, Wants
<1>8. PICK r : r = [pin[p] EXCEPT !.ctl = one]
  OBVIOUS
<1>9. PinFits(r, y) /\ r.ctl = one
  <2>1. r.ctl = one
    BY <1>1, <1>8 DEF PinRegs
  <2>2. PinFits(r, y)
    BY <1>3, <1>6, <1>7, <1>8, CallFits
  <2>. QED
    BY <2>1, <2>2
<1>10. PICK ctl : ctl = Put(one, Pull, 2)
  OBVIOUS
<1>11. ctl = CtlOf(x.pull, x.fn, x.drv, x.oe)
  <2>1. Put(r.ctl, Pull, 2) = CtlOf(2, y.fn, y.drv, y.oe)
    BY <1>9, FieldWritten
  <2>. QED
    BY <1>2, <1>3, <1>9, <1>10, <2>1
<1>12. ctl \in Int
  BY <1>2, <1>11 DEF CtlOf, Wants
<1>13. PICK s : s = [pin[p] EXCEPT !.ctl = ctl]
  OBVIOUS
<1>14. Change(p, s, x)
  BY <1>4, <1>5, <1>10, <1>13
<1>15. PinFits(s, x)
  BY <1>2, <1>11, <1>12, <1>13, CallFits
<1>. QED
  BY <1>4, <1>14, <1>15, ChangeKeeps

\* A value written for a pin, among those asked for.
LEMMA ValueFits ==
  ASSUME PinsInv, NEW p \in Pins, NEW v \in {0, 1}, NEW x \in Wants, v \in x.out,
         x.on = want[p].on, x.type = want[p].type, x.typed = want[p].typed,
         x.fn = want[p].fn, x.drv = want[p].drv, x.pull = want[p].pull, x.oe = want[p].oe,
         NEW s, s = [pin[p] EXCEPT !.io = Put(pin[p].io, OutBit, v)]
  PROVE  PinFits(s, x) /\ s.io = 2 * v
<1>1. pin[p] \in PinRegs /\ PinFits(pin[p], want[p])
  BY DEF PinsInv, PinsKept
<1>2. Put(pin[p].io, OutBit, v) = 2 * v
  <2>1. PICK io \in {0, 2} : io = pin[p].io
    BY <1>1 DEF PinRegs
  <2>. QED
    BY <2>1, OutputWritten
<1>3. 2 * v \in {0, 2}
  OBVIOUS
<1>4. PICK io \in {0, 2} : io = 2 * v
  BY <1>3
<1>5. s = [pin[p] EXCEPT !.io = io]
  BY <1>2, <1>4
<1>6. /\ s \in PinRegs /\ s.ctl = pin[p].ctl /\ s.cfg = pin[p].cfg
      /\ s.enabled = pin[p].enabled /\ s.io = io
  BY <1>1, <1>5 DEF PinRegs
<1>7. x.oe = 1 => \E u \in x.out : s.io = 2 * u
  BY <1>4, <1>6
<1>8. s.io = 2 * v
  BY <1>4, <1>6
<1>9. s.ctl = CtlOf(x.pull, x.fn, x.drv, x.oe)
  BY <1>1, <1>6 DEF PinFits
<1>10. PinFits(s, x)
  <2>1. x \in Wants /\ x.on = want[p].on /\ x.type = want[p].type /\ x.typed = want[p].typed
    OBVIOUS
  <2>. QED
    BY ONLY <1>1, <1>6, <1>7, <1>9, <2>1, FitsAgain
<1>. QED
  BY <1>8, <1>10

LEMMA SetValueKeeps ==
  ASSUME WellTyped, PinsInv, NEW p \in Pins, NEW v \in {0, 1}, SetValue(p, v)
  PROVE  PinsInv'
<1>. DEFINE x == [want[p] EXCEPT !.out = {v}]
<1>1. want[p] \in Wants
  BY DEF PinsInv, PinsKept
<1>2. /\ x \in Wants /\ x.on = want[p].on /\ x.type = want[p].type /\ x.typed = want[p].typed
      /\ x.oe = want[p].oe /\ x.pull = want[p].pull /\ x.drv = want[p].drv /\ x.fn = want[p].fn
      /\ v \in x.out
  BY <1>1 DEF Wants
<1>3. PICK s : s = [pin[p] EXCEPT !.io = Put(pin[p].io, OutBit, v)]
  OBVIOUS
<1>4. Change(p, s, x) /\ Finished'
  BY <1>3, CallEnds DEF SetValue, WellTyped
<1>. HIDE DEF x
<1>5. PinFits(s, x)
  BY <1>2, <1>3, ValueFits
<1>. QED
  BY <1>4, <1>5, ChangeKeeps

LEMMA ValueAheadKeeps ==
  ASSUME WellTyped, PinsInv, NEW p \in Pins, NEW v \in {0, 1}, DirectionOutput(p, v)
  PROVE  PinsInv'
<1>. DEFINE out == IF want[p].oe = 1 THEN want[p].out \cup {v} ELSE {v}
            x == [want[p] EXCEPT !.out = out]
<1>1. want[p] \in Wants
  BY DEF PinsInv, PinsKept
<1>2. out \in SUBSET {0, 1} /\ v \in out
  BY <1>1 DEF Wants
<1>3. Change(p, [pin[p] EXCEPT !.io = Put(pin[p].io, OutBit, v)], x)
  BY DEF DirectionOutput
<1>. HIDE DEF out
<1>4. /\ x \in Wants /\ x.on = want[p].on /\ x.type = want[p].type /\ x.typed = want[p].typed
      /\ x.oe = want[p].oe /\ x.pull = want[p].pull /\ x.drv = want[p].drv /\ x.fn = want[p].fn
      /\ v \in x.out
  BY <1>1, <1>2 DEF Wants
<1>5. PICK s : s = [pin[p] EXCEPT !.io = Put(pin[p].io, OutBit, v)]
  OBVIOUS
<1>. HIDE DEF x
<1>6. PinFits(s, x) /\ s.io = 2 * v
  BY <1>4, <1>5, ValueFits
<1>7. Change(p, s, x)
  BY <1>3, <1>5
<1>8. PinsKept'
  BY <1>6, <1>7, ChangeKeepsPins
<1>9. lib'.out = <<p, v>>
  BY DEF DirectionOutput, WellTyped, Libraries
<1>10. pin'[p].io = 2 * v
  BY <1>6, <1>7 DEF Change, PinsInv, PinsKept
<1>11. Outputting'
  BY <1>9, <1>10 DEF Outputting
<1>. QED
  BY <1>8, <1>11 DEF PinsInv

LEMMA TurnedOutputKeeps ==
  ASSUME WellTyped, PinsInv, EnableOutput
  PROVE  PinsInv'
<1>1. Outputting /\ Finished'
  BY DEF EnableOutput, At, PinsInv, PinsKept, WellTyped, Libraries, Finished
<1>2. PICK p \in Pins, v \in {0, 1} : lib.out = <<p, v>>
  BY <1>1 DEF Outputting
<1>3. pin[p].io = 2 * v
  BY <1>1, <1>2 DEF Outputting
<1>. DEFINE y == [want[p] EXCEPT !.oe = 1]
            x == [want[p] EXCEPT !.oe = 1, !.out = {v}]
<1>4. want[p] \in Wants /\ pin[p] \in PinRegs /\ PinFits(pin[p], want[p])
  BY DEF PinsInv, PinsKept
<1>5. /\ y \in Wants /\ y.on = want[p].on /\ y.type = want[p].type /\ y.typed = want[p].typed
      /\ y.oe = 1 /\ y.pull = want[p].pull /\ y.drv = want[p].drv /\ y.fn = want[p].fn
  BY <1>4 DEF Wants
<1>6. x = [y EXCEPT !.out = {v}]
  BY <1>4 DEF Wants
<1>7. Change(p, [pin[p] EXCEPT !.ctl = Put(pin[p].ctl, Oe, 1)], x)
  BY <1>2 DEF EnableOutput
<1>. HIDE DEF x, y
<1>8. /\ x \in Wants /\ x.on = want[p].on /\ x.type = want[p].type /\ x.typed = want[p].typed
      /\ x.oe = 1 /\ x.pull = want[p].pull /\ x.drv = want[p].drv /\ x.fn = want[p].fn
      /\ v \in x.out
  BY <1>5, <1>6 DEF Wants
<1>9. PICK ctl : ctl = Put(pin[p].ctl, Oe, 1)
  OBVIOUS
<1>10. ctl = CtlOf(x.pull, x.fn, x.drv, x.oe)
  BY <1>4, <1>8, <1>9, FieldWritten
<1>11. ctl \in Int
  BY <1>8, <1>10 DEF CtlOf, Wants
<1>12. PICK s : s = [pin[p] EXCEPT !.ctl = ctl]
  OBVIOUS
<1>13. Change(p, s, x)
  BY <1>7, <1>9, <1>12
<1>14. /\ s \in PinRegs /\ s.ctl = ctl /\ s.io = pin[p].io /\ s.cfg = pin[p].cfg
       /\ s.enabled = pin[p].enabled
  BY <1>4, <1>11, <1>12 DEF PinRegs
<1>15. PinFits(s, x)
  <2>1. x.oe = 1 => \E u \in x.out : s.io = 2 * u
    BY <1>3, <1>8, <1>14
  <2>. QED
    BY ONLY <1>4, <1>8, <1>10, <1>14, <2>1, FitsAgain
<1>. QED
  BY <1>1, <1>2, <1>13, <1>15, ChangeKeeps

\* msm_gpio_irq_set_type on a configuration register.
LEMMA TypedConfig ==
  ASSUME NEW on \in {0, 1}, NEW pol \in {0, 1}, NEW det \in 0..3, NEW raw \in {0, 1},
         NEW target \in 0..7, NEW c, c = CfgOf(on, pol, det, raw, target), NEW type \in Types
  PROVE  Typed(c, type) = CfgOf(on, PolarityOf[type], DetectionOf[type], 1, 4)
<1>1. PICK d \in 0..3, q \in {0, 1} : d = DetectionOf[type] /\ q = PolarityOf[type]
  BY DEF Types, DetectionOf, PolarityOf
<1>2. PICK a : a = Put(c, Target, 4)
  OBVIOUS
<1>3. a = CfgOf(on, pol, det, raw, 4)
  BY <1>2, PutTarget
<1>4. PICK b : b = Put(a, RawStatus, 1)
  OBVIOUS
<1>5. b = CfgOf(on, pol, det, 1, 4)
  BY <1>3, <1>4, PutRawStatus
<1>6. PICK e : e = Put(b, Detection, d)
  OBVIOUS
<1>7. e = CfgOf(on, pol, d, 1, 4)
  BY <1>1, <1>5, <1>6, PutDetection
<1>8. PICK f : f = Put(e, Polarity, q)
  OBVIOUS
<1>9. f = CfgOf(on, q, d, 1, 4)
  BY <1>1, <1>7, <1>8, PutPolarity
<1>10. Typed(c, type) = f
  BY <1>1, <1>2, <1>4, <1>6, <1>8 DEF Typed, ToApps
<1>. QED
  BY <1>1, <1>9, <1>10

LEMMA IrqMaskKeeps ==
  ASSUME WellTyped, PinsInv, NEW p \in Pins, NEW on \in {0, 1}, NEW enabled \in BOOLEAN,
         enabled <=> on = 1, Finished',
         Change(p, [pin[p] EXCEPT !.cfg = Put(pin[p].cfg, Enable, on), !.enabled = enabled],
                [want[p] EXCEPT !.on = on])
  PROVE  PinsInv'
<1>1. pin[p] \in PinRegs /\ want[p] \in Wants /\ PinFits(pin[p], want[p])
  BY DEF PinsInv, PinsKept
<1>2. PICK pol \in {0, 1}, det \in 0..3, raw \in {0, 1}, target \in 0..7 :
        CfgFits(pin[p].cfg, want[p], pol, det, raw, target)
  BY <1>1 DEF PinFits
<1>3. PICK was \in {0, 1} : was = want[p].on
  BY <1>1 DEF Wants
<1>4. PICK c : c = pin[p].cfg
  OBVIOUS
<1>5. c = CfgOf(was, pol, det, raw, target)
  BY <1>2, <1>3, <1>4 DEF CfgFits
<1>6. PICK cfg : cfg = Put(c, Enable, on)
  OBVIOUS
<1>7. cfg = CfgOf(on, pol, det, raw, target)
  BY <1>5, <1>6, PutEnable
<1>8. cfg \in Int
  BY <1>7 DEF CfgOf
<1>. DEFINE r == [pin[p] EXCEPT !.cfg = cfg, !.enabled = enabled]
            x == [want[p] EXCEPT !.on = on]
<1>9. PICK s : s = r
  OBVIOUS
<1>10. /\ s \in PinRegs /\ s.cfg = cfg /\ s.enabled = enabled /\ s.ctl = pin[p].ctl
       /\ s.io = pin[p].io
  BY <1>1, <1>8, <1>9 DEF PinRegs
<1>11. /\ x \in Wants /\ x.on = on /\ x.fn = want[p].fn /\ x.drv = want[p].drv
       /\ x.pull = want[p].pull /\ x.oe = want[p].oe /\ x.out = want[p].out
       /\ x.type = want[p].type /\ x.typed = want[p].typed
  BY <1>1 DEF Wants
<1>12. Change(p, s, x)
  BY <1>4, <1>6, <1>9
<1>. HIDE DEF r, x
<1>13. CfgFits(s.cfg, x, pol, det, raw, target)
  BY <1>2, <1>7, <1>10, <1>11 DEF CfgFits
<1>14. PinFits(s, x)
  BY <1>1, <1>2, <1>10, <1>11, <1>13 DEF PinFits
<1>. QED
  BY <1>12, <1>14, ChangeKeeps

LEMMA SetTypeKeeps ==
  ASSUME WellTyped, PinsInv, NEW p \in Pins, NEW type \in Types, SetType(p, type)
  PROVE  PinsInv'
<1>. DEFINE handler == IF type \in {"low", "high"} THEN "level" ELSE "edge"
            r == [pin[p] EXCEPT !.cfg = Typed(pin[p].cfg, type), !.handler = handler]
            x == [want[p] EXCEPT !.type = type, !.typed = TRUE]
<1>1. pin[p] \in PinRegs /\ want[p] \in Wants /\ PinFits(pin[p], want[p])
  BY DEF PinsInv, PinsKept
<1>2. PICK pol \in {0, 1}, det \in 0..3, raw \in {0, 1}, target \in 0..7 :
        CfgFits(pin[p].cfg, want[p], pol, det, raw, target)
  BY <1>1 DEF PinFits
<1>3. PICK on \in {0, 1} : on = want[p].on
  BY <1>1 DEF Wants
<1>4. PICK c : c = pin[p].cfg
  OBVIOUS
<1>5. c = CfgOf(on, pol, det, raw, target)
  BY <1>2, <1>3, <1>4 DEF CfgFits
<1>6. PICK d \in 0..3, q \in {0, 1} : d = DetectionOf[type] /\ q = PolarityOf[type]
  BY DEF Types, DetectionOf, PolarityOf
<1>7. PICK cfg : cfg = Typed(c, type)
  OBVIOUS
<1>8. cfg = CfgOf(on, q, d, 1, 4)
  BY <1>5, <1>6, <1>7, TypedConfig
<1>9. cfg \in Int
  BY <1>8 DEF CfgOf
<1>10. handler \in {"none", "level", "edge"}
  OBVIOUS
<1>11. r = [pin[p] EXCEPT !.cfg = cfg, !.handler = handler]
  BY <1>4, <1>7
<1>12. Change(p, r, x) /\ Finished'
  BY CallEnds DEF SetType, WellTyped
<1>. HIDE DEF handler
<1>13. PICK s : s = r
  OBVIOUS
<1>. HIDE DEF r
<1>14. /\ s \in PinRegs /\ s.cfg = cfg /\ s.enabled = pin[p].enabled /\ s.ctl = pin[p].ctl
       /\ s.io = pin[p].io
  BY <1>1, <1>9, <1>10, <1>11, <1>13 DEF PinRegs
<1>15. /\ x \in Wants /\ x.on = want[p].on /\ x.fn = want[p].fn /\ x.drv = want[p].drv
       /\ x.pull = want[p].pull /\ x.oe = want[p].oe /\ x.out = want[p].out
       /\ x.type = type /\ x.typed = TRUE
  BY <1>1 DEF Wants
<1>. HIDE DEF x
<1>16. CfgFits(s.cfg, x, q, d, 1, 4)
  BY <1>3, <1>6, <1>8, <1>14, <1>15 DEF CfgFits
<1>17. PinFits(s, x)
  BY <1>1, <1>6, <1>14, <1>15, <1>16 DEF PinFits
<1>18. Change(p, s, x)
  BY <1>12, <1>13
<1>. QED
  BY <1>12, <1>17, <1>18, ChangeKeeps

\* The steps that write none of the registers with fields.
LEMMA HandlerKeeps ==
  ASSUME WellTyped, PinsInv, NEW p \in Pins,
         PinEvent(p) \/ IrqAck(p) \/ SetCustomHandler(p)
  PROVE  PinsInv'
<1>1. pin \in [Pins -> PinRegs] /\ want \in [Pins -> Wants]
  BY DEF PinsInv, PinsKept
<1>2. ASSUME NEW s, NEW v \in BOOLEAN, s = [pin[p] EXCEPT !.status = v] \/ s = [pin[p] EXCEPT !.custom = v],
             pin' = [pin EXCEPT ![p] = s]
      PROVE  /\ pin' \in [Pins -> PinRegs]
             /\ \A q \in Pins : /\ pin'[q].ctl = pin[q].ctl /\ pin'[q].io = pin[q].io
                                /\ pin'[q].cfg = pin[q].cfg /\ pin'[q].enabled = pin[q].enabled
  <2>1. pin[p] \in PinRegs
    BY <1>1
  <2>2. /\ s \in PinRegs /\ s.ctl = pin[p].ctl /\ s.io = pin[p].io
        /\ s.cfg = pin[p].cfg /\ s.enabled = pin[p].enabled
    BY <1>2, <2>1 DEF PinRegs
  <2>3. pin' \in [Pins -> PinRegs]
    BY <1>1, <1>2, <2>2
  <2>4. ASSUME NEW q \in Pins
        PROVE  /\ pin'[q].ctl = pin[q].ctl /\ pin'[q].io = pin[q].io
               /\ pin'[q].cfg = pin[q].cfg /\ pin'[q].enabled = pin[q].enabled
    <3>1. pin'[q] = IF q = p THEN s ELSE pin[q]
      BY <1>1, <1>2
    <3>. QED
      BY <2>2, <3>1
  <2>. QED
    BY <2>3, <2>4
<1>3. CASE PinEvent(p)
  <2>1. pin' = [pin EXCEPT ![p] = [pin[p] EXCEPT !.status = TRUE]] /\ want' = want /\ lib' = lib
    BY <1>3 DEF PinEvent
  <2>. QED
    BY <1>2, <2>1, QuietKeeps
<1>4. CASE IrqAck(p)
  <2>1. pin' = [pin EXCEPT ![p] = [pin[p] EXCEPT !.status = FALSE]] /\ want' = want
    BY <1>1, <1>4 DEF IrqAck, Change
  <2>2. Finished'
    BY <1>4, CallEnds DEF IrqAck, WellTyped
  <2>. QED
    BY <1>2, <2>1, <2>2, QuietKeeps DEF Finished
<1>5. CASE SetCustomHandler(p)
  <2>1. pin' = [pin EXCEPT ![p] = [pin[p] EXCEPT !.custom = TRUE]] /\ want' = want
    BY <1>1, <1>5 DEF SetCustomHandler, Change
  <2>2. Finished'
    BY <1>5, CallEnds DEF SetCustomHandler, WellTyped
  <2>. QED
    BY <1>2, <2>1, <2>2, QuietKeeps DEF Finished
<1>. QED
  BY <1>3, <1>4, <1>5

LEMMA TakeInterruptKeeps ==
  ASSUME PinsInv, NEW i \in Irqs, TakeInterrupt(i) PROVE PinsInv'
<1>1. pin \in [Pins -> PinRegs]
  BY DEF PinsInv, PinsKept
<1>2. ASSUME NEW p \in Pins
      PROVE  /\ pin'[p] \in PinRegs /\ pin'[p].ctl = pin[p].ctl /\ pin'[p].io = pin[p].io
             /\ pin'[p].cfg = pin[p].cfg /\ pin'[p].enabled = pin[p].enabled
  <2>1. pin'[p] = pin[p] \/ pin'[p] = [pin[p] EXCEPT !.status = FALSE]
    BY DEF TakeInterrupt
  <2>2. pin[p] \in PinRegs
    BY <1>1
  <2>. QED
    BY <2>1, <2>2 DEF PinRegs
<1>3. pin' \in [Pins -> PinRegs]
  <2>1. pin' = [p \in Pins |-> pin'[p]]
    BY DEF TakeInterrupt
  <2>. QED
    BY <1>2, <2>1
<1>4. lib' = lib /\ want' = want
  BY DEF TakeInterrupt
<1>. QED
  BY <1>2, <1>3, <1>4, QuietKeeps

LEMMA IrqInitKeeps ==
  ASSUME WellTyped, PinsInv, IrqInit PROVE PinsInv'
<1>1. pin \in [Pins -> PinRegs]
  BY DEF PinsInv, PinsKept
<1>2. ASSUME NEW p \in Pins
      PROVE  /\ pin'[p] \in PinRegs /\ pin'[p].ctl = pin[p].ctl /\ pin'[p].io = pin[p].io
             /\ pin'[p].cfg = pin[p].cfg /\ pin'[p].enabled = pin[p].enabled
  <2>1. pin'[p] = [pin[p] EXCEPT !.handler = "none", !.custom = FALSE]
    BY DEF IrqInit
  <2>2. pin[p] \in PinRegs
    BY <1>1
  <2>. QED
    BY <2>1, <2>2 DEF PinRegs
<1>3. pin' \in [Pins -> PinRegs]
  <2>1. pin' = [p \in Pins |-> pin'[p]]
    BY DEF IrqInit
  <2>. QED
    BY <1>2, <2>1
<1>4. want' = want /\ lib'.pc # "output"
  BY DEF IrqInit, Goto, WellTyped, Libraries
<1>. QED
  BY <1>2, <1>3, <1>4, QuietKeeps

LEMMA ElsewhereKeeps ==
  ASSUME PinsInv, UNCHANGED <<pin, want>>, lib' = lib \/ lib'.pc # "output" PROVE PinsInv'
<1>1. pin' = pin /\ want' = want /\ pin \in [Pins -> PinRegs]
  BY DEF PinsInv, PinsKept
<1>. QED
  BY <1>1, QuietKeeps

LEMMA LineStepKeeps ==
  ASSUME WellTyped, PinsInv,
         \/ QGicHardwareReset \/ QGicDistInit \/ FindEntry \/ InsertEntry \/ RaiseTpl
         \/ RegisterSource \/ MaskSource \/ RestoreTpl \/ Unmask \/ LeaveMasked \/ SummaryRaised
         \/ \E i \in Irqs : NextDriver(i) \/ MaskInterrupt(i) \/ DeviceRaises(i)
  PROVE  PinsInv'
<1>1. CASE QGicHardwareReset \/ QGicDistInit \/ FindEntry \/ InsertEntry
  BY <1>1, ElsewhereKeeps
     DEF QGicHardwareReset, QGicDistInit, FindEntry, InsertEntry, OnlyGic, Goto, WellTyped,
         Libraries
<1>2. CASE RaiseTpl \/ RegisterSource \/ MaskSource \/ RestoreTpl
  BY <1>2, ElsewhereKeeps
     DEF RaiseTpl, RegisterSource, MaskSource, RestoreTpl, OnlyGic, Goto, WellTyped, Libraries
<1>3. CASE Unmask \/ LeaveMasked
  BY <1>3, ElsewhereKeeps DEF Unmask, LeaveMasked, OnlyGic, Goto, WellTyped, Libraries
<1>4. CASE SummaryRaised
  BY <1>4, ElsewhereKeeps DEF SummaryRaised
<1>5. ASSUME NEW i \in Irqs, NextDriver(i) \/ MaskInterrupt(i) PROVE PinsInv'
  BY <1>5, ElsewhereKeeps DEF NextDriver, MaskInterrupt, OnlyGic, At, WellTyped, Libraries
<1>6. ASSUME NEW i \in Irqs, DeviceRaises(i) PROVE PinsInv'
  BY <1>6, ElsewhereKeeps DEF DeviceRaises
<1>. QED
  BY <1>1, <1>2, <1>3, <1>4, <1>5, <1>6

LEMMA PinStepKeeps ==
  ASSUME WellTyped, PinsInv, NEW p \in Pins,
         \/ PinEvent(p) \/ DirectionInput(p) \/ IrqMask(p) \/ IrqUnmask(p) \/ IrqAck(p)
         \/ SetCustomHandler(p)
         \/ \E fn \in {0, 2, 11} : SetFunction(p, fn)
         \/ \E ma \in {0, 3, 2, 16} : SetDriveStrength(p, ma)
         \/ \E pull \in {0, 3, 4} : SetPull(p, pull)
         \/ \E v \in {0, 1} : SetValue(p, v) \/ DirectionOutput(p, v)
         \/ \E type \in Types : SetType(p, type)
         \/ TlmmSetPins(p, 5, 2)
  PROVE  PinsInv'
<1>1. CASE PinEvent(p) \/ IrqAck(p) \/ SetCustomHandler(p)
  BY <1>1, HandlerKeeps
<1>2. CASE DirectionInput(p)
  BY <1>2, DirectionInputKeeps
<1>3. CASE IrqMask(p)
  <2>1. Finished'
    BY <1>3, CallEnds DEF IrqMask, WellTyped
  <2>2. Change(p, [pin[p] EXCEPT !.cfg = Put(pin[p].cfg, Enable, 0), !.enabled = FALSE],
               [want[p] EXCEPT !.on = 0])
    BY <1>3 DEF IrqMask
  <2>3. PICK on \in {0, 1}, enabled \in BOOLEAN : on = 0 /\ enabled = FALSE
    OBVIOUS
  <2>4. Change(p, [pin[p] EXCEPT !.cfg = Put(pin[p].cfg, Enable, on), !.enabled = enabled],
               [want[p] EXCEPT !.on = on])
    BY <2>2, <2>3
  <2>5. enabled <=> on = 1
    BY <2>3
  <2>. QED
    BY <2>1, <2>4, <2>5, IrqMaskKeeps
<1>4. CASE IrqUnmask(p)
  <2>1. Finished'
    BY <1>4, CallEnds DEF IrqUnmask, WellTyped
  <2>2. Change(p, [pin[p] EXCEPT !.cfg = Put(pin[p].cfg, Enable, 1), !.enabled = TRUE],
               [want[p] EXCEPT !.on = 1])
    BY <1>4 DEF IrqUnmask
  <2>. QED
    BY <2>1, <2>2, IrqMaskKeeps
<1>5. ASSUME NEW fn \in {0, 2, 11}, SetFunction(p, fn) PROVE PinsInv'
  BY <1>5, SetFunctionKeeps
<1>6. ASSUME NEW ma \in {0, 3, 2, 16}, SetDriveStrength(p, ma) PROVE PinsInv'
  BY <1>6, SetDriveStrengthKeeps
<1>7. ASSUME NEW pull \in {0, 3, 4}, SetPull(p, pull) PROVE PinsInv'
  BY <1>7, SetPullKeeps
<1>8. ASSUME NEW v \in {0, 1}, SetValue(p, v) \/ DirectionOutput(p, v) PROVE PinsInv'
  BY <1>8, SetValueKeeps, ValueAheadKeeps
<1>9. ASSUME NEW type \in Types, SetType(p, type) PROVE PinsInv'
  BY <1>9, SetTypeKeeps
<1>10. CASE TlmmSetPins(p, 5, 2)
  BY <1>10, TlmmSetPinsKeeps
<1>. QED
  BY <1>1, <1>2, <1>3, <1>4, <1>5, <1>6, <1>7, <1>8, <1>9, <1>10

LEMMA PinsKeep == ASSUME IInv, PinsInv, [GpioNext]_gpioVars PROVE PinsInv'
<1>. WellTyped
  BY DEF IInv
<1>1. CASE UNCHANGED gpioVars
  BY <1>1, ElsewhereKeeps DEF gpioVars
<1>2. CASE IrqInit
  BY <1>2, IrqInitKeeps
<1>3. CASE EnableOutput
  BY <1>3, TurnedOutputKeeps
<1>4. ASSUME NEW i \in Irqs, TakeInterrupt(i) PROVE PinsInv'
  BY <1>4, TakeInterruptKeeps
<1>. QED
  BY <1>1, <1>2, <1>3, <1>4, LineStepKeeps, PinStepKeeps DEF GpioNext

LEMMA PinsInit == ASSUME GpioInit PROVE PinsInv
<1>1. pin = [p \in Pins |-> PinReset] /\ want = [p \in Pins |-> WantReset] /\ lib.pc = "boot"
  BY DEF GpioInit
<1>2. PinReset \in PinRegs /\ WantReset \in Wants
  BY DEF PinReset, WantReset, PinRegs, Wants, Types
<1>3. PinFits(PinReset, WantReset)
  <2>1. CfgFits(PinReset.cfg, WantReset, 0, 0, 0, 0)
    BY DEF PinReset, WantReset, CfgFits, CfgOf
  <2>2. PinReset.ctl = CtlOf(WantReset.pull, WantReset.fn, WantReset.drv, WantReset.oe)
    BY DEF PinReset, WantReset, CtlOf
  <2>3. WantReset.oe = 0 /\ (PinReset.enabled <=> WantReset.on = 1)
    BY DEF PinReset, WantReset
  <2>. QED
    BY <1>2, <2>1, <2>2, <2>3 DEF PinFits
<1>. HIDE DEF PinReset, WantReset
<1>4. PinsKept
  BY <1>1, <1>2, <1>3 DEF PinsKept
<1>. QED
  BY <1>1, <1>4 DEF PinsInv

LEMMA PinsRead == ASSUME PinsInv PROVE PinAsConfigured
<1>1. ASSUME NEW p \in Pins
      PROVE  LET r == pin[p]
                 w == want[p]
             IN /\ Get(r.ctl, Mux) = w.fn /\ Get(r.ctl, Drv) = w.drv
                /\ Get(r.ctl, Pull) = w.pull /\ Get(r.ctl, Oe) = w.oe
                /\ (w.oe = 1 \/ Get(r.ctl, Oe) = 1) => Get(r.io, OutBit) \in w.out
                /\ Get(r.cfg, Enable) = w.on /\ (r.enabled <=> w.on = 1)
                /\ w.typed => /\ Get(r.cfg, Detection) = DetectionOf[w.type]
                              /\ Get(r.cfg, Polarity) = PolarityOf[w.type]
                              /\ Get(r.cfg, Target) = 4 /\ Get(r.cfg, RawStatus) = 1
                /\ r.ctl < 2^10 /\ r.cfg < 2^8
  <2>1. PICK r, w : r = pin[p] /\ w = want[p]
    OBVIOUS
  <2>2. PinFits(r, w)
    BY <2>1 DEF PinsInv, PinsKept
  <2>3. /\ Get(r.ctl, Mux) = w.fn /\ Get(r.ctl, Drv) = w.drv /\ Get(r.ctl, Pull) = w.pull
        /\ Get(r.ctl, Oe) = w.oe /\ r.ctl < 2^10
        /\ w.oe = 1 => Get(r.io, OutBit) \in w.out
        /\ Get(r.cfg, Enable) = w.on /\ (r.enabled <=> w.on = 1) /\ r.cfg < 2^8
        /\ w.typed => /\ Get(r.cfg, Detection) = DetectionOf[w.type]
                      /\ Get(r.cfg, Polarity) = PolarityOf[w.type]
                      /\ Get(r.cfg, Target) = 4 /\ Get(r.cfg, RawStatus) = 1
    BY <2>2, FittingReads
  <2>. QED
    BY <2>1, <2>3
<1>. QED
  BY <1>1 DEF PinAsConfigured

\* Whatever calls are made on any number of pins, in any order and with interrupts between
\* them: the registers of a pin hold what was last asked for it in every field, an output
\* drives only a value somebody asked for, and the handler scans the pins that are enabled
\* (gpiolib, msm_gpio_irq_set_type, msm_gpio_irq_mask and tlmm of GpioTlmmDxe).
THEOREM PinsAreConfigured == ASSUME GpioCalls \in Nat PROVE GpioSpec => []PinAsConfigured
<1>1. PinsInv => PinAsConfigured
  BY PinsRead
<1>. QED
  BY <1>1, InvInit, NextKeeps, PinsInit, PinsKeep, PTL DEF GpioSpec

-----------------------------------------------------------------------------
(***************************************************************************)
(* Maintenance calls of the card, for every size of card, group and        *)
(* sector, any number of retries and any commands lost.                    *)
(***************************************************************************)
\* What the registers of a card can hold, and the ranges callers can name.
CardSizes ==
  /\ CardBlocks \in Nat /\ HcUnit \in Nat \ {0} /\ SectorSize \in Nat \ {0}
  /\ MaintenanceCalls \in Nat /\ CommandFaults \in Nat
  /\ Ranges \subseteq [addr : Nat, len : Nat \ {0}] /\ BufferBytes \subseteq Nat
  /\ CardKinds \subseteq [mmc : BOOLEAN, hc : BOOLEAN, bytes : BOOLEAN,
                          size : Nat \ {0}, mult : Nat \ {0}, wp : Nat \ {0}]

Parts == {"default", "rpmb"}
Boots == {"own", "other"}
Chips == [kind : CardKinds, wpDisabled : BOOLEAN, part : Parts, boot : Boots, locked : SUBSET Int,
          erased : SUBSET Int, range : Int \X Int, busy : BOOLEAN,
          state : {"tran", "stby", "slp"}, faults : Int, unsure : BOOLEAN]
Caches == [hc : BOOLEAN, size : Nat, part : Parts, boot : Boots, known : BOOLEAN]
Ops == {"none", "erase", "wp", "status", "rpmb", "sleep"}
TaskPCs == {"idle", "start", "end", "erase", "poll", "permdis", "extcsd", "pwren", "wp",
        "torpmb", "setcount", "frame", "back", "deselect", "sleep"}
Tasks == [op : Ops, pc : TaskPCs, addr : Nat, len : Nat, end : Int, i : Int, retry : Int,
          lock : BOOLEAN, frames : Int, ret : {0, 1}, read : BOOLEAN, unit : Nat, left : Int]
MntTypes == chip \in Chips /\ task \in Tasks /\ cached \in Caches

-----------------------------------------------------------------------------
(* The inductive invariant.                                                 *)

\* Which call is where.
PlaceInv ==
  /\ task.pc \in {"start", "end", "erase"} => task.op = "erase"
  /\ task.pc \in {"permdis", "extcsd", "pwren", "wp"} => task.op = "wp"
  /\ task.pc \in {"torpmb", "setcount", "frame", "back"} => task.op = "rpmb"
  /\ task.pc \in {"deselect", "sleep"} => task.op = "sleep"
  /\ task.pc = "poll" => task.op \in {"erase", "wp", "rpmb"}

\* What the driver has read of its registers is what the card is, unless the last read failed.
TruthOf(c, card) ==
  c.known => /\ c.boot = card.boot /\ c.hc = card.kind.hc /\ c.size = card.kind.size
             /\ ~card.unsure => c.part = card.part

\* Between its two switches a card is in the RPMB partition, unless one of them was lost.
Placed == ~chip.unsure =>
  /\ task.pc \in {"setcount", "frame"} \/ (task.op = "rpmb" /\ task.pc = "poll") => chip.part = "rpmb"
  /\ task.op # "rpmb" \/ task.pc \in {"idle", "torpmb"} => chip.part = "default"
PartInv == TruthOf(cached, chip) /\ Placed

\* What the erase commands are sent with: two blocks of the request, and those of its first and
\* its last group if the driver counts in the card's unit.
CardEnd(a, n) == a + (n \div EraseUnit - 1) * EraseUnit
Ready ==
  /\ task.end \in Nat /\ task.addr <= task.end /\ task.end < task.addr + task.len
  /\ task.unit = EraseUnit => task.len >= EraseUnit /\ task.end = CardEnd(task.addr, task.len)
EraseInv ==
  /\ task.pc \in {"start", "end", "erase"} => Ready
  /\ task.pc \in {"end", "erase"} => chip.range[1] = task.addr
  /\ task.pc = "erase" => chip.range[2] = task.end /\ task.end \in Blocks

MntInv == MntTypes /\ PlaceInv /\ PartInv /\ EraseInv /\ EraseInside

-----------------------------------------------------------------------------
(* Groups and addresses.                                                    *)

LEMMA DivBounds ==
  ASSUME NEW m \in Nat \ {0}, NEW x \in Nat
  PROVE  x \div m \in Nat /\ (x \div m) * m <= x /\ x < (x \div m) * m + m
OBVIOUS

LEMMA TimesDiv ==
  ASSUME NEW m \in Nat \ {0}, NEW x \in Nat
  PROVE  (x * m) \div m = x
OBVIOUS

LEMMA TimesMonotone ==
  ASSUME NEW m \in Nat \ {0}, NEW x \in Nat, NEW y \in Nat, x <= y
  PROVE  x * m <= y * m /\ (x < y => x * m + m <= y * m)
OBVIOUS

LEMMA UnitPositive == ASSUME CardSizes, MntTypes PROVE EraseUnit \in Nat \ {0}
<1>1. ASSUME NEW a \in Nat \ {0}, NEW b \in Nat \ {0} PROVE a * b \in Nat \ {0}
  OBVIOUS
<1>. QED
  BY <1>1 DEF CardSizes, MntTypes, Chips, kind, EraseUnit

LEMMA WpGroupPositive == ASSUME CardSizes, MntTypes PROVE WpGroup \in Nat \ {0}
<1>1. ASSUME NEW a \in Nat \ {0}, NEW b \in Nat \ {0} PROVE a * b \in Nat \ {0}
  OBVIOUS
<1>. QED
  BY <1>1 DEF CardSizes, MntTypes, Chips, kind, WpGroup

LEMMA DriverUnitTyped == ASSUME CardSizes, MntTypes PROVE DriverUnit \in Nat
<1>1. ASSUME NEW a \in Nat, NEW b \in Nat PROVE a * b \in Nat
  OBVIOUS
<1>2. HcUnit \in Nat /\ cached.size \in Nat /\ kind.size \in Nat /\ kind.mult \in Nat
  BY DEF CardSizes, MntTypes, Chips, Caches, kind
<1>. QED
  BY <1>1, <1>2 DEF DriverUnit

\* The card finds the block the driver means.
LEMMA BlockFound == ASSUME CardSizes, MntTypes, NEW b \in Nat PROVE BlockAt(Argument(b)) = b
BY TimesDiv DEF CardSizes, MntTypes, Chips, kind, BlockAt, Argument

\* The last group of a request begins one group or more before its end.
LEMMA EndInside ==
  ASSUME NEW U \in Nat \ {0}, NEW a \in Nat, NEW n \in Nat, n >= U
  PROVE  LET e == a + (n \div U - 1) * U
         IN  e \in Nat /\ e >= a /\ e + U <= a + n
<1>. DEFINE q == n \div U
<1>1. q \in Nat /\ q * U <= n /\ n < q * U + U
  BY DivBounds
<1>. HIDE DEF q
<1>2. q >= 1
  <2>1. q = 0 => q * U = 0
    OBVIOUS
  <2>. QED
    BY <1>1, <2>1
<1>3. (q - 1) * U = q * U - U /\ (q - 1) * U \in Nat
  BY <1>1, <1>2
<1>. DEFINE x == (q - 1) * U
            y == q * U
<1>4. x \in Nat /\ x = y - U /\ y \in Int /\ y <= n
  BY <1>1, <1>3
<1>. HIDE DEF x, y
<1>5. a + x \in Nat /\ a + x >= a /\ a + x + U <= a + n
  BY <1>4
<1>. QED
  BY <1>5 DEF x, q

\* The driver sends two blocks of the request, whatever it takes for the unit.
LEMMA EndFound ==
  ASSUME CardSizes, MntTypes, NEW a \in Nat, NEW n \in Nat \ {0}, n >= DriverUnit
  PROVE  /\ EraseEnd(a, n) \in Nat /\ a <= EraseEnd(a, n) /\ EraseEnd(a, n) < a + n
         /\ DriverUnit = EraseUnit => EraseEnd(a, n) = CardEnd(a, n)
<1>. DEFINE D == DriverUnit
<1>1. D \in Nat /\ EraseUnit \in Nat \ {0}
  BY DriverUnitTyped, UnitPositive
<1>. HIDE DEF D
<1>2. CASE D = 0
  <2>1. LastGroup(a, n) = a
    <3>1. LastGroup(a, n) = a + (0 - 1) * 0
      BY <1>2 DEF LastGroup, GroupsIn, D
    <3>. QED
      BY <3>1
  <2>2. ~(a > a + n)
    OBVIOUS
  <2>. QED
    BY <1>1, <1>2, <2>1, <2>2 DEF EraseEnd, D
<1>3. CASE D # 0
  <2>. DEFINE e == a + (n \div D - 1) * D
  <2>1. e \in Nat /\ e >= a /\ e + D <= a + n
    BY <1>1, <1>3, EndInside DEF D
  <2>2. LastGroup(a, n) = e
    BY <1>3 DEF LastGroup, GroupsIn, D
  <2>3. D = EraseUnit => e = CardEnd(a, n)
    BY DEF CardEnd
  <2>. HIDE DEF e
  <2>4. ~(e > a + n) /\ e < a + n
    BY <1>1, <1>3, <2>1
  <2>5. EraseEnd(a, n) = e
    BY <2>2, <2>4 DEF EraseEnd
  <2>. QED
    BY <2>1, <2>3, <2>4, <2>5 DEF D
<1>. QED
  BY <1>2, <1>3

\* The bound on what an erase has erased.
Bounded(erased) ==
  /\ \A b \in erased : \E a \in Asked : a \div EraseUnit = b \div EraseUnit
  /\ task.unit = EraseUnit =>
       erased \subseteq {b \in BlocksOfGroup(task.addr, EraseUnit) \cup Asked : b < task.addr + task.len}

LEMMA RangeTyped == ASSUME CardSizes, MntTypes PROVE InRange \subseteq Int
BY DEF InRange, Blocks, CardSizes, MntTypes, Chips

\* What the card erases lies in groups of the request, and inside of it and the group it starts
\* in if the driver counts in the card's unit.
LEMMA RangeInside ==
  ASSUME CardSizes, MntInv, task.pc = "erase"
  PROVE  Bounded(InRange)
<1>. DEFINE U == EraseUnit
            a == task.addr
            e == task.end
<1>1. /\ U \in Nat \ {0} /\ a \in Nat /\ task.len \in Nat
      /\ e \in Nat /\ a <= e /\ e < a + task.len
  BY UnitPositive DEF MntInv, MntTypes, Tasks, EraseInv, Ready
<1>2. chip.range[1] = a /\ chip.range[2] = e /\ e \in Blocks
  BY DEF MntInv, EraseInv
<1>3. task.unit = U => e + U <= a + task.len
  BY <1>1, EndInside DEF MntInv, EraseInv, Ready, CardEnd
<1>. HIDE DEF U, a, e
<1>4. CardBlocks \in Nat
  BY DEF CardSizes
<1>5. ASSUME NEW b \in Blocks, b >= a, b < a + task.len PROVE b \in Asked
  BY <1>1, <1>4, <1>5 DEF Asked, Blocks, a
<1>6. CASE kind.mmc
  <2>1. a \div U \in Nat /\ e \div U \in Nat
    BY <1>1, DivBounds
  <2>2. \A b \in InRange : b \in Blocks /\ b \div U >= a \div U /\ b \div U <= e \div U
    <3>1. \A b \in InRange : b \in Blocks /\ b \div U \in (a \div U)..(e \div U)
      BY <1>2, <1>6 DEF InRange, U
    <3>. QED
      BY <2>1, <3>1
  <2>3. ASSUME NEW b \in InRange
        PROVE  /\ \E c \in Asked : c \div U = b \div U
               /\ b \div U # a \div U => b \in Blocks /\ b >= a
               /\ task.unit = U => b < a + task.len
    <3>1. b \in Blocks /\ b \in Nat /\ b \div U >= a \div U /\ b \div U <= e \div U
      BY <1>4, <2>2 DEF Blocks
    <3>. DEFINE x == (b \div U) * U
                y == (a \div U) * U
                z == (e \div U) * U
    <3>2. /\ b \div U \in Nat /\ x \in Int /\ x <= b /\ b < x + U
          /\ y \in Int /\ y <= a /\ a < y + U
          /\ z \in Int /\ z <= e
      BY <1>1, <2>1, <3>1, DivBounds
    <3>3. x <= z
      BY <1>1, <2>1, <3>1, <3>2, TimesMonotone
    <3>4. b \div U # a \div U => y + U <= x
      <4>1. b \div U # a \div U => a \div U < b \div U
        BY <2>1, <3>1, <3>2
      <4>. QED
        BY <1>1, <2>1, <3>1, <3>2, <4>1, TimesMonotone
    <3>5. b \div U # e \div U => x + U <= z
      <4>1. b \div U # e \div U => b \div U < e \div U
        BY <2>1, <3>1, <3>2
      <4>. QED
        BY <1>1, <2>1, <3>1, <3>2, <4>1, TimesMonotone
    <3>. HIDE DEF x, y, z
    <3>6. b \div U # a \div U => b \in Blocks /\ b >= a
      BY <1>1, <3>1, <3>2, <3>4
    <3>7. task.unit = U => b < a + task.len
      BY <1>1, <1>3, <3>1, <3>2, <3>3
    <3>8. \E c \in Asked : c \div U = b \div U
      <4>1. CASE b \div U = a \div U
        <5>1. a \in Blocks
          BY <1>1, <1>2, <1>4 DEF Blocks
        <5>. QED
          BY <1>1, <1>5, <4>1, <5>1
      <4>2. CASE b \div U = e \div U
        BY <1>1, <1>2, <1>5, <4>2
      <4>3. CASE b \div U # a \div U /\ b \div U # e \div U
        <5>1. b < e
          BY <1>1, <3>1, <3>2, <3>5, <4>3
        <5>. QED
          BY <1>1, <1>5, <3>1, <3>6, <4>3, <5>1
      <4>. QED
        BY <4>1, <4>2, <4>3
    <3>. QED
      BY <3>6, <3>7, <3>8
  <2>4. ASSUME NEW b \in InRange, task.unit = U
        PROVE  b \in BlocksOfGroup(a, U) \cup Asked /\ b < a + task.len
    <3>1. CASE b \div U = a \div U
      BY <2>2, <2>3, <2>4, <3>1 DEF BlocksOfGroup
    <3>2. CASE b \div U # a \div U
      BY <1>5, <2>3, <2>4, <3>2
    <3>. QED
      BY <3>1, <3>2
  <2>. QED
    BY <2>3, <2>4 DEF Bounded, U, a
<1>7. CASE ~kind.mmc
  <2>1. ASSUME NEW b \in InRange PROVE b \in Asked /\ b < a + task.len
    <3>1. b \in a..e
      BY <1>2, <1>7 DEF InRange
    <3>2. b \in Blocks /\ b >= a /\ b < a + task.len
      BY <1>1, <1>2, <1>4, <3>1 DEF Blocks
    <3>. QED
      BY <1>5, <3>2
  <2>. QED
    BY <2>1 DEF Bounded, U, a
<1>. QED
  BY <1>6, <1>7

-----------------------------------------------------------------------------
(* The steps.                                                               *)

LEMMA ErrorReturn ==
  ASSUME MntTypes
  PROVE  /\ OnError \in Tasks
         /\ OnError.op = task.op /\ OnError.addr = task.addr /\ OnError.len = task.len /\ OnError.unit = task.unit
         /\ OnError.pc = IF task.pc \in {"setcount", "frame"} \/ (task.pc = "poll" /\ task.op = "rpmb")
                         THEN "back" ELSE "idle"
BY DEF MntTypes, Tasks, TaskPCs, OnError, Return, InTask

\* A command that is lost before or after the card carried it out leaves nothing that the
\* retreat of its call does not put right.
LEMMA LossKeeps ==
  ASSUME CardSizes, MntInv, NEW then \in Chips, then.kind = chip.kind, then.unsure = chip.unsure,
         cached.known => then.boot = chip.boot,
         task.op = "erase" => Bounded(then.erased),
         chip' = [then EXCEPT !.faults = @ - 1,
                              !.unsure = @ \/ then.part # chip.part \/ InTask("torpmb") \/ InTask("back")],
         task' = OnError, cached' \in Caches, cached' = cached \/ ~cached'.known
  PROVE  MntInv'
<1>1. /\ chip' \in Chips /\ chip'.kind = chip.kind /\ chip'.erased = then.erased
      /\ chip'.part = then.part /\ chip'.boot = then.boot
      /\ ~chip'.unsure => ~chip.unsure /\ then.part = chip.part /\ task.pc \notin {"torpmb", "back"}
  <2>. DEFINE u == then.unsure \/ then.part # chip.part \/ InTask("torpmb") \/ InTask("back")
  <2>1. u \in BOOLEAN /\ then.faults - 1 \in Int
    BY DEF Chips
  <2>2. chip' = [then EXCEPT !.faults = then.faults - 1, !.unsure = u]
    OBVIOUS
  <2>. HIDE DEF u
  <2>3. /\ chip' \in Chips /\ chip'.kind = then.kind /\ chip'.erased = then.erased
        /\ chip'.part = then.part /\ chip'.boot = then.boot /\ chip'.unsure = u
    BY <2>1, <2>2 DEF Chips
  <2>. QED
    BY <2>3 DEF u, InTask
<1>2. MntTypes'
  BY <1>1, ErrorReturn DEF MntInv, MntTypes
<1>3. /\ task' = OnError /\ task'.op = task.op /\ task'.addr = task.addr /\ task'.len = task.len /\ task'.unit = task.unit
      /\ task'.pc = IF task.pc \in {"setcount", "frame"} \/ (task.pc = "poll" /\ task.op = "rpmb")
                    THEN "back" ELSE "idle"
  BY ErrorReturn DEF MntInv
<1>4. PlaceInv' /\ EraseInv'
  BY <1>3 DEF MntInv, PlaceInv, EraseInv
<1>5. PartInv'
  <2>1. TruthOf(cached, chip)'
    BY <1>1 DEF MntInv, PartInv, TruthOf
  <2>2. Placed'
    BY <1>1, <1>3 DEF MntInv, MntTypes, Tasks, TaskPCs, PartInv, Placed, PlaceInv
  <2>. QED
    BY <2>1, <2>2 DEF PartInv
<1>6. EraseInside'
  BY <1>1, <1>3 DEF EraseInside, Bounded, BlocksOfGroup, Asked, EraseUnit, kind, Blocks
<1>. QED
  BY <1>2, <1>4, <1>5, <1>6 DEF MntInv

\* So only the commands that are answered have to be looked at.
LEMMA CommandKeeps ==
  ASSUME CardSizes, MntInv, NEW after \in Chips, after.kind = chip.kind, after.unsure = chip.unsure,
         after.faults = chip.faults, cached.known => after.boot = chip.boot,
         task.op = "erase" => Bounded(after.erased),
         NEW next, Command(after, next),
         cached' \in Caches,
         chip'.faults # chip.faults => cached' = cached \/ ~cached'.known,
         chip' = after /\ task' = next => MntInv'
  PROVE  MntInv'
<1>1. CASE chip' = after /\ task' = next
  BY <1>1
<1>2. ASSUME NEW then \in {chip, after}, task' = OnError, ~(chip' = after /\ task' = next),
             chip' = [then EXCEPT !.faults = @ - 1,
                                  !.unsure = @ \/ then.part # chip.part \/ InTask("torpmb") \/ InTask("back")]
      PROVE  MntInv'
  <2>1. then \in Chips /\ then.kind = chip.kind /\ then.unsure = chip.unsure
    BY <1>2 DEF MntInv, MntTypes
  <2>2. task.op = "erase" => Bounded(then.erased)
    BY <1>2 DEF MntInv, EraseInside, Bounded
  <2>3. chip'.faults # chip.faults /\ (cached.known => then.boot = chip.boot)
    <3>1. chip.faults \in Int /\ then.faults = chip.faults
      BY <1>2 DEF MntInv, MntTypes, Chips
    <3>2. chip'.faults = then.faults - 1
      BY <1>2, <2>1 DEF Chips
    <3>. QED
      BY <1>2, <3>1, <3>2
  <2>. QED
    BY <1>2, <2>1, <2>2, <2>3, LossKeeps
<1>. QED
  BY <1>1, <1>2 DEF Command

\* An answered step of a call that stays what it is.
LEMMA AnswerKeeps ==
  ASSUME CardSizes, MntInv, MntTypes', chip'.kind = chip.kind, chip'.unsure = chip.unsure,
         task'.op = task.op, task'.addr = task.addr, task'.len = task.len /\ task'.unit = task.unit,
         task.op = "erase" => Bounded(chip'.erased)
  PROVE  EraseInside'
BY DEF EraseInside, Bounded, BlocksOfGroup, Asked, EraseUnit, kind, Blocks

\* A step that only sends a call on.
LEMMA Onward ==
  ASSUME MntTypes, NEW p \in TaskPCs
  PROVE  /\ Step(p) \in Tasks /\ Step(p).op = task.op /\ Step(p).addr = task.addr
         /\ Step(p).len = task.len /\ Step(p).unit = task.unit /\ Step(p).end = task.end /\ Step(p).pc = p
         /\ Step(p).i = task.i /\ Step(p).lock = task.lock
BY DEF MntTypes, Tasks, TaskPCs, Step

LEMMA Ended ==
  ASSUME MntTypes, NEW r \in {0, 1}
  PROVE  /\ Return(r) \in Tasks /\ Return(r).op = task.op /\ Return(r).addr = task.addr
         /\ Return(r).len = task.len /\ Return(r).unit = task.unit /\ Return(r).pc = "idle"
BY DEF MntTypes, Tasks, TaskPCs, Return

\* The next round of a loop, and a call of its own.
LEMMA OnceMore ==
  ASSUME MntTypes, NEW p \in TaskPCs, NEW n, n = [task EXCEPT !.pc = p, !.i = task.i + 1]
  PROVE  n \in Tasks /\ n.op = task.op /\ n.addr = task.addr /\ n.len = task.len /\ n.unit = task.unit /\ n.pc = p
<1>. DEFINE k == task.i + 1
<1>1. k \in Int
  BY DEF MntTypes, Tasks
<1>2. n = [task EXCEPT !.pc = p, !.i = k]
  OBVIOUS
<1>. HIDE DEF k
<1>. QED
  BY <1>1, <1>2 DEF MntTypes, Tasks

LEMMA CallTyped ==
  ASSUME MntTypes, NEW op \in Ops, NEW p \in TaskPCs, NEW a \in Nat, NEW n \in Nat
  PROVE  /\ Call(op, p, a, n) \in Tasks /\ Call(op, p, a, n).op = op
         /\ Call(op, p, a, n).pc = p /\ Call(op, p, a, n).addr = a /\ Call(op, p, a, n).len = n
<1>. DEFINE call == Call(op, p, a, n)
            left == task.left - 1
<1>1. left \in Int
  BY DEF MntTypes, Tasks
<1>2. call = [task EXCEPT !.op = op, !.pc = p, !.addr = a, !.len = n, !.left = left, !.i = 0,
                          !.retry = 0, !.ret = 0, !.frames = 0]
  BY DEF Call
<1>. HIDE DEF left, call
<1>3. call = [op |-> op, pc |-> p, addr |-> a, len |-> n, end |-> task.end, i |-> 0, retry |-> 0,
              lock |-> task.lock, frames |-> 0, ret |-> 0, read |-> task.read, unit |-> task.unit,
              left |-> left]
  BY <1>2 DEF MntTypes, Tasks
<1>4. task.end \in Int /\ task.lock \in BOOLEAN /\ task.read \in BOOLEAN /\ task.unit \in Nat
  BY DEF MntTypes, Tasks
<1>5. call \in Tasks
  BY <1>1, <1>3, <1>4 DEF Tasks
<1>. QED
  BY <1>3, <1>5 DEF call

(* The commands, each answered and sent on.                                 *)

LEMMA SendEraseKeeps == ASSUME CardSizes, MntInv, SendErase PROVE MntInv'
<1>. DEFINE after == [chip EXCEPT !.erased = InRange \ chip.locked, !.busy = TRUE]
            next == Step("poll")
<1>1. task.pc = "erase" /\ Command(after, next)
  BY DEF SendErase, InTask
<1>2. /\ after \in Chips /\ after.kind = chip.kind /\ after.unsure = chip.unsure /\ after.faults = chip.faults /\ after.boot = chip.boot
      /\ after.range = chip.range
  <2>1. InRange \subseteq Int
    BY RangeTyped DEF MntInv
  <2>. QED
    BY <2>1 DEF MntInv, MntTypes, Chips
<1>3. /\ next \in Tasks /\ next.op = task.op /\ next.addr = task.addr /\ next.len = task.len /\ next.unit = task.unit
      /\ next.pc = "poll"
  BY Onward DEF MntInv, MntTypes, Tasks, TaskPCs
<1>4. task.op = "erase" => Bounded(after.erased)
  <2>1. after.erased \subseteq InRange
    BY DEF MntInv, MntTypes, Chips
  <2>. HIDE DEF after
  <2>. QED
    BY <1>1, <2>1, RangeInside DEF Bounded
<1>5. after.part = chip.part /\ cached' = cached /\ cached' \in Caches
  BY DEF SendErase, MntInv, MntTypes, Chips
<1>. HIDE DEF after, next
<1>6. ASSUME chip' = after, task' = next PROVE MntInv'
  <2>1. MntTypes'
    BY <1>2, <1>3, <1>5, <1>6 DEF MntTypes
  <2>2. EraseInside'
    BY <1>2, <1>3, <1>4, <1>6, <2>1, AnswerKeeps
  <2>. QED
    BY <1>1, <1>2, <1>3, <1>5, <1>6, <2>1, <2>2 DEF MntInv, PlaceInv, PartInv, TruthOf, Placed, EraseInv
<1>. QED
  BY <1>1, <1>2, <1>3, <1>4, <1>5, <1>6, CommandKeeps

LEMMA DisablePermWpKeeps == ASSUME CardSizes, MntInv, DisablePermWp PROVE MntInv'
<1>. DEFINE after == chip
            next == Step("extcsd")
<1>1. task.pc = "permdis" /\ Command(after, next)
  BY DEF DisablePermWp, InTask
<1>2. /\ after \in Chips /\ after.kind = chip.kind /\ after.unsure = chip.unsure /\ after.faults = chip.faults /\ after.boot = chip.boot
      /\ after.range = chip.range
  BY DEF MntInv, MntTypes, Chips, Parts
<1>3. /\ next \in Tasks /\ next.op = task.op /\ next.addr = task.addr /\ next.len = task.len /\ next.unit = task.unit
      /\ next.pc = "extcsd"
  BY Onward DEF MntInv, MntTypes, Tasks, TaskPCs
<1>4. task.op = "erase" => Bounded(after.erased)
  BY <1>1 DEF MntInv, MntTypes, Chips, EraseInside, Bounded, PlaceInv
<1>5. after.part = chip.part /\ cached' = cached /\ cached' \in Caches
  BY DEF DisablePermWp, MntInv, MntTypes, Chips
<1>. HIDE DEF after, next
<1>6. ASSUME chip' = after, task' = next PROVE MntInv'
  <2>1. MntTypes'
    BY <1>2, <1>3, <1>5, <1>6 DEF MntTypes
  <2>2. EraseInside'
    BY <1>2, <1>3, <1>4, <1>6, <2>1, AnswerKeeps
  <2>. QED
    BY <1>1, <1>2, <1>3, <1>5, <1>6, <2>1, <2>2 DEF MntInv, PlaceInv, PartInv, TruthOf, Placed, EraseInv
<1>. QED
  BY <1>1, <1>2, <1>3, <1>4, <1>5, <1>6, CommandKeeps

LEMMA EnablePowerOnWpKeeps == ASSUME CardSizes, MntInv, EnablePowerOnWp PROVE MntInv'
<1>. DEFINE after == chip
            next == [task EXCEPT !.pc = "wp", !.end = Groups(task.len, WpGroup)]
<1>1. task.pc = "pwren" /\ Command(after, next)
  BY DEF EnablePowerOnWp, InTask
<1>2. /\ after \in Chips /\ after.kind = chip.kind /\ after.unsure = chip.unsure /\ after.faults = chip.faults /\ after.boot = chip.boot
      /\ after.range = chip.range
  BY DEF MntInv, MntTypes, Chips, Parts
<1>3. /\ next \in Tasks /\ next.op = task.op /\ next.addr = task.addr /\ next.len = task.len /\ next.unit = task.unit
      /\ next.pc = "wp"
  <2>1. Groups(task.len, WpGroup) \in Int
    BY WpGroupPositive DEF MntInv, MntTypes, Tasks, Groups
  <2>. QED
    BY <2>1 DEF MntInv, MntTypes, Tasks, TaskPCs
<1>4. task.op = "erase" => Bounded(after.erased)
  BY <1>1 DEF MntInv, MntTypes, Chips, EraseInside, Bounded, PlaceInv
<1>5. after.part = chip.part /\ cached' = cached /\ cached' \in Caches
  BY DEF EnablePowerOnWp, MntInv, MntTypes, Chips
<1>. HIDE DEF after, next
<1>6. ASSUME chip' = after, task' = next PROVE MntInv'
  <2>1. MntTypes'
    BY <1>2, <1>3, <1>5, <1>6 DEF MntTypes
  <2>2. EraseInside'
    BY <1>2, <1>3, <1>4, <1>6, <2>1, AnswerKeeps
  <2>. QED
    BY <1>1, <1>2, <1>3, <1>5, <1>6, <2>1, <2>2 DEF MntInv, PlaceInv, PartInv, TruthOf, Placed, EraseInv
<1>. QED
  BY <1>1, <1>2, <1>3, <1>4, <1>5, <1>6, CommandKeeps

LEMMA SetBlkCntKeeps == ASSUME CardSizes, MntInv, SetBlkCnt PROVE MntInv'
<1>. DEFINE after == chip
            next == Step("frame")
<1>1. task.pc = "setcount" /\ Command(after, next)
  BY DEF SetBlkCnt, InTask
<1>2. /\ after \in Chips /\ after.kind = chip.kind /\ after.unsure = chip.unsure /\ after.faults = chip.faults /\ after.boot = chip.boot
      /\ after.range = chip.range
  BY DEF MntInv, MntTypes, Chips, Parts
<1>3. /\ next \in Tasks /\ next.op = task.op /\ next.addr = task.addr /\ next.len = task.len /\ next.unit = task.unit
      /\ next.pc = "frame"
  BY Onward DEF MntInv, MntTypes, Tasks, TaskPCs
<1>4. task.op = "erase" => Bounded(after.erased)
  BY <1>1 DEF MntInv, MntTypes, Chips, EraseInside, Bounded, PlaceInv
<1>5. after.part = chip.part /\ cached' = cached /\ cached' \in Caches
  BY DEF SetBlkCnt, MntInv, MntTypes, Chips
<1>. HIDE DEF after, next
<1>6. ASSUME chip' = after, task' = next PROVE MntInv'
  <2>1. MntTypes'
    BY <1>2, <1>3, <1>5, <1>6 DEF MntTypes
  <2>2. EraseInside'
    BY <1>2, <1>3, <1>4, <1>6, <2>1, AnswerKeeps
  <2>. QED
    BY <1>1, <1>2, <1>3, <1>5, <1>6, <2>1, <2>2 DEF MntInv, PlaceInv, PartInv, TruthOf, Placed, EraseInv
<1>. QED
  BY <1>1, <1>2, <1>3, <1>4, <1>5, <1>6, CommandKeeps

LEMMA SendFrameKeeps == ASSUME CardSizes, MntInv, SendFrame PROVE MntInv'
<1>. DEFINE after == [chip EXCEPT !.busy = TRUE]
            next == Step("poll")
<1>1. task.pc = "frame" /\ Command(after, next)
  BY DEF SendFrame, InTask
<1>2. /\ after \in Chips /\ after.kind = chip.kind /\ after.unsure = chip.unsure /\ after.faults = chip.faults /\ after.boot = chip.boot
      /\ after.range = chip.range
  BY DEF MntInv, MntTypes, Chips, Parts
<1>3. /\ next \in Tasks /\ next.op = task.op /\ next.addr = task.addr /\ next.len = task.len /\ next.unit = task.unit
      /\ next.pc = "poll"
  BY Onward DEF MntInv, MntTypes, Tasks, TaskPCs
<1>4. task.op = "erase" => Bounded(after.erased)
  BY <1>1 DEF MntInv, MntTypes, Chips, EraseInside, Bounded, PlaceInv
<1>5. after.part = chip.part /\ cached' = cached /\ cached' \in Caches
  BY DEF SendFrame, MntInv, MntTypes, Chips
<1>. HIDE DEF after, next
<1>6. ASSUME chip' = after, task' = next PROVE MntInv'
  <2>1. MntTypes'
    BY <1>2, <1>3, <1>5, <1>6 DEF MntTypes
  <2>2. EraseInside'
    BY <1>2, <1>3, <1>4, <1>6, <2>1, AnswerKeeps
  <2>. QED
    BY <1>1, <1>2, <1>3, <1>5, <1>6, <2>1, <2>2 DEF MntInv, PlaceInv, PartInv, TruthOf, Placed, EraseInv
<1>. QED
  BY <1>1, <1>2, <1>3, <1>4, <1>5, <1>6, CommandKeeps

LEMMA SwitchToRpmbKeeps == ASSUME CardSizes, MntInv, SwitchToRpmb PROVE MntInv'
<1>. DEFINE after == [chip EXCEPT !.part = "rpmb", !.boot = cached.boot]
            next == Step("setcount")
<1>1. task.pc = "torpmb" /\ Command(after, next)
  BY DEF SwitchToRpmb, SwitchPart, InTask
<1>2. /\ after \in Chips /\ after.kind = chip.kind /\ after.unsure = chip.unsure /\ after.faults = chip.faults
      /\ after.boot = cached.boot /\ after.range = chip.range
  BY DEF MntInv, MntTypes, Chips, Caches, Parts
<1>3. /\ next \in Tasks /\ next.op = task.op /\ next.addr = task.addr /\ next.len = task.len /\ next.unit = task.unit
      /\ next.pc = "setcount"
  BY Onward DEF MntInv, MntTypes, Tasks, TaskPCs
<1>4. task.op = "erase" => Bounded(after.erased)
  BY <1>1 DEF MntInv, MntTypes, Chips, EraseInside, Bounded, PlaceInv
<1>5. after.part = "rpmb" /\ (cached.known => after.boot = chip.boot)
  BY DEF MntInv, MntTypes, Chips, PartInv, TruthOf
<1>6. cached' = IF task' = next /\ chip.faults = chip'.faults THEN [cached EXCEPT !.part = "rpmb"] ELSE cached
  BY DEF SwitchToRpmb, SwitchPart
<1>7. /\ cached' \in Caches /\ cached'.known = cached.known /\ cached'.boot = cached.boot
      /\ cached'.hc = cached.hc /\ cached'.size = cached.size
      /\ task' = next /\ chip.faults = chip'.faults => cached'.part = "rpmb"
      /\ chip'.faults # chip.faults => cached' = cached
  BY <1>6 DEF MntInv, MntTypes, Parts, Caches
<1>. HIDE DEF after, next
<1>8. ASSUME chip' = after, task' = next PROVE MntInv'
  <2>1. MntTypes'
    BY <1>2, <1>3, <1>7, <1>8 DEF MntTypes
  <2>2. EraseInside'
    BY <1>2, <1>3, <1>4, <1>8, <2>1, AnswerKeeps
  <2>. QED
    BY <1>1, <1>2, <1>3, <1>5, <1>7, <1>8, <2>1, <2>2 DEF MntInv, PlaceInv, PartInv, TruthOf, Placed, EraseInv
<1>. QED
  BY <1>1, <1>2, <1>3, <1>4, <1>5, <1>7, <1>8, CommandKeeps

LEMMA SwitchBackKeeps == ASSUME CardSizes, MntInv, SwitchBack PROVE MntInv'
<1>. DEFINE after == [chip EXCEPT !.part = "default", !.boot = cached.boot]
            next == Return(task.ret)
<1>1. task.pc = "back" /\ Command(after, next)
  BY DEF SwitchBack, SwitchPart, InTask
<1>2. /\ after \in Chips /\ after.kind = chip.kind /\ after.unsure = chip.unsure /\ after.faults = chip.faults
      /\ after.boot = cached.boot /\ after.range = chip.range
  BY DEF MntInv, MntTypes, Chips, Caches, Parts
<1>3. /\ next \in Tasks /\ next.op = task.op /\ next.addr = task.addr /\ next.len = task.len /\ next.unit = task.unit
      /\ next.pc = "idle"
  BY Ended DEF MntInv, MntTypes, Tasks
<1>4. task.op = "erase" => Bounded(after.erased)
  BY <1>1 DEF MntInv, MntTypes, Chips, EraseInside, Bounded, PlaceInv
<1>5. after.part = "default" /\ (cached.known => after.boot = chip.boot)
  BY DEF MntInv, MntTypes, Chips, PartInv, TruthOf
<1>6. cached' = IF task' = next /\ chip.faults = chip'.faults THEN [cached EXCEPT !.part = "default"] ELSE cached
  BY DEF SwitchBack, SwitchPart
<1>7. /\ cached' \in Caches /\ cached'.known = cached.known /\ cached'.boot = cached.boot
      /\ cached'.hc = cached.hc /\ cached'.size = cached.size
      /\ task' = next /\ chip.faults = chip'.faults => cached'.part = "default"
      /\ chip'.faults # chip.faults => cached' = cached
  BY <1>6 DEF MntInv, MntTypes, Parts, Caches
<1>. HIDE DEF after, next
<1>8. ASSUME chip' = after, task' = next PROVE MntInv'
  <2>1. MntTypes'
    BY <1>2, <1>3, <1>7, <1>8 DEF MntTypes
  <2>2. EraseInside'
    BY <1>2, <1>3, <1>4, <1>8, <2>1, AnswerKeeps
  <2>. QED
    BY <1>1, <1>2, <1>3, <1>5, <1>7, <1>8, <2>1, <2>2 DEF MntInv, PlaceInv, PartInv, TruthOf, Placed, EraseInv
<1>. QED
  BY <1>1, <1>2, <1>3, <1>4, <1>5, <1>7, <1>8, CommandKeeps

LEMMA DeselectKeeps == ASSUME CardSizes, MntInv, Deselect PROVE MntInv'
<1>. DEFINE after == [chip EXCEPT !.state = "stby"]
            next == Step("sleep")
<1>1. task.pc = "deselect" /\ Command(after, next)
  BY DEF Deselect, InTask
<1>2. /\ after \in Chips /\ after.kind = chip.kind /\ after.unsure = chip.unsure /\ after.faults = chip.faults /\ after.boot = chip.boot
      /\ after.range = chip.range
  BY DEF MntInv, MntTypes, Chips, Parts
<1>3. /\ next \in Tasks /\ next.op = task.op /\ next.addr = task.addr /\ next.len = task.len /\ next.unit = task.unit
      /\ next.pc = "sleep"
  BY Onward DEF MntInv, MntTypes, Tasks, TaskPCs
<1>4. task.op = "erase" => Bounded(after.erased)
  BY <1>1 DEF MntInv, MntTypes, Chips, EraseInside, Bounded, PlaceInv
<1>5. after.part = chip.part /\ cached' = cached /\ cached' \in Caches
  BY DEF Deselect, MntInv, MntTypes, Chips
<1>. HIDE DEF after, next
<1>6. ASSUME chip' = after, task' = next PROVE MntInv'
  <2>1. MntTypes'
    BY <1>2, <1>3, <1>5, <1>6 DEF MntTypes
  <2>2. EraseInside'
    BY <1>2, <1>3, <1>4, <1>6, <2>1, AnswerKeeps
  <2>. QED
    BY <1>1, <1>2, <1>3, <1>5, <1>6, <2>1, <2>2 DEF MntInv, PlaceInv, PartInv, TruthOf, Placed, EraseInv
<1>. QED
  BY <1>1, <1>2, <1>3, <1>4, <1>5, <1>6, CommandKeeps

LEMMA SleepKeeps == ASSUME CardSizes, MntInv, Sleep PROVE MntInv'
<1>. DEFINE after == [chip EXCEPT !.state = "slp"]
            next == Return(0)
<1>1. task.pc = "sleep" /\ Command(after, next)
  BY DEF Sleep, InTask
<1>2. /\ after \in Chips /\ after.kind = chip.kind /\ after.unsure = chip.unsure /\ after.faults = chip.faults /\ after.boot = chip.boot
      /\ after.range = chip.range
  BY DEF MntInv, MntTypes, Chips, Parts
<1>3. /\ next \in Tasks /\ next.op = task.op /\ next.addr = task.addr /\ next.len = task.len /\ next.unit = task.unit
      /\ next.pc = "idle"
  BY Ended DEF MntInv, MntTypes, Tasks
<1>4. task.op = "erase" => Bounded(after.erased)
  BY <1>1 DEF MntInv, MntTypes, Chips, EraseInside, Bounded, PlaceInv
<1>5. after.part = chip.part /\ cached' = cached /\ cached' \in Caches
  BY DEF Sleep, MntInv, MntTypes, Chips
<1>. HIDE DEF after, next
<1>6. ASSUME chip' = after, task' = next PROVE MntInv'
  <2>1. MntTypes'
    BY <1>2, <1>3, <1>5, <1>6 DEF MntTypes
  <2>2. EraseInside'
    BY <1>2, <1>3, <1>4, <1>6, <2>1, AnswerKeeps
  <2>. QED
    BY <1>1, <1>2, <1>3, <1>5, <1>6, <2>1, <2>2 DEF MntInv, PlaceInv, PartInv, TruthOf, Placed, EraseInv
<1>. QED
  BY <1>1, <1>2, <1>3, <1>4, <1>5, <1>6, CommandKeeps

-----------------------------------------------------------------------------
(* The other steps.                                                         *)

\* A call that gives up, or one that starts.
LEMMA RefusalKeeps ==
  ASSUME CardSizes, MntInv, task.pc \in {"start", "end", "wp", "extcsd"}, Command(chip, Return(1)),
         cached' \in Caches, TruthOf(cached', chip),
         chip'.faults # chip.faults => cached' = cached \/ ~cached'.known
  PROVE  MntInv'
<1>. DEFINE next == Return(1)
<1>1. next \in Tasks /\ next.op = task.op /\ next.addr = task.addr /\ next.len = task.len /\ next.unit = task.unit
      /\ next.pc = "idle"
  BY Ended DEF MntInv
<1>2. task.op = "erase" => Bounded(chip.erased)
  BY DEF MntInv, EraseInside, Bounded
<1>3. cached' \in Caches /\ chip \in Chips
  BY DEF MntInv, MntTypes
<1>. HIDE DEF next
<1>4. ASSUME chip' = chip, task' = next PROVE MntInv'
  <2>1. MntTypes'
    BY <1>1, <1>3, <1>4 DEF MntTypes
  <2>2. EraseInside'
    BY <1>1, <1>2, <1>4, <2>1, AnswerKeeps
  <2>. QED
    BY <1>1, <1>3, <1>4, <2>1, <2>2 DEF MntInv, PlaceInv, PartInv, TruthOf, Placed, EraseInv
<1>. QED
  BY <1>1, <1>2, <1>3, <1>4, CommandKeeps DEF next

LEMMA EraseGrpStartKeeps == ASSUME CardSizes, MntInv, EraseGrpStart PROVE MntInv'
<1>. DEFINE after == [chip EXCEPT !.range[1] = BlockAt(Argument(task.addr))]
            next == Step("end")
<1>1. task.pc = "start" /\ cached' = cached /\ (Command(after, next) \/ Command(chip, Return(1)))
  BY DEF EraseGrpStart, SendGroup, InTask
<1>2. BlockAt(Argument(task.addr)) = task.addr /\ task.addr \in Nat
  BY BlockFound DEF MntInv, MntTypes, Tasks
<1>3. /\ after \in Chips /\ after.kind = chip.kind /\ after.unsure = chip.unsure /\ after.faults = chip.faults /\ after.boot = chip.boot
      /\ after.range[1] = task.addr /\ after.part = chip.part /\ after.erased = chip.erased
  BY <1>2 DEF MntInv, MntTypes, Chips
<1>4. next \in Tasks /\ next.op = task.op /\ next.addr = task.addr /\ next.len = task.len /\ next.unit = task.unit
      /\ next.end = task.end /\ next.pc = "end"
  BY Onward DEF MntInv, TaskPCs
<1>5. task.op = "erase" => Bounded(after.erased)
  BY <1>3 DEF MntInv, EraseInside, Bounded
<1>6. cached' = cached /\ cached' \in Caches /\ TruthOf(cached', chip)
  BY <1>1 DEF MntInv, MntTypes, PartInv
<1>. HIDE DEF after, next
<1>7. ASSUME chip' = after, task' = next PROVE MntInv'
  <2>1. MntTypes'
    BY <1>3, <1>4, <1>6, <1>7 DEF MntTypes
  <2>2. EraseInside'
    BY <1>3, <1>4, <1>5, <1>7, <2>1, AnswerKeeps
  <2>3. PlaceInv' /\ PartInv'
    BY <1>1, <1>3, <1>4, <1>7 DEF MntInv, PlaceInv, PartInv, TruthOf, Placed
  <2>4. EraseInv'
    BY <1>1, <1>3, <1>4, <1>7 DEF MntInv, EraseInv, Ready, CardEnd, EraseUnit, kind
  <2>. QED
    BY <2>1, <2>2, <2>3, <2>4 DEF MntInv
<1>8. Command(after, next) => MntInv'
  BY <1>1, <1>3, <1>4, <1>5, <1>6, <1>7, CommandKeeps
<1>. QED
  BY <1>1, <1>6, <1>8, RefusalKeeps

LEMMA EraseGrpEndKeeps == ASSUME CardSizes, MntInv, EraseGrpEnd PROVE MntInv'
<1>. DEFINE after == [chip EXCEPT !.range[2] = BlockAt(Argument(task.end))]
            next == Step("erase")
<1>1. /\ task.pc = "end" /\ cached' = cached
      /\ \/ Command(after, next) /\ BlockAt(Argument(task.end)) \in Blocks
         \/ Command(chip, Return(1))
  BY DEF EraseGrpEnd, SendGroup, InTask
<1>2. BlockAt(Argument(task.end)) = task.end /\ task.end \in Nat
  <2>1. task.end \in Nat
    BY <1>1 DEF MntInv, EraseInv, Ready
  <2>. QED
    BY <2>1, BlockFound DEF MntInv
<1>3. /\ after \in Chips /\ after.kind = chip.kind /\ after.unsure = chip.unsure /\ after.faults = chip.faults /\ after.boot = chip.boot
      /\ after.range[1] = chip.range[1] /\ after.range[2] = task.end
      /\ after.part = chip.part /\ after.erased = chip.erased
  BY <1>2 DEF MntInv, MntTypes, Chips
<1>4. next \in Tasks /\ next.op = task.op /\ next.addr = task.addr /\ next.len = task.len /\ next.unit = task.unit
      /\ next.end = task.end /\ next.pc = "erase"
  BY Onward DEF MntInv, TaskPCs
<1>5. task.op = "erase" => Bounded(after.erased)
  BY <1>3 DEF MntInv, EraseInside, Bounded
<1>6. cached' = cached /\ cached' \in Caches /\ TruthOf(cached', chip)
  BY <1>1 DEF MntInv, MntTypes, PartInv
<1>. HIDE DEF after, next
<1>7. ASSUME chip' = after, task' = next, task.end \in Blocks PROVE MntInv'
  <2>1. MntTypes'
    BY <1>3, <1>4, <1>6, <1>7 DEF MntTypes
  <2>2. EraseInside'
    BY <1>3, <1>4, <1>5, <1>7, <2>1, AnswerKeeps
  <2>3. PlaceInv' /\ PartInv'
    BY <1>1, <1>3, <1>4, <1>7 DEF MntInv, PlaceInv, PartInv, TruthOf, Placed
  <2>4. EraseInv'
    BY <1>1, <1>3, <1>4, <1>7 DEF MntInv, EraseInv, Ready, CardEnd, EraseUnit, kind, Blocks
  <2>. QED
    BY <2>1, <2>2, <2>3, <2>4 DEF MntInv
<1>8. Command(after, next) /\ task.end \in Blocks => MntInv'
  BY <1>1, <1>3, <1>4, <1>5, <1>6, <1>7, CommandKeeps
<1>. QED
  BY <1>1, <1>2, <1>6, <1>8, RefusalKeeps

LEMMA SendWpKeeps == ASSUME CardSizes, MntInv, SendWp PROVE MntInv'
<1>. DEFINE group == BlocksOfGroup(BlockAt(Argument(task.addr + task.i * WpGroup)), CardWpGroup)
            after == [chip EXCEPT !.locked = IF task.lock THEN @ \cup group ELSE @ \ group,
                                  !.busy = TRUE]
            next == Step("poll")
<1>1. task.pc = "wp" /\ cached' = cached /\ (Command(after, next) \/ Command(chip, Return(1)))
  BY DEF SendWp, SendGroup, InTask
<1>2. group \subseteq Int
  BY DEF BlocksOfGroup, Blocks, CardSizes
<1>. HIDE DEF group
<1>3. /\ after \in Chips /\ after.kind = chip.kind /\ after.unsure = chip.unsure /\ after.faults = chip.faults /\ after.boot = chip.boot
      /\ after.part = chip.part /\ after.erased = chip.erased
  BY <1>2 DEF MntInv, MntTypes, Chips
<1>4. next \in Tasks /\ next.op = task.op /\ next.addr = task.addr /\ next.len = task.len /\ next.unit = task.unit
      /\ next.pc = "poll"
  BY Onward DEF MntInv, TaskPCs
<1>5. task.op = "erase" => Bounded(after.erased)
  BY <1>3 DEF MntInv, EraseInside, Bounded
<1>6. cached' = cached /\ cached' \in Caches /\ TruthOf(cached', chip)
  BY <1>1 DEF MntInv, MntTypes, PartInv
<1>. HIDE DEF after, next
<1>7. ASSUME chip' = after, task' = next PROVE MntInv'
  <2>1. MntTypes'
    BY <1>3, <1>4, <1>6, <1>7 DEF MntTypes
  <2>2. EraseInside'
    BY <1>3, <1>4, <1>5, <1>7, <2>1, AnswerKeeps
  <2>. QED
    BY <1>1, <1>3, <1>4, <1>7, <2>1, <2>2 DEF MntInv, PlaceInv, PartInv, TruthOf, Placed, EraseInv
<1>8. Command(after, next) => MntInv'
  BY <1>1, <1>3, <1>4, <1>5, <1>6, <1>7, CommandKeeps
<1>. QED
  BY <1>1, <1>6, <1>8, RefusalKeeps

\* One look at the card's state: the call polls again, goes on or gives up.
LEMMA PollStatusKeeps == ASSUME CardSizes, MntInv, PollStatus PROVE MntInv'
<1>. DEFINE gone == IF task.retry + 1 = Tries THEN OnError ELSE IF chip.busy THEN task ELSE AfterPoll
            next == [gone EXCEPT !.retry = task.retry + 1]
<1>1. task.pc = "poll" /\ cached' = cached /\ Command(chip, next)
  BY DEF PollStatus, InTask
<1>2. /\ task \in Tasks /\ task.op \in {"erase", "wp", "rpmb"}
      /\ chip \in Chips /\ cached' = cached /\ cached' \in Caches
  BY <1>1 DEF MntInv, MntTypes, PlaceInv
<1>3. /\ gone \in Tasks /\ gone.op = task.op /\ gone.addr = task.addr /\ gone.len = task.len /\ gone.unit = task.unit
      /\ gone.pc \in {"poll", "idle", "back", "setcount", "wp"}
      /\ gone.pc \in {"back", "setcount"} => task.op = "rpmb"
      /\ gone.pc = "wp" => task.op = "wp"
      /\ task.op = "rpmb" => gone.pc # "idle"
  <2>1. /\ OnError \in Tasks /\ OnError.op = task.op
        /\ OnError.addr = task.addr /\ OnError.len = task.len /\ OnError.unit = task.unit
        /\ OnError.pc = IF task.op = "rpmb" THEN "back" ELSE "idle"
    BY <1>1, ErrorReturn DEF MntInv
  <2>2. /\ AfterPoll \in Tasks /\ AfterPoll.op = task.op
        /\ AfterPoll.addr = task.addr /\ AfterPoll.len = task.len /\ AfterPoll.unit = task.unit
        /\ task.op = "erase" => AfterPoll.pc = "idle"
        /\ task.op = "wp" => AfterPoll.pc \in {"wp", "idle"}
        /\ task.op = "rpmb" => AfterPoll.pc \in {"setcount", "back"}
    <3>1. /\ Step("back") \in Tasks /\ Step("back").op = task.op
          /\ Step("back").addr = task.addr /\ Step("back").len = task.len /\ Step("back").unit = task.unit
          /\ Step("back").pc = "back"
      BY Onward DEF MntInv, TaskPCs
    <3>2. /\ Return(0) \in Tasks /\ Return(0).op = task.op
          /\ Return(0).addr = task.addr /\ Return(0).len = task.len /\ Return(0).unit = task.unit /\ Return(0).pc = "idle"
      BY Ended DEF MntInv
    <3>. DEFINE again(p) == [task EXCEPT !.pc = p, !.i = task.i + 1]
    <3>3. /\ again("wp") \in Tasks /\ again("wp").op = task.op /\ again("wp").addr = task.addr
          /\ again("wp").len = task.len /\ again("wp").unit = task.unit /\ again("wp").pc = "wp"
          /\ again("setcount") \in Tasks /\ again("setcount").op = task.op
          /\ again("setcount").addr = task.addr /\ again("setcount").len = task.len /\ again("setcount").unit = task.unit
          /\ again("setcount").pc = "setcount"
      BY OnceMore DEF MntInv, TaskPCs
    <3>7. AfterPoll \in
            CASE task.op = "erase" -> {Return(0)}
              [] task.op = "wp" -> {again("wp"), Return(0)}
              [] task.op = "rpmb" -> {again("setcount"), Step("back")}
      BY <1>2 DEF AfterPoll
    <3>. HIDE DEF again
    <3>4. CASE task.op = "erase"
      BY <3>2, <3>4, <3>7
    <3>5. CASE task.op = "wp"
      BY <3>2, <3>3, <3>5, <3>7
    <3>6. CASE task.op = "rpmb"
      BY <3>1, <3>3, <3>6, <3>7
    <3>. QED
      BY <1>2, <3>4, <3>5, <3>6
  <2>. QED
    BY <1>1, <1>2, <2>1, <2>2
<1>. HIDE DEF gone
<1>4. /\ next \in Tasks /\ next.op = gone.op /\ next.addr = gone.addr /\ next.len = gone.len /\ next.unit = gone.unit
      /\ next.pc = gone.pc
  BY <1>2, <1>3 DEF Tasks
<1>5. task.op = "erase" => Bounded(chip.erased)
  BY DEF MntInv, EraseInside, Bounded
<1>. HIDE DEF next
<1>6. ASSUME chip' = chip, task' = next PROVE MntInv'
  <2>1. MntTypes'
    BY <1>2, <1>3, <1>4, <1>6 DEF MntTypes
  <2>2. EraseInside'
    BY <1>3, <1>4, <1>5, <1>6, <2>1, AnswerKeeps
  <2>3. PlaceInv'
    BY <1>2, <1>3, <1>4, <1>6 DEF PlaceInv
  <2>4. PartInv' /\ EraseInv'
    BY <1>1, <1>2, <1>3, <1>4, <1>6 DEF MntInv, PartInv, TruthOf, Placed, EraseInv
  <2>. QED
    BY <2>1, <2>2, <2>3, <2>4 DEF MntInv
<1>. QED
  BY <1>1, <1>2, <1>3, <1>4, <1>5, <1>6, CommandKeeps

LEMMA ReadExtCsdKeeps == ASSUME CardSizes, MntInv, ReadExtCsd PROVE MntInv'
<1>. DEFINE next == Step("pwren")
            read == [hc |-> kind.hc, size |-> kind.size, part |-> chip.part, boot |-> chip.boot, known |-> TRUE]
<1>1. /\ task.pc = "extcsd" /\ cached' \in IF chip'.faults = chip.faults THEN {read} ELSE Unwritten
      /\ Command(chip, next) \/ Command(chip, Return(1))
  BY DEF ReadExtCsd, InTask
<1>2. read \in Caches /\ TruthOf(read, chip) /\ chip \in Chips
  <2>1. /\ chip \in Chips /\ kind.hc \in BOOLEAN /\ kind.size \in Nat /\ chip.part \in Parts
        /\ chip.boot \in Boots
    BY DEF MntInv, MntTypes, Chips, CardSizes, kind
  <2>. QED
    BY <2>1 DEF Caches, TruthOf, kind
<1>3. \A c \in Unwritten : c \in Caches /\ ~c.known
  BY DEF Unwritten, Caches, Parts, Boots, CardSizes
<1>. HIDE DEF read
<1>4. /\ cached' \in Caches /\ TruthOf(cached', chip)
      /\ chip'.faults # chip.faults => ~cached'.known
  BY <1>1, <1>2, <1>3 DEF TruthOf
<1>5. next \in Tasks /\ next.op = task.op /\ next.addr = task.addr /\ next.len = task.len
      /\ next.unit = task.unit /\ next.pc = "pwren"
  BY Onward DEF MntInv, TaskPCs
<1>6. task.op = "erase" => Bounded(chip.erased)
  BY DEF MntInv, EraseInside, Bounded
<1>. HIDE DEF next
<1>7. ASSUME chip' = chip, task' = next PROVE MntInv'
  <2>1. MntTypes'
    BY <1>2, <1>4, <1>5, <1>7 DEF MntTypes
  <2>2. EraseInside'
    BY <1>5, <1>6, <1>7, <2>1, AnswerKeeps
  <2>. QED
    BY <1>1, <1>4, <1>5, <1>7, <2>1, <2>2 DEF MntInv, PlaceInv, PartInv, TruthOf, Placed, EraseInv
<1>8. Command(chip, next) => MntInv'
  BY <1>1, <1>2, <1>4, <1>5, <1>6, <1>7, CommandKeeps
<1>. QED
  BY <1>1, <1>4, <1>8, RefusalKeeps

(* The calls.  Each begins where the last one ended, with the card in the   *)
(* partition it should be in.                                               *)

\* A call that begins, with nothing done yet.
LEMMA BeginKeeps ==
  ASSUME CardSizes, MntInv, Idle, task' \in Tasks, chip' = chip, cached' = cached,
         \/ task'.op = "wp" /\ task'.pc = "permdis"
         \/ task'.op = "rpmb" /\ task'.pc = "torpmb"
         \/ task'.op = "sleep" /\ task'.pc = "deselect"
         \/ task'.op = "status" /\ task'.pc = "idle"
  PROVE  MntInv'
<1>1. MntTypes'
  BY DEF MntInv, MntTypes
<1>2. PartInv'
  BY DEF MntInv, PartInv, TruthOf, Placed, PlaceInv, Idle, InTask
<1>3. PlaceInv' /\ EraseInv' /\ EraseInside'
  BY DEF PlaceInv, EraseInv, EraseInside
<1>. QED
  BY <1>1, <1>2, <1>3 DEF MntInv

LEMMA SetClrPowerOnWpUserKeeps ==
  ASSUME CardSizes, MntInv, NEW r \in Ranges, NEW lock \in BOOLEAN,
         SetClrPowerOnWpUser(r.addr, r.len, lock)
  PROVE  MntInv'
<1>. DEFINE call == Call("wp", "permdis", r.addr, r.len)
<1>1. call \in Tasks /\ call.op = "wp" /\ call.pc = "permdis"
  <2>. DEFINE a == r.addr
              n == r.len
  <2>1. a \in Nat /\ n \in Nat
    BY DEF CardSizes
  <2>. HIDE DEF a, n
  <2>2. /\ Call("wp", "permdis", a, n) \in Tasks
        /\ Call("wp", "permdis", a, n).op = "wp" /\ Call("wp", "permdis", a, n).pc = "permdis"
    BY <2>1, CallTyped DEF MntInv, Ops, TaskPCs
  <2>. QED
    BY <2>2 DEF a, n
<1>2. Idle /\ task' = [call EXCEPT !.lock = lock] /\ chip' = chip /\ cached' = cached
  BY DEF SetClrPowerOnWpUser
<1>. HIDE DEF call
<1>3. task' \in Tasks /\ task'.op = "wp" /\ task'.pc = "permdis"
  BY <1>1, <1>2 DEF Tasks
<1>. QED
  BY <1>2, <1>3, BeginKeeps

LEMMA RpmbSendKeeps ==
  ASSUME CardSizes, MntInv, NEW frames \in 1..3, RpmbSend(frames) PROVE MntInv'
<1>. DEFINE call == Call("rpmb", "torpmb", 0, 0)
<1>1. call \in Tasks /\ call.op = "rpmb" /\ call.pc = "torpmb"
  BY CallTyped DEF MntInv, Ops, TaskPCs
<1>2. Idle /\ task' = [call EXCEPT !.frames = frames] /\ chip' = chip /\ cached' = cached
  BY DEF RpmbSend
<1>. HIDE DEF call
<1>3. task' \in Tasks /\ task'.op = "rpmb" /\ task'.pc = "torpmb"
  BY <1>1, <1>2 DEF Tasks
<1>. QED
  BY <1>2, <1>3, BeginKeeps

LEMMA PutCardToSleepKeeps == ASSUME CardSizes, MntInv, PutCardToSleep PROVE MntInv'
<1>. DEFINE call == Call("sleep", "deselect", 0, 0)
<1>1. call \in Tasks /\ call.op = "sleep" /\ call.pc = "deselect"
  BY CallTyped DEF MntInv, Ops, TaskPCs
<1>2. Idle /\ task' = call /\ chip' = chip /\ cached' = cached
  BY DEF PutCardToSleep
<1>. HIDE DEF call
<1>. QED
  BY <1>1, <1>2, BeginKeeps

LEMMA GetWpStatusKeeps == ASSUME CardSizes, MntInv, NEW addr \in Blocks, GetWpStatus(addr) PROVE MntInv'
<1>. DEFINE call == Call("status", "idle", addr, 1)
            read == BlockAt(addr) \in chip.locked
            next == [call EXCEPT !.read = read]
<1>1. call \in Tasks /\ call.op = "status" /\ call.pc = "idle"
  <2>1. addr \in Nat
    BY DEF CardSizes, Blocks
  <2>. QED
    BY <2>1, CallTyped DEF MntInv, Ops, TaskPCs
<1>2. Idle /\ Command(chip, next) /\ cached' = cached
  BY DEF GetWpStatus
<1>3. read \in BOOLEAN
  OBVIOUS
<1>. HIDE DEF call, read
<1>4. next \in Tasks /\ next.op = "status" /\ next.pc = "idle"
  BY <1>1, <1>3 DEF Tasks
<1>5. task.op = "erase" => Bounded(chip.erased)
  BY DEF MntInv, EraseInside, Bounded
<1>6. chip \in Chips /\ cached' = cached /\ cached' \in Caches
  BY <1>2 DEF MntInv, MntTypes
<1>. HIDE DEF next
<1>7. ASSUME chip' = chip, task' = next PROVE MntInv'
  BY <1>2, <1>4, <1>7, BeginKeeps
<1>. QED
  BY <1>2, <1>5, <1>6, <1>7, CommandKeeps

LEMMA EraseKeeps ==
  ASSUME CardSizes, MntInv, NEW r \in Ranges, Erase(r.addr, r.len) PROVE MntInv'
<1>. DEFINE call == Call("erase", "start", r.addr, r.len)
            end == EraseEnd(r.addr, r.len)
<1>1. r.addr \in Nat /\ r.len \in Nat \ {0}
  BY DEF CardSizes
<1>2. /\ call \in Tasks /\ call.op = "erase" /\ call.pc = "start"
      /\ call.addr = r.addr /\ call.len = r.len
  <2>. DEFINE a == r.addr
              n == r.len
  <2>1. a \in Nat /\ n \in Nat
    BY <1>1
  <2>. HIDE DEF a, n
  <2>2. /\ Call("erase", "start", a, n) \in Tasks
        /\ Call("erase", "start", a, n).op = "erase" /\ Call("erase", "start", a, n).pc = "start"
        /\ Call("erase", "start", a, n).addr = a /\ Call("erase", "start", a, n).len = n
    BY <2>1, CallTyped DEF MntInv, Ops, TaskPCs
  <2>. QED
    BY <2>2 DEF a, n
<1>3. r.len >= DriverUnit =>
        /\ end \in Nat /\ r.addr <= end /\ end < r.addr + r.len
        /\ DriverUnit = EraseUnit => end = CardEnd(r.addr, r.len)
  BY <1>1, EndFound DEF MntInv
<1>4. EraseUnit \in Nat /\ DriverUnit \in Nat
  BY UnitPositive, DriverUnitTyped DEF MntInv
<1>. DEFINE unit == DriverUnit
            counted == [call EXCEPT !.unit = unit]
<1>5. /\ Idle /\ chip' = [chip EXCEPT !.erased = {}] /\ cached' = cached
      /\ task' = IF r.len < unit THEN [counted EXCEPT !.pc = "idle", !.ret = 1]
                 ELSE [counted EXCEPT !.end = end]
  BY DEF Erase
<1>. HIDE DEF call, end, unit
<1>6. /\ task' \in Tasks /\ task'.op = "erase" /\ task'.addr = r.addr /\ task'.len = r.len
      /\ task'.pc \in {"idle", "start"} /\ task'.unit = unit
      /\ task'.pc = "start" => r.len >= unit /\ task'.end = end
  <2>. HIDE DEF counted
  <2>1. /\ counted \in Tasks /\ counted.op = "erase" /\ counted.pc = "start" /\ counted.unit = unit
        /\ counted.addr = r.addr /\ counted.len = r.len
    BY <1>2, <1>4 DEF Tasks, counted, unit
  <2>2. CASE r.len < unit
    <3>1. task' = [counted EXCEPT !.pc = "idle", !.ret = 1]
      BY <1>5, <2>2
    <3>. QED
      BY <2>1, <3>1 DEF Tasks, TaskPCs
  <2>3. CASE ~(r.len < unit)
    <3>1. task' = [counted EXCEPT !.end = end] /\ r.len >= unit
      BY <1>1, <1>4, <1>5, <2>3 DEF unit
    <3>2. end \in Int
      BY <1>3, <3>1 DEF unit
    <3>. QED
      BY <2>1, <3>1, <3>2 DEF Tasks
  <2>. QED
    BY <2>2, <2>3
<1>7. /\ chip' \in Chips /\ chip'.kind = chip.kind /\ chip'.part = chip.part
      /\ chip'.unsure = chip.unsure /\ chip'.boot = chip.boot /\ chip'.erased = {}
  BY <1>5 DEF MntInv, MntTypes, Chips
<1>8. MntTypes'
  BY <1>5, <1>6, <1>7 DEF MntInv, MntTypes
<1>9. PartInv'
  BY <1>5, <1>6, <1>7 DEF MntInv, PartInv, TruthOf, Placed, PlaceInv, Idle, InTask
<1>10. EraseInv'
  <2>1. EraseUnit' = EraseUnit
    BY <1>7 DEF EraseUnit, kind
  <2>2. task'.pc = "start" => Ready'
    <3>1. SUFFICES ASSUME task'.pc = "start" PROVE Ready'
      OBVIOUS
    <3>2. task'.end = end /\ r.len >= unit
      BY <1>6, <3>1
    <3>3. CardEnd(r.addr, r.len)' = CardEnd(r.addr, r.len)
      BY <2>1 DEF CardEnd
    <3>. QED
      BY <1>3, <1>6, <2>1, <3>2, <3>3 DEF Ready, CardEnd, unit
  <2>. QED
    BY <1>6, <2>2 DEF EraseInv
<1>11. PlaceInv' /\ EraseInside'
  BY <1>6, <1>7 DEF PlaceInv, EraseInside
<1>. QED
  BY <1>8, <1>9, <1>10, <1>11 DEF MntInv

LEMMA CardReadyKeeps == ASSUME CardSizes, MntInv, CardReady PROVE MntInv'
<1>1. chip' = [chip EXCEPT !.busy = FALSE] /\ task' = task /\ cached' = cached
  BY DEF CardReady
<1>2. /\ chip' \in Chips /\ chip'.kind = chip.kind /\ chip'.part = chip.part
      /\ chip'.unsure = chip.unsure /\ chip'.erased = chip.erased /\ chip'.range = chip.range
      /\ chip'.boot = chip.boot
  BY <1>1 DEF MntInv, MntTypes, Chips
<1>3. MntTypes' /\ PlaceInv' /\ PartInv'
  BY <1>1, <1>2 DEF MntInv, MntTypes, PlaceInv, PartInv, TruthOf, Placed
<1>4. EraseInv'
  BY <1>1, <1>2 DEF MntInv, EraseInv, Ready, CardEnd, EraseUnit, kind, Blocks
<1>5. EraseInside'
  BY <1>1, <1>2 DEF MntInv, EraseInside, BlocksOfGroup, Asked, EraseUnit, kind, Blocks
<1>. QED
  BY <1>3, <1>4, <1>5 DEF MntInv

-----------------------------------------------------------------------------
(* What a call that succeeds has done.                                      *)

\* The blocks of the first n groups of a request, and whether they are as it wants them.
Handled(n) == {b \in Blocks : task.addr <= b /\ b < task.addr + n * WpGroup}
AsAsked(set) == IF task.lock THEN set \subseteq chip.locked ELSE set \cap chip.locked = {}
EraseDone ==
  /\ task.len >= EraseUnit /\ task.end = CardEnd(task.addr, task.len)
  /\ \A b \in Blocks : b \div EraseUnit \in (task.addr \div EraseUnit)..(task.end \div EraseUnit)
                         => b \in chip.erased \cup chip.locked

EraseExact ==
  task.op = "erase" /\ kind.mmc /\ task.unit = EraseUnit /\ (task.pc = "poll" \/ (task.pc = "idle" /\ task.ret = 0)) => EraseDone
WpCounts ==
  task.op = "wp" => /\ kind.mmc
                    /\ task.pc \in {"permdis", "extcsd", "pwren"} => task.i = 0
                    /\ task.pc = "pwren" => task.len >= WpGroup
                    /\ task.pc \in {"wp", "poll"} => /\ task.i \in Nat /\ task.i < task.end
                                                     /\ task.end = Groups(task.len, WpGroup)
WpExact ==
  task.op = "wp" /\ task.addr % WpGroup = 0 =>
     /\ task.pc = "wp" => AsAsked(Handled(task.i))
     /\ task.pc = "poll" => AsAsked(Handled(task.i + 1))
     /\ task.pc = "idle" /\ task.ret = 0 => AsAsked(Asked)
StatusExact ==
  task.op = "status" /\ task.ret = 0 /\ ~kind.bytes => (task.read <=> task.addr \in chip.locked)
ExactInv == EraseExact /\ WpCounts /\ WpExact /\ StatusExact

\* Groups that the driver counts do not cross those of the card.
LEMMA DivOfTimes ==
  ASSUME NEW k \in Nat, NEW g \in Nat \ {0}, NEW w \in Nat \ {0}, NEW r \in Nat, r < g
  PROVE  (k * g + r) \div (g * w) = k \div w
<1>. DEFINE q == k \div w
            s == k - q * w
            m == g * w
<1>1. q \in Nat /\ s \in Nat /\ s < w /\ k = q * w + s
  BY DivBounds
<1>. HIDE DEF q, s
<1>2. m \in Nat \ {0}
  OBVIOUS
<1>3. k * g + r = q * m + (s * g + r)
  BY <1>1
<1>4. s * g + r \in Nat /\ s * g + r < m
  <2>1. s * g + g <= w * g
    BY <1>1, TimesMonotone
  <2>2. s * g \in Nat /\ w * g = m
    BY <1>1
  <2>. DEFINE x == s * g
              y == w * g
  <2>. HIDE DEF x, y, m
  <2>3. x + g <= y /\ x \in Nat /\ y = m
    BY <2>1, <2>2 DEF x, y
  <2>4. x + r \in Nat /\ x + r < m
    BY <1>2, <2>3
  <2>. QED
    BY <2>4 DEF x
<1>. DEFINE t == s * g + r
<1>. HIDE DEF m, t
<1>5. (q * m + t) \div m = q
  BY <1>1, <1>2, <1>4 DEF t
<1>. QED
  BY <1>3, <1>5 DEF q, m, t

LEMMA CardGroup ==
  ASSUME CardSizes, MntTypes, kind.mmc
  PROVE  \E w \in Nat \ {0} : CardWpGroup = WpGroup * w
<1>. DEFINE h == HcUnit
            s == kind.size
            m == kind.mult
            w == kind.wp
<1>1. h \in Nat \ {0} /\ s \in Nat \ {0} /\ m \in Nat \ {0} /\ w \in Nat \ {0}
  BY DEF CardSizes, MntTypes, Chips, kind
<1>2. /\ kind.hc => CardWpGroup = (h * s) * w /\ WpGroup = h * s
      /\ ~kind.hc => CardWpGroup = (s * m) * w /\ WpGroup = (w * s) * m
  BY DEF CardWpGroup, WpGroup, EraseUnit
<1>. HIDE DEF h, s, m, w
<1>3. (w * s) * m = (s * m) * w
  BY <1>1
<1>4. CASE kind.hc
  BY <1>1, <1>2, <1>4
<1>5. CASE ~kind.hc
  <2>1. CardWpGroup = WpGroup * 1
    <3>1. (s * m) * w \in Nat
      BY <1>1
    <3>. DEFINE x == (s * m) * w
    <3>. HIDE DEF x
    <3>2. x * 1 = x
      BY <3>1 DEF x
    <3>. QED
      BY <1>2, <1>3, <1>5, <3>2 DEF x
  <2>. QED
    BY <2>1
<1>. QED
  BY <1>4, <1>5

\* The group that one command protects holds the driver's next group.
LEMMA NextGroup ==
  ASSUME CardSizes, MntTypes, kind.mmc, task.addr % WpGroup = 0, NEW i \in Nat,
         NEW b \in Blocks, task.addr + i * WpGroup <= b, b < task.addr + (i + 1) * WpGroup
  PROVE  b \in BlocksOfGroup(BlockAt(Argument(task.addr + i * WpGroup)), CardWpGroup)
<1>. DEFINE G == WpGroup
            a == task.addr
            n == a \div G
<1>1. G \in Nat \ {0} /\ a \in Nat /\ b \in Nat
  BY WpGroupPositive DEF MntTypes, Tasks, Blocks, CardSizes
<1>2. n \in Nat /\ a = n * G
  BY <1>1
<1>. HIDE DEF G, n, a
<1>3. a + i * G = (n + i) * G /\ (n + i) * G \in Nat /\ n + i \in Nat
  BY <1>1, <1>2
<1>4. (i + 1) * G = i * G + G /\ i * G \in Nat
  BY <1>1
<1>. DEFINE k == n + i
            x == k * G
            r == b - x
<1>5. x \in Nat /\ x <= b /\ b < x + G
  <2>1. x = a + i * G /\ x \in Nat
    BY <1>3
  <2>. DEFINE y == i * G
              z == (i + 1) * G
  <2>2. z = y + G /\ y \in Nat /\ x = a + y
    BY <1>4, <2>1
  <2>3. a + y <= b /\ b < a + z
    BY DEF a, G
  <2>. HIDE DEF x, y, z
  <2>. QED
    BY <1>1, <2>1, <2>2, <2>3
<1>6. k \in Nat
  BY <1>3
<1>. HIDE DEF k
<1>7. r \in Nat /\ r < G /\ b = x + r
  <2>. HIDE DEF x
  <2>. QED
    BY <1>1, <1>5
<1>. HIDE DEF r
<1>8. PICK w \in Nat \ {0} : CardWpGroup = G * w
  BY CardGroup DEF G
<1>9. (k * G + r) \div (G * w) = k \div w /\ (k * G + 0) \div (G * w) = k \div w
  <2>1. (k * G + r) \div (G * w) = k \div w
    <3>1. r \in Nat /\ r < G
      BY <1>7
    <3>. QED
      BY <1>1, <1>6, <1>8, <3>1, DivOfTimes
  <2>2. 0 \in Nat /\ 0 < G
    BY <1>1
  <2>. QED
    BY <1>1, <1>6, <1>8, <2>1, <2>2, DivOfTimes
<1>10. b \div CardWpGroup = x \div CardWpGroup
  <2>1. k * G + 0 = k * G
    BY <1>1, <1>6
  <2>. QED
    BY <1>7, <1>8, <1>9, <2>1
<1>11. BlockAt(Argument(x)) = x
  BY <1>5, BlockFound
<1>12. task.addr + i * WpGroup = x
  BY <1>3 DEF a, G, k
<1>. QED
  BY <1>10, <1>11, <1>12 DEF BlocksOfGroup

\* The driver's groups cover the request.
LEMMA GroupsCover ==
  ASSUME NEW g \in Nat \ {0}, NEW n \in Nat
  PROVE  /\ Groups(n, g) \in Nat /\ n <= Groups(n, g) * g
         /\ n >= g => Groups(n, g) >= 1
<1>. DEFINE q == (n + g - 1) \div g
<1>1. n + g - 1 \in Nat
  OBVIOUS
<1>2. q \in Nat /\ n + g - 1 < q * g + g
  BY <1>1, DivBounds
<1>3. Groups(n, g) = q
  BY DEF Groups
<1>. HIDE DEF q
<1>4. q * g \in Nat
  BY <1>2
<1>. DEFINE x == q * g
<1>5. x \in Nat /\ n + g - 1 < x + g
  BY <1>2, <1>4
<1>6. q = 0 => x = 0
  OBVIOUS
<1>. HIDE DEF x
<1>7. n <= x /\ (n >= g => q >= 1)
  BY <1>2, <1>5, <1>6
<1>. QED
  BY <1>2, <1>3, <1>7 DEF x

LEMMA AllHandled ==
  ASSUME CardSizes, MntTypes, NEW n \in Nat, n >= Groups(task.len, WpGroup)
  PROVE  Asked \subseteq Handled(n)
<1>. DEFINE G == WpGroup
            q == Groups(task.len, G)
<1>1. G \in Nat \ {0} /\ task.len \in Nat /\ task.addr \in Nat
  BY WpGroupPositive DEF MntTypes, Tasks
<1>2. q \in Nat /\ task.len <= q * G
  BY <1>1, GroupsCover
<1>. HIDE DEF G, q
<1>3. q * G <= n * G /\ n * G \in Nat /\ q * G \in Nat
  BY <1>1, <1>2, TimesMonotone DEF q, G
<1>4. task.len <= n * G
  BY <1>1, <1>2, <1>3
<1>5. ASSUME NEW b \in Asked PROVE b \in Handled(n)
  <2>. DEFINE x == n * G
  <2>1. x \in Nat /\ task.len <= x
    BY <1>3, <1>4
  <2>. HIDE DEF x
  <2>2. b \in Blocks /\ b \in Int /\ task.addr <= b /\ b <= task.addr + task.len - 1
    BY <1>1, <1>5 DEF Asked, Blocks
  <2>3. b < task.addr + x
    BY <1>1, <2>1, <2>2
  <2>. QED
    BY <2>2, <2>3 DEF Handled, x, G
<1>. QED
  BY <1>5

\* The groups that the card erases are those of the request.
LEMMA WholeGroupsErased ==
  ASSUME CardSizes, MntTypes, EraseDone, task.addr % EraseUnit = 0
  PROVE  WholeGroups \subseteq chip.erased \cup chip.locked
<1>. DEFINE U == EraseUnit
            a == task.addr \div U
            q == task.len \div U
<1>1. U \in Nat \ {0} /\ task.addr \in Nat /\ task.len \in Nat
  BY UnitPositive DEF MntTypes, Tasks
<1>2. a \in Nat /\ task.addr = a * U
  BY <1>1
<1>3. q \in Nat /\ q * U <= task.len /\ task.len < q * U + U
  BY <1>1, DivBounds
<1>4. q >= 1 /\ task.len >= U
  BY <1>1, <1>3 DEF EraseDone
<1>5. task.end = task.addr + (q - 1) * U
  BY DEF EraseDone, CardEnd
<1>. HIDE DEF U, a, q
<1>6. task.end \div U = a + q - 1
  <2>. DEFINE k == a + q - 1
  <2>1. k \in Nat /\ task.end = k * U
    BY <1>1, <1>2, <1>3, <1>4, <1>5
  <2>. HIDE DEF k
  <2>2. task.end \div U = k
    BY <1>1, <2>1, TimesDiv
  <2>. QED
    BY <2>2 DEF k
<1>7. ASSUME NEW b \in WholeGroups PROVE b \in chip.erased \cup chip.locked
  <2>. DEFINE k == b \div U
              x == k * U
  <2>1. /\ b \in Blocks /\ b \in Nat
        /\ task.addr <= x /\ x + U <= task.addr + task.len
    BY <1>7 DEF WholeGroups, Asked, Blocks, CardSizes, GroupStart, U
  <2>2. k \in Nat /\ x \in Nat
    BY <1>1, <2>1, DivBounds
  <2>. HIDE DEF k
  <2>3. a <= k
    <3>1. SUFFICES ASSUME k < a PROVE FALSE
      BY <1>2, <2>2
    <3>2. k * U + U <= a * U
      BY <1>1, <1>2, <2>2, <3>1, TimesMonotone
    <3>. HIDE DEF x
    <3>3. x + U <= task.addr
      BY <1>2, <3>2 DEF x
    <3>. QED
      BY <1>1, <2>1, <2>2, <3>3
  <2>4. k <= a + q - 1
    <3>1. SUFFICES ASSUME a + q <= k PROVE FALSE
      BY <1>2, <1>3, <2>2
    <3>2. (a + q) * U <= k * U
      BY <1>1, <1>2, <1>3, <2>2, <3>1, TimesMonotone
    <3>3. (a + q) * U = a * U + q * U /\ q * U \in Nat
      BY <1>1, <1>2, <1>3
    <3>. DEFINE y == q * U
    <3>4. task.addr + y <= x /\ y \in Nat /\ task.len < y + U
      BY <1>2, <1>3, <3>2, <3>3
    <3>. HIDE DEF x, y
    <3>. QED
      BY <1>1, <2>1, <2>2, <3>4
  <2>5. k \in a..task.end \div U
    BY <1>2, <1>3, <1>6, <2>2, <2>3, <2>4
  <2>. QED
    BY <2>1, <2>5 DEF EraseDone, U, a, k
<1>. QED
  BY <1>7

\* A call that has failed, has not come to its work or has another one owes nothing.
LEMMA NothingOwed ==
  ASSUME CardSizes, MntInv, ExactInv, chip'.kind = chip.kind,
         \/ task'.op \in {task.op, "erase"} /\ task'.pc = "idle" /\ task'.ret = 1
         \/ task'.op \in {"none", "rpmb", "sleep"}
         \/ task'.op = "erase" /\ task'.pc \in {"start", "end", "erase"}
         \/ task'.op = "wp" /\ kind.mmc /\ task'.pc \in {"permdis", "extcsd"} /\ task'.i = 0
  PROVE  ExactInv'
<1>1. task'.ret # 0 \/ task'.op # "status"
  BY DEF MntInv
<1>2. EraseExact' /\ StatusExact'
  BY <1>1 DEF EraseExact, StatusExact
<1>3. WpExact'
  BY DEF WpExact
<1>4. WpCounts'
  BY DEF WpCounts, ExactInv, kind
<1>. QED
  BY <1>2, <1>3, <1>4 DEF ExactInv

LEMMA LossOwesNothing ==
  ASSUME CardSizes, MntInv, ExactInv, task' = OnError, chip'.kind = chip.kind PROVE ExactInv'
<1>1. /\ task'.op = task.op
      /\ \/ task'.pc = "idle" /\ task'.ret = 1
         \/ task.op = "rpmb"
  BY DEF MntInv, MntTypes, Tasks, PlaceInv, OnError, Return, InTask
<1>. QED
  BY <1>1, NothingOwed

\* So here too only the commands that are answered have to be looked at.
LEMMA AnswersDecide ==
  ASSUME CardSizes, MntInv, ExactInv, NEW after \in Chips, after.kind = chip.kind, NEW next,
         Command(after, next), chip' = after /\ task' = next => ExactInv'
  PROVE  ExactInv'
<1>1. ASSUME NEW then \in {chip, after}, task' = OnError,
             chip' = [then EXCEPT !.faults = @ - 1,
                                  !.unsure = @ \/ then.part # chip.part \/ InTask("torpmb") \/ InTask("back")]
      PROVE  ExactInv'
  <2>1. chip'.kind = chip.kind
    BY <1>1 DEF MntInv, MntTypes, Chips
  <2>. QED
    BY <1>1, <2>1, LossOwesNothing
<1>. QED
  BY <1>1 DEF Command

\* The card's kind and the request decide the sizes.
LEMMA SizesStay ==
  ASSUME chip'.kind = chip.kind, task'.addr = task.addr, task'.len = task.len
  PROVE  /\ EraseUnit' = EraseUnit /\ WpGroup' = WpGroup /\ Asked' = Asked
         /\ CardEnd(task.addr, task.len)' = CardEnd(task.addr, task.len)
         /\ Groups(task.len, WpGroup)' = Groups(task.len, WpGroup)
         /\ kind' = kind
BY DEF EraseUnit, WpGroup, kind, Asked, Blocks, CardEnd, Groups

\* A step that leaves the blocks and the call alone.
LEMMA StaysExact ==
  ASSUME CardSizes, MntInv, ExactInv, chip'.kind = chip.kind, chip'.erased = chip.erased,
         chip'.locked = chip.locked,
         task'.op = task.op, task'.pc = task.pc, task'.addr = task.addr, task'.len = task.len /\ task'.unit = task.unit,
         task'.end = task.end, task'.i = task.i, task'.lock = task.lock, task'.ret = task.ret,
         task'.read = task.read
  PROVE  ExactInv'
<1>1. EraseExact'
  BY SizesStay DEF ExactInv, EraseExact, EraseDone, Blocks, CardEnd
<1>2. WpCounts'
  BY SizesStay DEF ExactInv, WpCounts, Groups
<1>3. WpExact'
  BY SizesStay DEF ExactInv, WpExact, AsAsked, Handled, Blocks, Asked
<1>4. StatusExact'
  BY SizesStay DEF ExactInv, StatusExact
<1>. QED
  BY <1>1, <1>2, <1>3, <1>4 DEF ExactInv

LEMMA SendEraseExact == ASSUME CardSizes, MntInv, ExactInv, SendErase PROVE ExactInv'
<1>. DEFINE after == [chip EXCEPT !.erased = InRange \ chip.locked, !.busy = TRUE]
            next == Step("poll")
<1>1. task.pc = "erase" /\ task.op = "erase" /\ Command(after, next)
  BY DEF SendErase, InTask, MntInv, PlaceInv
<1>2. /\ after \in Chips /\ after.kind = chip.kind /\ after.erased = InRange \ chip.locked
      /\ after.locked = chip.locked
  <2>1. InRange \subseteq Int
    BY RangeTyped DEF MntInv
  <2>. QED
    BY <2>1 DEF MntInv, MntTypes, Chips
<1>3. /\ next.op = task.op /\ next.addr = task.addr /\ next.len = task.len /\ next.end = task.end /\ next.unit = task.unit
      /\ next.pc = "poll"
  BY Onward DEF MntInv, MntTypes, Tasks, TaskPCs
<1>4. chip.range[1] = task.addr /\ chip.range[2] = task.end
  BY <1>1 DEF MntInv, EraseInv
<1>. HIDE DEF after, next
<1>5. ASSUME chip' = after, task' = next PROVE ExactInv'
  <2>1. kind.mmc /\ task.unit = EraseUnit => EraseDone'
    <3>1. task.unit = EraseUnit => task.len >= EraseUnit /\ task.end = CardEnd(task.addr, task.len)
      BY <1>1 DEF MntInv, EraseInv, Ready
    <3>2. kind.mmc => \A b \in Blocks : b \div EraseUnit \in (task.addr \div EraseUnit)..(task.end \div EraseUnit)
                         => b \in chip'.erased \cup chip'.locked
      BY <1>2, <1>4, <1>5 DEF InRange
    <3>3. EraseUnit' = EraseUnit /\ CardEnd(task.addr, task.len)' = CardEnd(task.addr, task.len)
      BY <1>2, <1>3, <1>5, SizesStay
    <3>. QED
      BY <1>3, <1>5, <3>1, <3>2, <3>3 DEF EraseDone, Blocks, CardEnd
  <2>2. EraseExact'
    BY <1>2, <1>3, <1>5, <2>1, SizesStay DEF EraseExact, kind
  <2>. QED
    BY <1>1, <1>3, <1>5, <2>2 DEF ExactInv, WpCounts, WpExact, StatusExact
<1>. QED
  BY <1>1, <1>2, <1>5, AnswersDecide

LEMMA ReadExtCsdExact == ASSUME CardSizes, MntInv, ExactInv, ReadExtCsd PROVE ExactInv'
<1>. DEFINE next == IF chip.wpDisabled \/ task.len < WpGroup THEN Return(1) ELSE Step("pwren")
<1>1. task.pc = "extcsd" /\ task.op = "wp" /\ Command(chip, next) /\ chip \in Chips
  BY DEF ReadExtCsd, InTask, MntInv, PlaceInv, MntTypes
<1>2. ASSUME chip' = chip, task' = next PROVE ExactInv'
  <2>1. CASE chip.wpDisabled \/ task.len < WpGroup
    <3>1. task'.op = task.op /\ task'.pc = "idle" /\ task'.ret = 1
      BY <1>2, <2>1 DEF Return, MntInv, MntTypes, Tasks
    <3>. QED
      BY <1>2, <3>1, NothingOwed
  <2>2. CASE ~(chip.wpDisabled \/ task.len < WpGroup)
    <3>1. task' = Step("pwren")
      BY <1>2, <2>2
    <3>2. /\ task'.op = task.op /\ task'.addr = task.addr /\ task'.len = task.len /\ task'.unit = task.unit
          /\ task'.pc = "pwren" /\ task'.i = task.i
      BY <3>1, Onward DEF MntInv, TaskPCs
    <3>3. task.len >= WpGroup
      BY <2>2, WpGroupPositive DEF MntInv, MntTypes, Tasks
    <3>4. WpGroup' = WpGroup /\ kind' = kind
      BY <1>2, <3>2, SizesStay
    <3>5. WpCounts'
      BY <1>1, <3>2, <3>3, <3>4 DEF WpCounts, ExactInv
    <3>. QED
      BY <1>1, <3>2, <3>5 DEF ExactInv, EraseExact, WpExact, StatusExact
  <2>. QED
    BY <2>1, <2>2
<1>. HIDE DEF next
<1>. QED
  BY <1>1, <1>2, AnswersDecide

LEMMA EnablePowerOnWpExact == ASSUME CardSizes, MntInv, ExactInv, EnablePowerOnWp PROVE ExactInv'
<1>. DEFINE end == Groups(task.len, WpGroup)
            next == [task EXCEPT !.pc = "wp", !.end = end]
<1>1. task.pc = "pwren" /\ task.op = "wp" /\ Command(chip, next) /\ chip \in Chips
  BY DEF EnablePowerOnWp, InTask, MntInv, PlaceInv, MntTypes
<1>2. end \in Nat /\ end >= 1
  BY <1>1, GroupsCover, WpGroupPositive DEF MntInv, MntTypes, Tasks, ExactInv, WpCounts
<1>3. /\ next.op = task.op /\ next.addr = task.addr /\ next.len = task.len /\ next.unit = task.unit /\ next.pc = "wp"
      /\ next.end = end /\ next.i = task.i
  BY DEF MntInv, MntTypes, Tasks
<1>4. task.i = 0 /\ kind.mmc
  BY <1>1 DEF ExactInv, WpCounts
<1>. HIDE DEF next
<1>5. ASSUME chip' = chip, task' = next PROVE ExactInv'
  <2>1. WpGroup' = WpGroup /\ kind' = kind /\ Groups(task.len, WpGroup)' = end
    BY <1>3, <1>5, SizesStay
  <2>2. WpCounts'
    BY <1>1, <1>2, <1>3, <1>4, <1>5, <2>1 DEF WpCounts, Groups
  <2>3. AsAsked(Handled(task.i))'
    <3>1. Handled(0)' = {}
      <4>1. task'.addr \in Nat /\ WpGroup' \in Nat \ {0}
        BY <1>3, <1>5, <2>1, WpGroupPositive DEF MntInv, MntTypes, Tasks
      <4>2. task'.addr + 0 * WpGroup' = task'.addr
        BY <4>1
      <4>3. Handled(0)' = {b \in Blocks' : task'.addr <= b /\ b < task'.addr + 0 * WpGroup'}
        BY DEF Handled
      <4>4. \A b \in Blocks' : ~(task'.addr <= b /\ b < task'.addr)
        BY <4>1 DEF Blocks, CardSizes
      <4>. QED
        BY <4>2, <4>3, <4>4
    <3>2. task'.i = 0
      BY <1>3, <1>4, <1>5
    <3>. QED
      BY <3>1, <3>2 DEF AsAsked, Handled
  <2>4. WpExact'
    BY <1>3, <1>5, <2>3 DEF WpExact
  <2>. QED
    BY <1>1, <1>3, <1>5, <2>2, <2>4 DEF ExactInv, EraseExact, StatusExact
<1>. QED
  BY <1>1, <1>5, AnswersDecide

LEMMA SendWpExact == ASSUME CardSizes, MntInv, ExactInv, SendWp PROVE ExactInv'
<1>. DEFINE group == BlocksOfGroup(BlockAt(Argument(task.addr + task.i * WpGroup)), CardWpGroup)
            locked == IF task.lock THEN chip.locked \cup group ELSE chip.locked \ group
            after == [chip EXCEPT !.locked = locked, !.busy = TRUE]
            next == Step("poll")
<1>1. /\ task.pc = "wp" /\ task.op = "wp" /\ chip \in Chips
      /\ Command(after, next) \/ Command(chip, Return(1))
  BY DEF SendWp, SendGroup, InTask, MntInv, PlaceInv, MntTypes
<1>2. after \in Chips /\ after.kind = chip.kind /\ after.locked = locked
  <2>1. group \subseteq Int
    BY DEF BlocksOfGroup, Blocks, CardSizes
  <2>. HIDE DEF group
  <2>. QED
    BY <2>1 DEF MntInv, MntTypes, Chips
<1>3. /\ next.op = task.op /\ next.addr = task.addr /\ next.len = task.len /\ next.unit = task.unit /\ next.end = task.end
      /\ next.i = task.i /\ next.lock = task.lock /\ next.pc = "poll"
  BY Onward DEF MntInv, TaskPCs
<1>4. kind.mmc /\ task.i \in Nat /\ task.i < task.end /\ task.end = Groups(task.len, WpGroup)
  BY <1>1 DEF ExactInv, WpCounts
<1>5. task.addr % WpGroup = 0 => Handled(task.i + 1) \subseteq Handled(task.i) \cup group
  <2>1. SUFFICES ASSUME task.addr % WpGroup = 0, NEW b \in Handled(task.i + 1), b \notin Handled(task.i)
                 PROVE  b \in group
    OBVIOUS
  <2>2. /\ b \in Blocks /\ task.addr <= b /\ b < task.addr + (task.i + 1) * WpGroup
        /\ ~(b < task.addr + task.i * WpGroup)
    BY <2>1 DEF Handled
  <2>3. task.addr + task.i * WpGroup <= b
    <3>1. task.i * WpGroup \in Nat /\ task.addr \in Nat /\ b \in Nat
      BY <1>4, <2>2, WpGroupPositive DEF MntInv, MntTypes, Tasks, Blocks, CardSizes
    <3>. QED
      BY <2>2, <3>1
  <2>. QED
    BY <1>4, <2>1, <2>2, <2>3, NextGroup DEF MntInv
<1>. HIDE DEF after, next, group
<1>6. ASSUME chip' = after, task' = next PROVE ExactInv'
  <2>1. WpGroup' = WpGroup /\ kind' = kind /\ Groups(task.len, WpGroup)' = Groups(task.len, WpGroup)
    BY <1>2, <1>3, <1>6, SizesStay
  <2>2. WpCounts'
    BY <1>1, <1>3, <1>4, <1>6, <2>1 DEF WpCounts, Groups
  <2>3. task.addr % WpGroup = 0 => AsAsked(Handled(task.i + 1))'
    <3>1. Handled(task.i + 1)' = Handled(task.i + 1)
      BY <1>3, <1>6, <2>1 DEF Handled, Blocks
    <3>2. task.addr % WpGroup = 0 => AsAsked(Handled(task.i))
      BY <1>1 DEF ExactInv, WpExact
    <3>3. chip'.locked = locked /\ task'.lock = task.lock
      BY <1>2, <1>3, <1>6
    <3>. QED
      BY <1>5, <3>1, <3>2, <3>3 DEF AsAsked
  <2>4. WpExact'
    BY <1>3, <1>6, <2>1, <2>3 DEF WpExact
  <2>. QED
    BY <1>1, <1>3, <1>6, <2>2, <2>4 DEF ExactInv, EraseExact, StatusExact
<1>7. ASSUME chip' = chip, task' = Return(1) PROVE ExactInv'
  <2>1. task'.op = task.op /\ task'.pc = "idle" /\ task'.ret = 1
    BY <1>7 DEF Return, MntInv, MntTypes, Tasks
  <2>. QED
    BY <1>7, <2>1, NothingOwed
<1>. QED
  BY <1>1, <1>2, <1>6, <1>7, AnswersDecide

\* The last look at a card that is no longer busy ends an erase and moves a protection on.
LEMMA AfterPollExact ==
  ASSUME CardSizes, MntInv, ExactInv, task.pc = "poll", chip' = chip,
         NEW r \in Int, task' = [AfterPoll EXCEPT !.retry = r]
  PROVE  ExactInv'
<1>1. task \in Tasks /\ task.op \in {"erase", "wp", "rpmb"}
  BY DEF MntInv, MntTypes, PlaceInv
<1>2. CASE task.op = "erase"
  <2>1. task' = [Return(0) EXCEPT !.retry = r]
    BY <1>2 DEF AfterPoll
  <2>2. /\ task'.op = "erase" /\ task'.addr = task.addr /\ task'.len = task.len /\ task'.unit = task.unit
        /\ task'.end = task.end
    BY <1>1, <1>2, <2>1 DEF Return, Tasks
  <2>3. kind.mmc /\ task.unit = EraseUnit => EraseDone
    BY <1>2 DEF ExactInv, EraseExact
  <2>4. EraseDone' = EraseDone /\ kind' = kind /\ EraseUnit' = EraseUnit
    BY <2>2, SizesStay DEF EraseDone, Blocks, CardEnd
  <2>. QED
    BY <2>2, <2>3, <2>4 DEF ExactInv, EraseExact, WpCounts, WpExact, StatusExact
<1>3. CASE task.op = "wp"
  <2>1. /\ kind.mmc /\ task.i \in Nat /\ task.i < task.end
        /\ task.end = Groups(task.len, WpGroup)
        /\ task.addr % WpGroup = 0 => AsAsked(Handled(task.i + 1))
    BY <1>3 DEF ExactInv, WpCounts, WpExact
  <2>2. CASE task.i + 1 < task.end
    <3>. PICK k \in Nat : k = task.i + 1
      BY <2>1
    <3>1. task' = [[task EXCEPT !.pc = "wp", !.i = k] EXCEPT !.retry = r]
      BY <1>3, <2>2 DEF AfterPoll
    <3>2. k \in Nat /\ k < task.end
      BY <2>1, <2>2
    <3>3. /\ task'.op = "wp" /\ task'.addr = task.addr /\ task'.len = task.len /\ task'.unit = task.unit
          /\ task'.end = task.end /\ task'.i = k /\ task'.lock = task.lock /\ task'.pc = "wp"
      BY <1>1, <1>3, <3>1 DEF Tasks
    <3>4. WpGroup' = WpGroup /\ kind' = kind /\ Groups(task.len, WpGroup)' = Groups(task.len, WpGroup)
      BY <3>3, SizesStay
    <3>5. WpCounts'
      BY <2>1, <3>2, <3>3, <3>4 DEF WpCounts, Groups
    <3>6. AsAsked(Handled(k))' = AsAsked(Handled(k))
      BY <3>3, <3>4 DEF AsAsked, Handled, Blocks
    <3>7. WpExact'
      BY <2>1, <3>3, <3>4, <3>6 DEF WpExact, AsAsked, Handled
    <3>. QED
      BY <3>3, <3>5, <3>7 DEF ExactInv, EraseExact, StatusExact
  <2>3. CASE ~(task.i + 1 < task.end)
    <3>1. task' = [Return(0) EXCEPT !.retry = r]
      BY <1>3, <2>3 DEF AfterPoll
    <3>2. /\ task'.op = "wp" /\ task'.addr = task.addr /\ task'.len = task.len /\ task'.unit = task.unit
          /\ task'.lock = task.lock /\ task'.pc = "idle"
      BY <1>1, <1>3, <3>1 DEF Return, Tasks
    <3>3. WpGroup' = WpGroup /\ kind' = kind /\ Asked' = Asked
      BY <3>2, SizesStay
    <3>4. task.addr % WpGroup = 0 => AsAsked(Asked)
      <4>1. task.end \in Int
        BY <1>1 DEF Tasks
      <4>2. task.i + 1 \in Nat /\ task.i + 1 >= Groups(task.len, WpGroup)
        BY <2>1, <2>3, <4>1
      <4>3. Asked \subseteq Handled(task.i + 1)
        BY <4>2, AllHandled DEF MntInv
      <4>. QED
        BY <2>1, <4>3 DEF AsAsked
    <3>5. AsAsked(Asked)' = AsAsked(Asked)
      BY <3>2, <3>3 DEF AsAsked
    <3>. QED
      BY <2>1, <3>2, <3>3, <3>4, <3>5 DEF ExactInv, EraseExact, WpCounts, WpExact, StatusExact
  <2>. QED
    BY <2>2, <2>3
<1>4. CASE task.op = "rpmb"
  <2>. DEFINE k == task.i + 1
  <2>1. \/ task' = [[task EXCEPT !.pc = "setcount", !.i = k] EXCEPT !.retry = r]
        \/ task' = [Step("back") EXCEPT !.retry = r]
    BY <1>4 DEF AfterPoll
  <2>. HIDE DEF k
  <2>2. task'.op = "rpmb"
    BY <1>1, <1>4, <2>1 DEF Step, Tasks
  <2>. QED
    BY <2>2, NothingOwed
<1>. QED
  BY <1>1, <1>2, <1>3, <1>4

LEMMA PollStatusExact == ASSUME CardSizes, MntInv, ExactInv, PollStatus PROVE ExactInv'
<1>. DEFINE tried == task.retry + 1
            gone == IF tried = Tries THEN OnError ELSE IF chip.busy THEN task ELSE AfterPoll
            next == [gone EXCEPT !.retry = tried]
<1>1. task.pc = "poll" /\ Command(chip, next) /\ chip \in Chips /\ task \in Tasks
  BY DEF PollStatus, InTask, MntInv, MntTypes
<1>2. tried \in Int
  BY <1>1 DEF Tasks
<1>3. ASSUME chip' = chip, task' = next PROVE ExactInv'
  <2>1. CASE tried = Tries
    <3>1. task' = [OnError EXCEPT !.retry = tried]
      BY <1>3, <2>1
    <3>. HIDE DEF tried
    <3>2. task'.op = task.op /\ ((task'.pc = "idle" /\ task'.ret = 1) \/ task.op = "rpmb")
      BY <1>1, <3>1 DEF OnError, Return, InTask, Tasks
    <3>. QED
      BY <1>3, <3>2, NothingOwed
  <2>2. CASE tried # Tries /\ chip.busy
    <3>1. task' = [task EXCEPT !.retry = tried]
      BY <1>3, <2>2
    <3>. HIDE DEF tried
    <3>. QED
      BY <1>1, <1>3, <3>1, StaysExact DEF Tasks
  <2>3. CASE tried # Tries /\ ~chip.busy
    <3>1. task' = [AfterPoll EXCEPT !.retry = tried]
      BY <1>3, <2>3
    <3>. HIDE DEF tried
    <3>. QED
      BY <1>1, <1>2, <1>3, <3>1, AfterPollExact
  <2>. QED
    BY <2>1, <2>2, <2>3
<1>. HIDE DEF next
<1>. QED
  BY <1>1, <1>3, AnswersDecide

LEMMA GetWpStatusExact ==
  ASSUME CardSizes, MntInv, ExactInv, NEW addr \in Blocks, GetWpStatus(addr) PROVE ExactInv'
<1>. DEFINE call == Call("status", "idle", addr, 1)
            read == BlockAt(addr) \in chip.locked
            next == [call EXCEPT !.read = read]
<1>1. Command(chip, next) /\ chip \in Chips
  BY DEF GetWpStatus, MntInv, MntTypes
<1>2. call \in Tasks /\ call.op = "status" /\ call.addr = addr
  <2>1. addr \in Nat
    BY DEF CardSizes, Blocks
  <2>. QED
    BY <2>1, CallTyped DEF MntInv, Ops, TaskPCs
<1>3. ~kind.bytes => (read <=> addr \in chip.locked)
  BY DEF BlockAt
<1>4. read \in BOOLEAN
  OBVIOUS
<1>. HIDE DEF call, read
<1>5. next.op = "status" /\ next.addr = addr /\ next.read = read
  BY <1>2, <1>4 DEF Tasks
<1>. HIDE DEF next
<1>6. ASSUME chip' = chip, task' = next PROVE ExactInv'
  <2>1. StatusExact'
    BY <1>3, <1>5, <1>6 DEF StatusExact, kind
  <2>. QED
    BY <1>5, <1>6, <2>1 DEF ExactInv, EraseExact, WpCounts, WpExact
<1>. QED
  BY <1>1, <1>6, AnswersDecide

\* The steps of the other calls, and those that come before the work.
LEMMA OtherStepsExact ==
  ASSUME CardSizes, MntInv, ExactInv,
         \/ EraseGrpStart \/ EraseGrpEnd \/ DisablePermWp \/ SwitchToRpmb \/ SetBlkCnt \/ SendFrame
         \/ SwitchBack \/ Deselect \/ Sleep
  PROVE  ExactInv'
<1>1. chip \in Chips /\ task \in Tasks
  BY DEF MntInv, MntTypes
<1>2. PICK after, next : /\ Command(after, next) /\ after \in Chips /\ after.kind = chip.kind
                         /\ \/ next = Step("end") /\ task.op = "erase"
                            \/ next = Step("erase") /\ task.op = "erase"
                            \/ next = Return(1) /\ task.op = "erase"
                            \/ next = Step("extcsd") /\ task.pc = "permdis" /\ task.op = "wp"
                            \/ next.op = task.op /\ task.op \in {"rpmb", "sleep"}
  <2>. DEFINE Good(next) == \/ next = Step("end") /\ task.op = "erase"
                            \/ next = Step("erase") /\ task.op = "erase"
                            \/ next = Return(1) /\ task.op = "erase"
                            \/ next = Step("extcsd") /\ task.pc = "permdis" /\ task.op = "wp"
                            \/ next.op = task.op /\ task.op \in {"rpmb", "sleep"}
              SetFirst(b) == [chip EXCEPT !.range[1] = b]
              SetLast(b) == [chip EXCEPT !.range[2] = b]
  <2>1. \A b \in Nat : SetFirst(b) \in Chips /\ SetFirst(b).kind = chip.kind
                       /\ SetLast(b) \in Chips /\ SetLast(b).kind = chip.kind
    BY <1>1 DEF Chips
  <2>2. CASE EraseGrpStart
    <3>. DEFINE b == BlockAt(Argument(task.addr))
    <3>1. task.op = "erase" /\ (Command(SetFirst(b), Step("end")) \/ Command(chip, Return(1)))
      BY <2>2 DEF EraseGrpStart, SendGroup, InTask, MntInv, PlaceInv
    <3>2. b \in Nat
      BY <1>1, BlockFound DEF MntInv, Tasks
    <3>. HIDE DEF b, SetFirst
    <3>. QED
      BY <1>1, <2>1, <3>1, <3>2
  <2>3. CASE EraseGrpEnd
    <3>. DEFINE b == BlockAt(Argument(task.end))
    <3>1. task.op = "erase" /\ (Command(SetLast(b), Step("erase")) \/ Command(chip, Return(1)))
      BY <2>3 DEF EraseGrpEnd, SendGroup, InTask, MntInv, PlaceInv
    <3>2. b \in Nat
      <4>1. task.end \in Nat
        BY <2>3 DEF EraseGrpEnd, SendGroup, InTask, MntInv, EraseInv, Ready
      <4>. QED
        BY <4>1, BlockFound DEF MntInv
    <3>. HIDE DEF b, SetLast
    <3>. QED
      BY <1>1, <2>1, <3>1, <3>2
  <2>4. CASE DisablePermWp
    BY <1>1, <2>4 DEF DisablePermWp, InTask, MntInv, PlaceInv
  <2>5. ASSUME NEW after \in Chips, after.kind = chip.kind, NEW next, Command(after, next),
               next.op = task.op, task.op \in {"rpmb", "sleep"}
        PROVE  \E a, n : Command(a, n) /\ a \in Chips /\ a.kind = chip.kind /\ Good(n)
    BY <2>5
  <2>6. \A p \in TaskPCs : Step(p).op = task.op
    BY Onward DEF MntInv
  <2>7. CASE SetBlkCnt
    BY <1>1, <2>5, <2>6, <2>7 DEF SetBlkCnt, InTask, MntInv, PlaceInv, TaskPCs
  <2>8. CASE SendFrame \/ Deselect \/ Sleep \/ SwitchToRpmb \/ SwitchBack
    <3>. DEFINE a1 == [chip EXCEPT !.busy = TRUE]
                a2 == [chip EXCEPT !.state = "stby"]
                a3 == [chip EXCEPT !.state = "slp"]
                a4 == [chip EXCEPT !.part = "rpmb", !.boot = cached.boot]
                a5 == [chip EXCEPT !.part = "default", !.boot = cached.boot]
    <3>1. /\ a1 \in Chips /\ a1.kind = chip.kind /\ a2 \in Chips /\ a2.kind = chip.kind
          /\ a3 \in Chips /\ a3.kind = chip.kind /\ a4 \in Chips /\ a4.kind = chip.kind
          /\ a5 \in Chips /\ a5.kind = chip.kind
      <4>1. cached.boot \in Boots
        BY DEF MntInv, MntTypes, Caches
      <4>. QED
        BY <1>1, <4>1 DEF Chips, Parts
    <3>2. /\ task.op \in {"rpmb", "sleep"}
          /\ \/ Command(a1, Step("poll")) \/ Command(a2, Step("sleep")) \/ Command(a3, Return(0))
             \/ Command(a4, Step("setcount")) \/ Command(a5, Return(task.ret))
      BY <2>8 DEF SendFrame, Deselect, Sleep, SwitchToRpmb, SwitchBack, SwitchPart, InTask, MntInv, PlaceInv
    <3>3. task.ret \in {0, 1}
      BY <1>1 DEF Tasks
    <3>4. Return(0).op = task.op /\ Return(task.ret).op = task.op
      BY <3>3, Ended DEF MntInv
    <3>. HIDE DEF a1, a2, a3, a4, a5
    <3>. QED
      BY <2>5, <2>6, <3>1, <3>2, <3>4 DEF TaskPCs
  <2>. HIDE DEF Good
  <2>9. \E a, n : Command(a, n) /\ a \in Chips /\ a.kind = chip.kind /\ Good(n)
    BY <2>2, <2>3, <2>4, <2>7, <2>8 DEF Good
  <2>. QED
    BY <2>9 DEF Good
<1>3. ASSUME chip' = after, task' = next PROVE ExactInv'
  <2>1. CASE next = Step("end") \/ next = Step("erase")
    BY <1>2, <1>3, <2>1, Onward, NothingOwed DEF MntInv, TaskPCs
  <2>2. CASE next = Return(1) /\ task.op = "erase"
    <3>1. task'.op = task.op /\ task'.pc = "idle" /\ task'.ret = 1
      BY <1>1, <1>3, <2>2 DEF Return, Tasks
    <3>. QED
      BY <1>2, <1>3, <3>1, NothingOwed
  <2>3. CASE next = Step("extcsd") /\ task.pc = "permdis" /\ task.op = "wp"
    <3>1. task'.op = "wp" /\ task'.pc = "extcsd" /\ task'.i = task.i
      BY <1>3, <2>3, Onward DEF MntInv, TaskPCs
    <3>2. kind.mmc /\ task.i = 0
      BY <2>3 DEF ExactInv, WpCounts
    <3>. QED
      BY <1>2, <1>3, <3>1, <3>2, NothingOwed
  <2>4. CASE next.op = task.op /\ task.op \in {"rpmb", "sleep"}
    BY <1>2, <1>3, <2>4, NothingOwed
  <2>. QED
    BY <1>2, <2>1, <2>2, <2>3, <2>4
<1>. QED
  BY <1>2, <1>3, AnswersDecide

\* The calls on a range of blocks that begin.
LEMMA CallsExact ==
  ASSUME CardSizes, MntInv, ExactInv, NEW r \in Ranges, NEW lock \in BOOLEAN,
         Erase(r.addr, r.len) \/ SetClrPowerOnWpUser(r.addr, r.len, lock)
  PROVE  ExactInv'
<1>1. chip \in Chips /\ task \in Tasks
  BY DEF MntInv, MntTypes
<1>. DEFINE left == task.left - 1
            a == r.addr
            n == r.len
            begun(op, pc) == [task EXCEPT !.op = op, !.pc = pc, !.addr = a, !.len = n, !.left = left,
                                          !.i = 0, !.retry = 0, !.ret = 0, !.frames = 0]
<1>2. CASE SetClrPowerOnWpUser(r.addr, r.len, lock)
  <2>1. task' = [begun("wp", "permdis") EXCEPT !.lock = lock] /\ chip' = chip /\ kind.mmc
    BY <1>2 DEF SetClrPowerOnWpUser, Call
  <2>. HIDE DEF left, a, n
  <2>2. task'.op = "wp" /\ task'.pc = "permdis" /\ task'.i = 0
    BY <1>1, <2>1 DEF Tasks
  <2>. QED
    BY <2>1, <2>2, NothingOwed
<1>3. CASE Erase(r.addr, r.len)
  <2>. DEFINE end == EraseEnd(r.addr, r.len)
              unit == DriverUnit
              call == [begun("erase", "start") EXCEPT !.unit = unit]
  <2>1. /\ task' \in {[call EXCEPT !.pc = "idle", !.ret = 1], [call EXCEPT !.end = end]}
        /\ chip' = [chip EXCEPT !.erased = {}]
    BY <1>3 DEF Erase, Call
  <2>. HIDE DEF left, a, n, end, unit
  <2>2. task'.op = "erase" /\ (task'.pc = "start" \/ (task'.pc = "idle" /\ task'.ret = 1))
    <3>1. CASE task' = [call EXCEPT !.pc = "idle", !.ret = 1]
      BY <1>1, <3>1 DEF Tasks
    <3>2. CASE task' = [call EXCEPT !.end = end]
      BY <1>1, <3>2 DEF Tasks
    <3>. QED
      BY <2>1, <3>1, <3>2
  <2>3. chip'.kind = chip.kind
    BY <1>1, <2>1 DEF Chips
  <2>. QED
    BY <2>2, <2>3, NothingOwed
<1>. QED
  BY <1>2, <1>3

LEMMA CardReadyExact == ASSUME CardSizes, MntInv, ExactInv, CardReady PROVE ExactInv'
<1>1. chip' = [chip EXCEPT !.busy = FALSE] /\ task' = task
  BY DEF CardReady
<1>2. chip'.kind = chip.kind /\ chip'.erased = chip.erased /\ chip'.locked = chip.locked
  BY <1>1 DEF MntInv, MntTypes, Chips
<1>. QED
  BY <1>1, <1>2, StaysExact

-----------------------------------------------------------------------------
(* The theorems.                                                            *)

LEMMA InitEstablishes == ASSUME CardSizes, MntInit PROVE MntInv
<1>1. PICK k \in CardKinds, w \in BOOLEAN :
        chip = [kind |-> k, wpDisabled |-> w, part |-> "default", boot |-> "own", locked |-> {}, erased |-> {},
                range |-> <<0, 0>>, busy |-> FALSE, state |-> "tran", faults |-> CommandFaults,
                unsure |-> FALSE]
  BY DEF MntInit
<1>2. /\ chip \in Chips /\ chip.kind = k /\ chip.part = "default" /\ chip.boot = "own"
      /\ chip.erased = {} /\ ~chip.unsure
  BY <1>1 DEF Chips, Parts, Boots, CardSizes
<1>3. task \in Tasks /\ task.op = "none" /\ task.pc = "idle"
  BY DEF MntInit, Tasks, Ops, TaskPCs, CardSizes
<1>4. cached \in Caches /\ TruthOf(cached, chip)
  <2>1. cached = [hc |-> k.hc, size |-> k.size, part |-> "default", boot |-> "own", known |-> TRUE]
    BY <1>2 DEF MntInit, kind
  <2>2. k.hc \in BOOLEAN /\ k.size \in Nat
    BY DEF CardSizes
  <2>. QED
    BY <1>2, <2>1, <2>2 DEF Caches, Parts, Boots, TruthOf
<1>. QED
  BY <1>2, <1>3, <1>4 DEF MntInv, MntTypes, PlaceInv, PartInv, Placed, EraseInv, EraseInside

LEMMA MntNextKeeps == ASSUME CardSizes, MntInv, [MntNext]_mntVars PROVE MntInv'
<1>1. ASSUME NEW r \in Ranges, Erase(r.addr, r.len) PROVE MntInv'
  BY <1>1, EraseKeeps
<1>2. ASSUME NEW r \in Ranges, NEW lock \in BOOLEAN, SetClrPowerOnWpUser(r.addr, r.len, lock)
      PROVE  MntInv'
  BY <1>2, SetClrPowerOnWpUserKeeps
<1>3. ASSUME NEW addr \in Blocks, GetWpStatus(addr) PROVE MntInv'
  BY <1>3, GetWpStatusKeeps
<1>4. ASSUME NEW frames \in 1..3, RpmbSend(frames) PROVE MntInv'
  BY <1>4, RpmbSendKeeps
<1>5. CASE UNCHANGED mntVars
  BY <1>5 DEF mntVars, MntInv, MntTypes, PlaceInv, PartInv, TruthOf, Placed, EraseInv, EraseInside,
              Ready, CardEnd, EraseUnit, kind, Blocks, BlocksOfGroup, Asked
<1>. QED
  BY <1>1, <1>2, <1>3, <1>4, <1>5, PutCardToSleepKeeps, EraseGrpStartKeeps, EraseGrpEndKeeps,
     SendEraseKeeps, PollStatusKeeps, CardReadyKeeps, DisablePermWpKeeps, ReadExtCsdKeeps,
     EnablePowerOnWpKeeps, SendWpKeeps, SwitchToRpmbKeeps, SetBlkCntKeeps, SendFrameKeeps,
     SwitchBackKeeps, DeselectKeeps, SleepKeeps
  DEF MntNext

\* The inductive invariant holds of every behaviour of the maintenance calls.
THEOREM MaintenanceInvariance == ASSUME CardSizes PROVE MntSpec => []MntInv
BY InitEstablishes, MntNextKeeps, PTL DEF MntSpec

\* mmc_sdhci_erase erases only erase groups that its request has a block in, however the call
\* ends, whatever commands are lost and whatever a failed read of the registers has left in the
\* driver's buffer; and nothing behind the request nor before the group it starts in, if the
\* erase unit it read there is the card's.
THEOREM EraseStaysInside == ASSUME CardSizes PROVE MntSpec => []EraseInside
<1>1. MntInv => EraseInside
  BY DEF MntInv
<1>. QED
  BY <1>1, MaintenanceInvariance, PTL

LEMMA Restored == ASSUME CardSizes, MntInv PROVE PartitionRestored
<1>1. TruthOf(cached, chip) /\ Placed /\ PlaceInv
  BY DEF MntInv, PartInv
<1>2. cached.known => DriverUnit = EraseUnit
  BY <1>1 DEF TruthOf, DriverUnit, EraseUnit, kind
<1>. QED
  BY <1>1, <1>2 DEF TruthOf, Placed, PlaceInv, PartitionRestored, InTask

\* mmc_sdhci_rpmb_send leaves the card in the default partition, wherever between its two
\* switches it fails and whatever the driver holds for the card's registers; frames go to the
\* RPMB partition only.  The erase unit, the partition and the boot configuration the driver
\* holds are the card's unless its last read of the registers failed.
THEOREM RpmbReturns == ASSUME CardSizes PROVE MntSpec => []PartitionRestored
<1>1. MntInv => PartitionRestored
  BY Restored
<1>. QED
  BY <1>1, MaintenanceInvariance, PTL

LEMMA NextExact == ASSUME CardSizes, MntInv, ExactInv, [MntNext]_mntVars PROVE ExactInv'
<1>1. ASSUME NEW r \in Ranges, Erase(r.addr, r.len) \/ \E lock \in BOOLEAN : SetClrPowerOnWpUser(r.addr, r.len, lock)
      PROVE  ExactInv'
  <2>1. TRUE \in BOOLEAN /\ 1 \in 1..3
    OBVIOUS
  <2>. QED
    BY <1>1, <2>1, CallsExact
<1>2. ASSUME NEW frames \in 1..3, RpmbSend(frames) PROVE ExactInv'
  <2>1. task' = [Call("rpmb", "torpmb", 0, 0) EXCEPT !.frames = frames] /\ chip' = chip
    BY <1>2 DEF RpmbSend
  <2>2. Call("rpmb", "torpmb", 0, 0) \in Tasks /\ Call("rpmb", "torpmb", 0, 0).op = "rpmb"
    BY CallTyped DEF MntInv, Ops, TaskPCs
  <2>3. task'.op = "rpmb"
    BY <2>1, <2>2 DEF Tasks
  <2>. QED
    BY <2>1, <2>3, NothingOwed
<1>3. CASE PutCardToSleep
  <2>1. task' = Call("sleep", "deselect", 0, 0) /\ chip' = chip
    BY <1>3 DEF PutCardToSleep
  <2>2. task'.op = "sleep"
    BY <2>1, CallTyped DEF MntInv, Ops, TaskPCs
  <2>. QED
    BY <2>1, <2>2, NothingOwed
<1>4. CASE UNCHANGED mntVars
  BY <1>4, StaysExact DEF mntVars
<1>. QED
  BY <1>1, <1>2, <1>3, <1>4, GetWpStatusExact, SendEraseExact, PollStatusExact, CardReadyExact,
     ReadExtCsdExact, EnablePowerOnWpExact, SendWpExact, OtherStepsExact
  DEF MntNext

LEMMA ExactInit == ASSUME MntInit PROVE ExactInv
BY DEF MntInit, ExactInv, EraseExact, WpCounts, WpExact, StatusExact

LEMMA MntPromises == ASSUME CardSizes, MntInv, ExactInv PROVE MaintenanceExact /\ PartitionRestored
<1>1. Succeeded("erase") /\ kind.mmc /\ task.unit = EraseUnit /\ task.addr % EraseUnit = 0
        => WholeGroups \subseteq chip.erased \cup chip.locked
  BY WholeGroupsErased DEF ExactInv, EraseExact, Succeeded, InTask, MntInv
<1>2. Succeeded("wp") /\ task.addr % WpGroup = 0
        => IF task.lock THEN Asked \subseteq chip.locked ELSE Asked \cap chip.locked = {}
  BY DEF ExactInv, WpExact, AsAsked, Succeeded, InTask
<1>3. Succeeded("status") /\ ~kind.bytes => (task.read <=> task.addr \in chip.locked)
  BY DEF ExactInv, StatusExact, Succeeded
<1>4. PartitionRestored
  BY Restored
<1>. QED
  BY <1>1, <1>2, <1>3, <1>4 DEF MaintenanceExact, MntInv

\* mmc_sdhci_erase with the card's own unit has erased every whole group of its request but the
\* locked ones,
\* mmc_set_clr_power_on_wp_user has protected or released all it was asked to, and
\* mmc_get_wp_status has read what holds, whenever they report success: for every size of card
\* and group, any number of tries and any commands lost.
THEOREM MaintenanceIsExact == ASSUME CardSizes PROVE MntSpec => []MaintenanceExact
<1>1. MntInv /\ ExactInv => MaintenanceExact
  BY MntPromises
<1>2. MntInv /\ ExactInv /\ [MntNext]_mntVars => ExactInv'
  BY NextExact
<1>. QED
  BY <1>1, <1>2, ExactInit, MaintenanceInvariance, PTL DEF MntSpec

-----------------------------------------------------------------------------
(***************************************************************************)
(* The PMIC bus, for any number of peripherals and channels, every owner   *)
(* table in which channels lead to one peripheral each, and any number of  *)
(* commands.                                                               *)
(***************************************************************************)
SpmiPCs == {"off", "idle", "lookup", "wdata", "cmd", "wait", "rdata"}
Carried == {"wdata", "cmd", "wait", "rdata"}
Commands == [kind : {"write", "read"}, target : Peripherals, off : Nat, size : 1..8]
Words == [kind : {"write", "read"}, off : Nat, cnt : 0..7, target : Peripherals]
DataRegs == [0..1 -> [1..4 -> Int]]
Buffers == UNION {[1..n -> Int] : n \in 0..8}
Arbiters == [Channels -> [wdata : DataRegs, rdata : DataRegs, cmd : Words \cup {NoCommand},
                          status : SUBSET {"done", "failure"}]]
Memories == [Peripherals -> [Bytes -> Int]]
Drivers == [pc : SpmiPCs, version : {1, 2}, hwV2 : BOOLEAN, chnl : Channels \cup {Unmapped},
            tbl : [Peripherals -> Channels \cup {Unmapped}], cmd : Commands \cup {NoCommand},
            done : 0..8, buf : Buffers, ret : {0, 1}, left : Int]
SpmiTypes == spmi \in Drivers /\ arb \in Arbiters /\ pmicMem \in Memories /\ memAtCall \in Memories

\* The commands of the PMIC's table lead to their own peripheral, and so does the channel of
\* the command under way; a command is with the arbiter only while the driver waits for it.
ChannelsInv ==
  /\ \A p \in Peripherals : spmi.tbl[p] # Unmapped => ChannelOwner[spmi.tbl[p]] = p
  /\ spmi.version = 2 => spmi.hwV2
  /\ ~spmi.hwV2 => spmi.chnl = DefaultChannel
  /\ spmi.pc = "off" => spmi.chnl = DefaultChannel /\ spmi.cmd = NoCommand
  /\ spmi.pc \in Carried => spmi.chnl \in Channels /\ (spmi.version = 2 => ChannelOwner[spmi.chnl] = spmi.cmd.target)
  /\ \A c \in Channels : arb[c].cmd # NoCommand =>
        spmi.pc = "wait" /\ c = spmi.chnl /\ arb[c].cmd = CommandWord(spmi) /\ arb[c].status = {}

Reads == spmi.cmd.kind = "read"
Unmoved == pmicMem = memAtCall
Loaded(n) == \A i \in 0..7 : i < n => DataByte(arb[spmi.chnl].wdata, i) = spmi.buf[i + 1]
Fetched == \A i \in 0..7 : i < spmi.cmd.size => DataByte(arb[spmi.chnl].rdata, i) = pmicMem[spmi.cmd.target][spmi.cmd.off + i]
Received(n) == \A i \in 0..7 : i < n => spmi.buf[i + 1] = pmicMem[spmi.cmd.target][spmi.cmd.off + i]
Written ==
  [memAtCall EXCEPT ![spmi.cmd.target] =
     [o \in Bytes |-> IF o \in spmi.cmd.off..(spmi.cmd.off + spmi.cmd.size - 1) THEN spmi.buf[o - spmi.cmd.off + 1] ELSE @[o]]]

\* How far the data of the command has come at each place of the driver.
DataInv ==
  /\ spmi.pc \in {"lookup"} \cup Carried => spmi.cmd \in Commands /\ spmi.buf \in [1..spmi.cmd.size -> Int]
                                           /\ spmi.cmd.off..(spmi.cmd.off + spmi.cmd.size - 1) \subseteq Bytes
  /\ spmi.pc \in {"off", "lookup", "wdata", "cmd"} => Unmoved
  /\ spmi.pc = "lookup" => spmi.done = 0
  /\ spmi.pc = "wdata" => ~Reads /\ spmi.done \in {0, 4} /\ spmi.done < spmi.cmd.size /\ Loaded(spmi.done)
  /\ spmi.pc \in {"cmd", "wait"} => IF Reads THEN spmi.done = 0 ELSE Loaded(spmi.cmd.size)
  /\ spmi.pc = "wait" => IF arb[spmi.chnl].status = {"done"}
                         THEN IF Reads THEN Unmoved /\ Fetched ELSE pmicMem = Written
                         ELSE Unmoved
  /\ spmi.pc = "rdata" => /\ Reads /\ Unmoved /\ Fetched
                          /\ spmi.done \in {0, 4} /\ spmi.done < spmi.cmd.size /\ Received(spmi.done)
SpmiInv == SpmiTypes /\ ChannelsInv /\ DataInv /\ SpmiTransfer

-----------------------------------------------------------------------------
\* spmi_lookup_chnl_number: a channel found for a peripheral is its own.
LEMMA GreatestOf == ASSUME NEW n \in Nat, NEW S \in SUBSET (0..n), S # {} PROVE \E c \in S : \A d \in S : d <= c
<1>. DEFINE T == {n - c : c \in S}
<1>1. T \subseteq Nat /\ T # {}
  <2>1. \A c \in S : n - c \in Nat
    OBVIOUS
  <2>2. PICK c \in S : TRUE
    OBVIOUS
  <2>3. n - c \in T
    BY <2>2
  <2>. QED
    BY <2>1, <2>3
<1>2. PICK x \in T : \A y \in T : ~(<<y, x>> \in OpToRel(<, Nat))
  BY <1>1, NatLessThanWellFounded, WFMin, Zenon
<1>3. \A y \in T : y \in Nat /\ x \in Nat /\ ~(y < x)
  BY <1>1, <1>2, Zenon DEF OpToRel
<1>4. PICK c \in S : x = n - c
  OBVIOUS
<1>5. \A d \in S : d <= c
  <2>1. TAKE d \in S
  <2>2. n - d \in T
    OBVIOUS
  <2>. QED
    BY <1>3, <1>4, <2>2
<1>. QED
  BY <1>5

LEMMA LookupFinds == ASSUME SpmiAssumption
  PROVE /\ LookupTable \in [Peripherals -> Channels \cup {Unmapped}]
        /\ \A p \in Peripherals : LookupTable[p] # Unmapped => ChannelOwner[LookupTable[p]] = p
<1>. SUFFICES ASSUME NEW p \in Peripherals
     PROVE LookupTable[p] \in Channels \cup {Unmapped} /\ (LookupTable[p] # Unmapped => ChannelOwner[LookupTable[p]] = p)
  BY DEF LookupTable
<1>. DEFINE own == {c \in Channels : ChannelOwner[c] = p}
<1>1. CASE own = {}
  BY <1>1 DEF LookupTable
<1>2. CASE own # {}
  <2>1. PICK n \in 1..Unmapped : Channels = 0..(n - 1)
    BY DEF SpmiAssumption
  <2>2. own \subseteq 0..(n - 1) /\ n - 1 \in Nat
    BY <2>1 DEF Unmapped
  <2>3. \E c \in own : \A d \in own : d <= c
    BY <1>2, <2>2, GreatestOf
  <2>4. LookupTable[p] = CHOOSE c \in own : \A d \in own : d <= c
    BY <1>2 DEF LookupTable
  <2>5. LookupTable[p] \in own
    BY <2>3, <2>4
  <2>. QED
    BY <2>5
<1>. QED
  BY <1>1, <1>2

LEMMA ChannelRange == ASSUME SpmiAssumption PROVE DefaultChannel \in Channels /\ Unmapped \notin Channels
BY DEF SpmiAssumption, DefaultChannel, Unmapped

LEMMA TransferInit == ASSUME SpmiAssumption, SpmiInitState PROVE SpmiInv
<1>. USE DEF SpmiInitState
<1>1. IdleChannel \in [wdata : DataRegs, rdata : DataRegs, cmd : Words \cup {NoCommand}, status : SUBSET {"done", "failure"}]
  BY DEF IdleChannel, DataRegs
<1>2. spmi \in Drivers
  <2>1. <<>> \in Buffers
    BY DEF Buffers
  <2>2. NoTable \in [Peripherals -> Channels \cup {Unmapped}]
    BY DEF NoTable
  <2>. QED
    BY <2>1, <2>2, ChannelRange DEF Drivers, SpmiPCs, SpmiAssumption
<1>3. SpmiTypes
  BY <1>1, <1>2 DEF SpmiTypes, Arbiters, Memories
<1>4. ChannelsInv
  <2>1. \A c \in Channels : arb[c].cmd = NoCommand
    BY DEF IdleChannel
  <2>. QED
    BY <2>1 DEF ChannelsInv, Carried, NoTable
<1>5. DataInv
  BY DEF DataInv, Carried, Unmoved
<1>. QED
  BY <1>3, <1>4, <1>5 DEF SpmiInv, SpmiTransfer

-----------------------------------------------------------------------------
\* The driver's steps.
LEMMA ByteOf == ASSUME NEW regs, NEW i \in 0..7
  PROVE DataByte(regs, i) = IF i < 4 THEN regs[0][1 + i] ELSE regs[1][i - 3]
<1>1. CASE i < 4
  <2>1. i \div 4 = 0 /\ i % 4 = i
    BY <1>1
  <2>. QED
    BY <1>1, <2>1 DEF DataByte
<1>2. CASE ~(i < 4)
  <2>1. i \div 4 = 1 /\ i % 4 = i - 4 /\ 1 + (i - 4) = i - 3
    BY <1>2
  <2>. QED
    BY <1>2, <2>1 DEF DataByte
<1>. QED
  BY <1>1, <1>2

LEMMA SpmiCallTyped ==
  ASSUME spmi \in Drivers, NEW q \in SpmiPCs, NEW left \in Int, NEW d \in 0..8, NEW cmd \in Commands, NEW buf \in Buffers,
         spmi' = [spmi EXCEPT !.pc = q, !.left = left, !.done = d, !.cmd = cmd, !.buf = buf]
  PROVE spmi' \in Drivers
BY DEF Drivers
LEMMA DataTyped ==
  ASSUME spmi \in Drivers, NEW d \in 0..8, NEW q \in SpmiPCs, spmi' = [spmi EXCEPT !.done = d, !.pc = q]
  PROVE spmi' \in Drivers
BY DEF Drivers

LEMMA ReturnTyped == ASSUME spmi \in Drivers, NEW r \in {0, 1}, spmi' = [spmi EXCEPT !.pc = "idle", !.ret = r]
  PROVE spmi' \in Drivers
BY DEF Drivers, SpmiPCs
LEMMA ReadTyped ==
  ASSUME spmi \in Drivers, NEW d \in 0..8, NEW buf \in Buffers,
         \/ spmi' = [spmi EXCEPT !.done = d, !.buf = buf]
         \/ spmi' = [[spmi EXCEPT !.done = d, !.buf = buf] EXCEPT !.pc = "idle", !.ret = 0]
  PROVE spmi' \in Drivers
<1>1. PICK s : s = [spmi EXCEPT !.done = d, !.buf = buf]
  OBVIOUS
<1>2. s \in Drivers
  BY <1>1 DEF Drivers
<1>3. [s EXCEPT !.pc = "idle", !.ret = 0] \in Drivers
  BY <1>2 DEF Drivers, SpmiPCs
<1>. QED
  BY <1>1, <1>2, <1>3

LEMMA InitStep == ASSUME SpmiAssumption, SpmiInv, NEW version \in {1, 2}, NEW hwV2 \in BOOLEAN, version = 2 => hwV2,
                         SpmiInit(version, hwV2)
  PROVE SpmiInv'
<1>. USE DEF SpmiInv, SpmiInit
<1>1. SpmiTypes'
  <2>1. NoTable \in [Peripherals -> Channels \cup {Unmapped}]
    BY DEF NoTable
  <2>. QED
    BY <2>1, LookupFinds DEF SpmiTypes, Drivers, SpmiPCs
<1>2. ChannelsInv'
  <2>1. \A p \in Peripherals : spmi'.tbl[p] # Unmapped => ChannelOwner[spmi'.tbl[p]] = p
    BY LookupFinds DEF SpmiTypes, Drivers, NoTable
  <2>2. /\ spmi'.pc = "idle" /\ spmi'.version = version /\ spmi'.hwV2 = hwV2
        /\ spmi'.chnl = DefaultChannel /\ spmi'.cmd = NoCommand
    BY DEF SpmiTypes, Drivers, ChannelsInv
  <2>3. \A c \in Channels : arb'[c].cmd = NoCommand
    BY DEF ChannelsInv
  <2>. QED
    BY <2>1, <2>2, <2>3 DEF ChannelsInv, Carried
<1>3. spmi'.pc = "idle" /\ spmi'.cmd = NoCommand
  BY DEF SpmiTypes, Drivers, ChannelsInv
<1>. QED
  BY <1>1, <1>2, <1>3 DEF DataInv, Carried, SpmiTransfer

LEMMA CallStep == ASSUME SpmiAssumption, SpmiInv, NEW way \in {"write", "read"}, NEW p \in Peripherals, NEW o \in Offsets, NEW n \in Sizes,
                         SpmiCall(way, p, o, n)
  PROVE SpmiInv'
<1>. USE DEF SpmiInv, SpmiCall
<1>. DEFINE cmd == [kind |-> way, target |-> p, off |-> o, size |-> n]
            buf == [i \in 1..n |-> IF way = "write" THEN 10 * spmi.left + i ELSE 0]
<1>1. o \in Nat /\ n \in 1..8 /\ cmd \in Commands
  BY DEF SpmiAssumption, Commands
<1>2. buf \in [1..n -> Int] /\ buf \in Buffers
  <2>1. spmi.left \in Int
    BY DEF SpmiTypes, Drivers
  <2>2. \A i \in 1..n : 10 * spmi.left + i \in Int
    BY <2>1
  <2>. QED
    BY <1>1, <2>2 DEF Buffers
<1>3. spmi' = [spmi EXCEPT !.pc = "lookup", !.left = @ - 1, !.done = 0, !.cmd = cmd, !.buf = buf]
  OBVIOUS
<1>. HIDE DEF cmd, buf
<1>4. SpmiTypes'
  <2>1. spmi \in Drivers /\ spmi.left - 1 \in Int
    BY DEF SpmiTypes, Drivers
  <2>2. spmi' \in Drivers
    <3>1. "lookup" \in SpmiPCs /\ 0 \in 0..8
      BY DEF SpmiPCs
    <3>. QED
      BY ONLY <1>1, <1>2, <1>3, <2>1, <3>1, SpmiCallTyped, Zenon
  <2>. QED
    BY <2>2 DEF SpmiTypes
<1>5. /\ spmi'.pc = "lookup" /\ spmi'.done = 0 /\ spmi'.cmd = cmd /\ spmi'.buf = buf
      /\ spmi'.chnl = spmi.chnl /\ spmi'.tbl = spmi.tbl /\ spmi'.hwV2 = spmi.hwV2 /\ spmi'.version = spmi.version
  BY <1>3 DEF SpmiTypes, Drivers
<1>6. ChannelsInv'
  BY <1>5 DEF ChannelsInv, Carried
<1>7. cmd.off..(cmd.off + cmd.size - 1) \subseteq Bytes /\ cmd.size = n
  BY DEF SpmiAssumption, cmd
<1>8. DataInv'
  BY <1>1, <1>2, <1>5, <1>7 DEF DataInv, Carried, Unmoved
<1>. QED
  BY <1>4, <1>5, <1>6, <1>8 DEF SpmiTransfer

\* A step of the driver that leaves the PMIC alone.
LEMMA LookupStep == ASSUME SpmiAssumption, SpmiInv, LookupChannel PROVE SpmiInv'
<1>. USE DEF SpmiInv, LookupChannel
<1>. DEFINE c == IF spmi.hwV2 THEN spmi.tbl[spmi.cmd.target] ELSE spmi.chnl
<1>1. spmi.pc = "lookup" /\ spmi.cmd \in Commands /\ spmi.buf \in [1..spmi.cmd.size -> Int] /\ spmi.done = 0 /\ Unmoved
  BY DEF DataInv
<1>2. c \in Channels \cup {Unmapped}
  BY <1>1, ChannelRange DEF SpmiTypes, Drivers, ChannelsInv, Commands
<1>3. c # Unmapped => c \in Channels /\ (spmi.version = 2 => ChannelOwner[c] = spmi.cmd.target)
  BY <1>1, <1>2 DEF ChannelsInv, Commands
<1>4. ~spmi.hwV2 => c = DefaultChannel
  BY DEF ChannelsInv
<1>5. SpmiTypes'
  BY <1>2 DEF SpmiTypes, Drivers, SpmiPCs
<1>6. /\ spmi'.chnl = c /\ spmi'.cmd = spmi.cmd /\ spmi'.done = 0 /\ spmi'.buf = spmi.buf /\ spmi'.tbl = spmi.tbl
      /\ spmi'.hwV2 = spmi.hwV2 /\ spmi'.version = spmi.version
      /\ spmi'.pc = (IF c = Unmapped THEN "idle" ELSE IF spmi.cmd.kind = "write" THEN "wdata" ELSE "cmd")
      /\ c = Unmapped => spmi'.ret = 1
  BY <1>1 DEF SpmiTypes, Drivers
<1>7. \A d \in Channels : arb'[d].cmd = NoCommand
  BY <1>1 DEF ChannelsInv
<1>11. pmicMem' = pmicMem /\ memAtCall' = memAtCall
  OBVIOUS
<1>. HIDE DEF LookupChannel, c
<1>8. ChannelsInv'
  <2>1. spmi'.pc \in Carried => c # Unmapped
    BY <1>6 DEF Carried
  <2>2. /\ \A p \in Peripherals : spmi.tbl[p] # Unmapped => ChannelOwner[spmi.tbl[p]] = p
        /\ spmi.version = 2 => spmi.hwV2
    BY DEF ChannelsInv
  <2>3. spmi'.pc # "off"
    BY <1>6
  <2>. QED
    BY ONLY <1>3, <1>4, <1>6, <1>7, <2>1, <2>2, <2>3 DEF ChannelsInv
<1>9. DataInv'
  <2>1. Unmoved' /\ Reads' = Reads
    BY <1>1, <1>6, <1>11 DEF Unmoved, Reads
  <2>2. /\ spmi'.cmd \in Commands /\ spmi'.buf \in [1..spmi'.cmd.size -> Int]
        /\ spmi'.cmd.off..(spmi'.cmd.off + spmi'.cmd.size - 1) \subseteq Bytes
    BY <1>1, <1>6 DEF DataInv
  <2>3. spmi'.pc \in {"idle", "wdata", "cmd"}
    BY <1>6
  <2>4. spmi'.pc = "wdata" => ~Reads' /\ spmi'.done < spmi'.cmd.size /\ Loaded(spmi.done)'
    <3>1. spmi'.done = 0 /\ spmi'.cmd = spmi.cmd /\ spmi.cmd.size \in 1..8
      BY ONLY <1>1, <1>6 DEF Commands
    <3>2. spmi'.pc = "wdata" => spmi.cmd.kind = "write"
      BY ONLY <1>6
    <3>3. ~\E i \in 0..7 : i < 0
      OBVIOUS
    <3>. QED
      BY ONLY <3>1, <3>2, <3>3 DEF Reads, Loaded
  <2>5. spmi'.pc = "cmd" => Reads'
    <3>1. spmi.cmd.kind \in {"read", "write"}
      BY ONLY <1>1 DEF Commands
    <3>. QED
      BY ONLY <1>6, <3>1 DEF Reads
  <2>6. spmi'.pc \notin {"off", "lookup", "wait", "rdata"} /\ spmi'.done = 0
    BY ONLY <1>6, <2>3
  <2>. QED
    BY ONLY <2>1, <2>2, <2>4, <2>5, <2>6 DEF DataInv
<1>10. SpmiTransfer'
  <2>1. Unmoved'
    BY <1>1, <1>11 DEF Unmoved
  <2>2. spmi'.pc # "idle" \/ spmi'.ret = 1
    BY <1>6
  <2>. QED
    BY ONLY <1>6, <2>1, <2>2 DEF SpmiTransfer, Unmoved
<1>. QED
  BY <1>5, <1>8, <1>9, <1>10

LEMMA WriteDataStep == ASSUME SpmiAssumption, SpmiInv, WriteData PROVE SpmiInv'
<1>. USE DEF SpmiInv, WriteData
<1>1. /\ spmi.pc = "wdata" /\ spmi.cmd \in Commands /\ spmi.buf \in [1..spmi.cmd.size -> Int] /\ Unmoved /\ ~Reads
      /\ spmi.done \in {0, 4} /\ spmi.done < spmi.cmd.size /\ spmi.chnl \in Channels
  BY DEF DataInv, ChannelsInv, Carried
<1>2. PICK n \in 1..8, d \in 1..8, k \in 0..1 :
        /\ n = spmi.cmd.size /\ d = Advanced(spmi) /\ k = spmi.done \div 4
        /\ d # n => d = 4 /\ spmi.done = 0
        /\ spmi.done = (IF k = 0 THEN 0 ELSE 4)
        /\ d <= spmi.done + 4 /\ d <= n
  <2>1. spmi.cmd.size \in 1..8 /\ spmi.done \div 4 \in 0..1 /\ (spmi.done \div 4 = 0 <=> spmi.done = 0)
    BY <1>1 DEF Commands
  <2>2. Advanced(spmi) \in 1..8 /\ Advanced(spmi) <= spmi.done + 4 /\ Advanced(spmi) <= spmi.cmd.size
    BY <1>1, <2>1 DEF Advanced
  <2>3. Advanced(spmi) # spmi.cmd.size => Advanced(spmi) = 4 /\ spmi.done = 0
    BY <1>1, <2>1 DEF Advanced
  <2>. QED
    BY <1>1, <2>1, <2>2, <2>3
<1>3. NextData(spmi) \in [1..4 -> Int] /\ \A i \in 1..4 : spmi.done + i <= n => NextData(spmi)[i] = spmi.buf[spmi.done + i]
  <2>. HIDE DEF WriteData, SpmiInv
  <2>1. \A i \in 1..4 : spmi.done + i <= n => spmi.done + i \in 1..n
    BY <1>1
  <2>2. spmi.buf \in [1..n -> Int]
    BY ONLY <1>1, <1>2
  <2>3. \A i \in 1..4 : spmi.done + i <= n => spmi.buf[spmi.done + i] \in Int
    BY ONLY <2>1, <2>2
  <2>4. NextData(spmi) = [i \in 1..4 |-> IF spmi.done + i <= n THEN spmi.buf[spmi.done + i] ELSE 0]
    BY ONLY <1>2 DEF NextData
  <2>. QED
    BY ONLY <2>3, <2>4
<1>4. /\ spmi'.done = d /\ spmi'.pc = (IF d = 4 /\ d < n THEN "wdata" ELSE "cmd")
      /\ spmi'.chnl = spmi.chnl /\ spmi'.cmd = spmi.cmd /\ spmi'.buf = spmi.buf /\ spmi'.tbl = spmi.tbl
      /\ spmi'.hwV2 = spmi.hwV2 /\ spmi'.version = spmi.version
  BY <1>2 DEF SpmiTypes, Drivers, MoreData
<1>5. /\ arb' \in Arbiters
      /\ arb'[spmi.chnl].wdata = [arb[spmi.chnl].wdata EXCEPT ![k] = NextData(spmi)]
      /\ \A c \in Channels : arb'[c].cmd = arb[c].cmd
  <2>1. arb' = [arb EXCEPT ![spmi.chnl].wdata[k] = NextData(spmi)]
    BY <1>2
  <2>2. arb \in Arbiters /\ arb[spmi.chnl].wdata \in DataRegs
    BY <1>1 DEF SpmiTypes, Arbiters
  <2>3. [arb[spmi.chnl].wdata EXCEPT ![k] = NextData(spmi)] \in DataRegs
    BY <1>3, <2>2 DEF DataRegs
  <2>. QED
    BY <1>1, <2>1, <2>2, <2>3 DEF Arbiters
<1>6. SpmiTypes'
  <2>1. PICK q \in {"wdata", "cmd"} : spmi' = [[spmi EXCEPT !.done = d] EXCEPT !.pc = q]
    BY <1>2 DEF SpmiTypes, Drivers, MoreData
  <2>2. spmi \in Drivers
    BY DEF SpmiTypes
  <2>3. spmi' = [spmi EXCEPT !.done = d, !.pc = q] /\ q \in SpmiPCs /\ d \in 0..8
    BY <2>1 DEF SpmiPCs
  <2>4. spmi' \in Drivers
    BY ONLY <2>2, <2>3, DataTyped, Zenon
  <2>. QED
    BY <1>5, <2>4 DEF SpmiTypes
<1>7. \A c \in Channels : arb[c].cmd = NoCommand
  BY <1>1 DEF ChannelsInv
<1>8. ChannelsInv'
  BY <1>1, <1>4, <1>5, <1>7 DEF ChannelsInv, Carried
<1>9. \A i \in 0..7 : i < d => DataByte(arb'[spmi.chnl].wdata, i) = spmi.buf[i + 1]
  <2>. SUFFICES ASSUME NEW i \in 0..7, i < d PROVE DataByte(arb'[spmi.chnl].wdata, i) = spmi.buf[i + 1]
    OBVIOUS
  <2>0. arb[spmi.chnl].wdata \in DataRegs
    BY <1>1 DEF SpmiTypes, Arbiters
  <2>1. CASE i < spmi.done
    <3>1. i < 4 /\ k = 1
      BY <1>1, <1>2, <2>1
    <3>2. DataByte(arb[spmi.chnl].wdata, i) = spmi.buf[i + 1]
      BY <1>1, <2>1 DEF DataInv, Loaded
    <3>3. arb'[spmi.chnl].wdata[0] = arb[spmi.chnl].wdata[0]
      BY <1>5, <2>0, <3>1 DEF DataRegs
    <3>. QED
      BY <3>1, <3>2, <3>3, ByteOf
  <2>2. CASE ~(i < spmi.done)
    <3>1. arb'[spmi.chnl].wdata[k] = NextData(spmi)
      BY <1>2, <1>5, <2>0 DEF DataRegs
    <3>2. PICK j \in 1..4 : i = spmi.done + j - 1
      BY <1>1, <1>2, <2>2
    <3>3. spmi.done + j = i + 1 /\ i + 1 <= n
      BY <1>1, <1>2, <3>2
    <3>4. NextData(spmi)[j] = spmi.buf[i + 1]
      BY <1>3, <3>2, <3>3
    <3>5. CASE k = 0
      <4>1. i < 4 /\ 1 + i = j
        BY <1>2, <3>2, <3>5
      <4>2. DataByte(arb'[spmi.chnl].wdata, i) = arb'[spmi.chnl].wdata[0][1 + i]
        BY ONLY <4>1, ByteOf, i \in 0..7
      <4>. QED
        BY ONLY <3>1, <3>4, <3>5, <4>1, <4>2
    <3>6. CASE k = 1
      <4>1. ~(i < 4) /\ i - 3 = j
        BY <1>2, <3>2, <3>6
      <4>. QED
        BY <3>1, <3>4, <3>6, <4>1, ByteOf
    <3>. QED
      BY <1>2, <3>5, <3>6
  <2>. QED
    BY <2>1, <2>2
<1>10. Loaded(d)'
  BY <1>4, <1>9 DEF Loaded
<1>11. spmi'.pc = "cmd" => Loaded(spmi.cmd.size)'
  <2>1. spmi'.pc = "cmd" => spmi'.cmd.size = d
    BY <1>2, <1>4
  <2>. QED
    BY <1>4, <1>9, <2>1 DEF Loaded
<1>12. DataInv'
  <2>1. spmi'.pc \in {"wdata", "cmd"} /\ (spmi'.pc = "wdata" => d = 4 /\ d < spmi'.cmd.size) /\ pmicMem' = memAtCall'
    BY <1>1, <1>2, <1>4 DEF Unmoved
  <2>2. spmi'.cmd \in Commands /\ spmi'.cmd.kind # "read"
    BY <1>1, <1>4 DEF Reads
  <2>3. spmi'.cmd.off..(spmi'.cmd.off + spmi'.cmd.size - 1) \subseteq Bytes
    <3>1. spmi.cmd.off..(spmi.cmd.off + spmi.cmd.size - 1) \subseteq Bytes
      BY <1>1 DEF DataInv, Carried
    <3>. QED
      BY <1>4, <3>1
  <2>. QED
    BY <1>1, <1>4, <1>10, <1>11, <2>1, <2>2, <2>3 DEF DataInv, Carried, Unmoved, Reads
<1>13. SpmiTransfer'
  BY <1>4 DEF SpmiTransfer
<1>. QED
  BY <1>6, <1>8, <1>12, <1>13
LEMMA WriteCommandStep == ASSUME SpmiAssumption, SpmiInv, WriteCommand PROVE SpmiInv'
<1>. USE DEF SpmiInv, WriteCommand
<1>. DEFINE ch == spmi.chnl
<1>1. /\ spmi.pc = "cmd" /\ spmi.cmd \in Commands /\ Unmoved /\ ch \in Channels
      /\ spmi.version = 2 => ChannelOwner[ch] = spmi.cmd.target
      /\ \A c \in Channels : arb[c].cmd = NoCommand
  BY DEF DataInv, ChannelsInv, Carried
<1>2. CommandWord(spmi) = [kind |-> spmi.cmd.kind, off |-> spmi.cmd.off, cnt |-> spmi.cmd.size - 1, target |-> spmi.cmd.target]
  BY <1>1 DEF CommandWord
<1>3. CommandWord(spmi) \in Words
  <2>1. spmi.cmd.size - 1 \in 0..7
    BY <1>1 DEF Commands
  <2>. QED
    BY <1>1, <1>2, <2>1 DEF Commands, Words
<1>4. arb' \in Arbiters
  <2>1. arb \in Arbiters
    BY DEF SpmiTypes
  <2>. QED
    BY <1>1, <1>3, <2>1 DEF Arbiters
<1>5. /\ arb'[ch].cmd = CommandWord(spmi) /\ arb'[ch].status = {} /\ arb'[ch].wdata = arb[ch].wdata
      /\ \A c \in Channels \ {ch} : arb'[c] = arb[c]
  BY <1>1 DEF SpmiTypes, Arbiters
<1>6. spmi' \in Drivers /\ spmi'.pc = "wait"
  BY DEF SpmiTypes, Drivers, SpmiPCs
<1>7. /\ spmi'.chnl = ch /\ spmi'.cmd = spmi.cmd /\ spmi'.buf = spmi.buf /\ spmi'.tbl = spmi.tbl
      /\ spmi'.hwV2 = spmi.hwV2 /\ spmi'.version = spmi.version /\ spmi'.done = spmi.done
  BY DEF SpmiTypes, Drivers
<1>8. SpmiTypes'
  BY <1>4, <1>6 DEF SpmiTypes
<1>9. CommandWord(spmi') = CommandWord(spmi)
  BY <1>7 DEF CommandWord
<1>10. ChannelsInv'
  <2>1. \A c \in Channels : arb'[c].cmd # NoCommand => c = ch
    BY <1>1, <1>5
  <2>2. /\ \A p \in Peripherals : spmi.tbl[p] # Unmapped => ChannelOwner[spmi.tbl[p]] = p
        /\ spmi.version = 2 => spmi.hwV2
        /\ ~spmi.hwV2 => spmi.chnl = DefaultChannel
    BY DEF ChannelsInv
  <2>3. spmi'.version = 2 => ChannelOwner[spmi'.chnl] = spmi'.cmd.target
    BY ONLY <1>1, <1>7
  <2>. QED
    BY ONLY <1>1, <1>5, <1>6, <1>7, <1>9, <2>1, <2>2, <2>3 DEF ChannelsInv
<1>11. spmi.buf \in [1..spmi.cmd.size -> Int] /\ spmi.cmd.off..(spmi.cmd.off + spmi.cmd.size - 1) \subseteq Bytes
  BY <1>1 DEF DataInv, Carried
<1>12. ~Reads => Loaded(spmi.cmd.size)'
  <2>1. ~Reads => Loaded(spmi.cmd.size)
    BY <1>1 DEF DataInv
  <2>. QED
    BY <1>5, <1>7, <2>1 DEF Loaded
<1>13. Reads => spmi.done = 0
  BY <1>1 DEF DataInv
<1>14. Reads' = Reads
  BY <1>7 DEF Reads
<1>15. DataInv'
  BY <1>1, <1>5, <1>6, <1>7, <1>11, <1>12, <1>13, <1>14 DEF DataInv, Carried, Unmoved
<1>. QED
  BY <1>6, <1>8, <1>10, <1>15 DEF SpmiTransfer

LEMMA AwaitStep == ASSUME SpmiAssumption, SpmiInv, AwaitStatus PROVE SpmiInv'
<1>. USE DEF SpmiInv
<1>0. spmi.pc = "wait" /\ UNCHANGED <<arb, pmicMem, memAtCall>>
  BY DEF AwaitStatus
<1>. DEFINE ch == spmi.chnl
<1>1. /\ spmi.pc = "wait" /\ spmi.cmd \in Commands /\ spmi.buf \in [1..spmi.cmd.size -> Int]
      /\ spmi.cmd.off..(spmi.cmd.off + spmi.cmd.size - 1) \subseteq Bytes
      /\ ch \in Channels /\ (spmi.version = 2 => ChannelOwner[ch] = spmi.cmd.target)
  BY <1>0 DEF DataInv, ChannelsInv, Carried
<1>2. /\ spmi' \in Drivers
      /\ spmi'.chnl = ch /\ spmi'.cmd = spmi.cmd /\ spmi'.buf = spmi.buf /\ spmi'.tbl = spmi.tbl
      /\ spmi'.hwV2 = spmi.hwV2 /\ spmi'.version = spmi.version /\ spmi'.done = spmi.done
      /\ spmi'.pc \in {"idle", "rdata"} /\ spmi'.ret \in {0, 1}
      /\ spmi'.pc = "idle" /\ spmi'.ret = 0 => arb[ch].status = {"done"} /\ ~Reads
      /\ spmi'.pc = "idle" /\ spmi'.ret = 1 => arb[ch].status # {"done"}
      /\ spmi'.pc = "rdata" => arb[ch].status = {"done"} /\ Reads
  <2>1. CASE arb[ch].status = {"done"} /\ Reads
    <3>1. spmi' = [spmi EXCEPT !.pc = "rdata"]
      BY <2>1 DEF CommandDone, Reads, AwaitStatus
    <3>. QED
      BY <2>1, <3>1 DEF SpmiTypes, Drivers, SpmiPCs
  <2>2. CASE arb[ch].status = {"done"} /\ ~Reads
    <3>1. spmi' = [spmi EXCEPT !.pc = "idle", !.ret = 0]
      BY <1>1, <2>2 DEF CommandDone, Reads, SpmiReturn, Commands, AwaitStatus
    <3>2. spmi \in Drivers /\ spmi' \in Drivers
      BY <3>1, ReturnTyped DEF SpmiTypes
    <3>. QED
      BY ONLY <2>2, <3>1, <3>2 DEF Drivers
  <2>3. CASE arb[ch].status # {"done"}
    <3>1. spmi' = [spmi EXCEPT !.pc = "idle", !.ret = 1]
      BY <2>3 DEF CommandDone, SpmiReturn, AwaitStatus
    <3>2. spmi \in Drivers /\ spmi' \in Drivers
      BY <3>1, ReturnTyped DEF SpmiTypes
    <3>. QED
      BY ONLY <2>3, <3>1, <3>2 DEF Drivers
  <2>. QED
    BY <2>1, <2>2, <2>3
<1>3. SpmiTypes'
  BY <1>0, <1>2 DEF SpmiTypes
<1>4a. \A c \in Channels : c = ch => arb[c].status # {}
  BY DEF AwaitStatus
<1>4. \A c \in Channels : arb'[c].cmd = NoCommand
  BY <1>0, <1>4a DEF ChannelsInv
<1>5. ChannelsInv'
  BY <1>1, <1>2, <1>4 DEF ChannelsInv, Carried
<1>6. spmi'.pc = "rdata" => Unmoved /\ Fetched /\ spmi.done = 0
  BY <1>1, <1>2 DEF DataInv
<1>7. (Reads' <=> Reads) /\ (Unmoved' <=> Unmoved) /\ (Fetched' <=> Fetched)
  BY <1>0, <1>2 DEF Reads, Unmoved, Fetched
<1>8. spmi'.pc = "rdata" => Received(spmi.done)'
  BY <1>2, <1>6 DEF Received
<1>9. DataInv'
  <2>1. spmi.cmd.size > 0
    BY <1>1 DEF Commands
  <2>. QED
    BY <1>1, <1>2, <1>6, <1>7, <1>8, <2>1 DEF DataInv, Carried
<1>10. spmi'.pc = "idle" => IF spmi'.ret = 0 /\ spmi'.cmd.kind = "write" THEN pmicMem = Written ELSE Unmoved /\ spmi'.ret # 0
  BY <1>1, <1>2 DEF DataInv, Reads, Commands
<1>11. SpmiTransfer'
  BY <1>0, <1>2, <1>10 DEF SpmiTransfer, Written, Unmoved
<1>. QED
  BY <1>3, <1>5, <1>9, <1>11
LEMMA ReadStep == ASSUME SpmiAssumption, SpmiInv, ReadData PROVE SpmiInv'
<1>. USE DEF SpmiInv
<1>0. spmi.pc = "rdata" /\ UNCHANGED <<arb, pmicMem, memAtCall>>
  BY DEF ReadData
<1>1. /\ spmi.pc = "rdata" /\ spmi.cmd \in Commands /\ spmi.buf \in [1..spmi.cmd.size -> Int] /\ Unmoved /\ Reads /\ Fetched
      /\ spmi.done \in {0, 4} /\ spmi.done < spmi.cmd.size /\ spmi.chnl \in Channels
      /\ spmi.cmd.off..(spmi.cmd.off + spmi.cmd.size - 1) \subseteq Bytes
      /\ spmi.version = 2 => ChannelOwner[spmi.chnl] = spmi.cmd.target
  BY <1>0 DEF DataInv, ChannelsInv, Carried
<1>2. PICK n \in 1..8, d \in 1..8, k \in 0..1 :
        /\ n = spmi.cmd.size /\ d = Advanced(spmi) /\ k = spmi.done \div 4
        /\ d # n => d = 4
        /\ spmi.done = (IF k = 0 THEN 0 ELSE 4)
        /\ d <= spmi.done + 4 /\ d <= n
  <2>1. spmi.cmd.size \in 1..8 /\ spmi.done \div 4 \in 0..1 /\ (spmi.done \div 4 = 0 <=> spmi.done = 0)
    BY <1>1 DEF Commands
  <2>2. Advanced(spmi) \in 1..8 /\ Advanced(spmi) <= spmi.done + 4 /\ Advanced(spmi) <= spmi.cmd.size
    BY <1>1, <2>1 DEF Advanced
  <2>3. Advanced(spmi) # spmi.cmd.size => Advanced(spmi) = 4
    BY <1>1, <2>1 DEF Advanced
  <2>. QED
    BY <1>1, <2>1, <2>2, <2>3
<1>. DEFINE got == arb[spmi.chnl].rdata[k]
            buf == Filled(spmi, got)
<1>3. arb[spmi.chnl].rdata \in DataRegs /\ got \in [1..4 -> Int]
  BY <1>1 DEF SpmiTypes, Arbiters, DataRegs
<1>4. buf \in [1..n -> Int] /\ buf \in Buffers
  <2>1. \A i \in 1..n : i \in spmi.done + 1..spmi.done + 4 => i - spmi.done \in 1..4
    BY <1>2
  <2>2. buf \in [1..n -> Int]
    BY <1>1, <1>2, <1>3, <2>1 DEF Filled
  <2>3. n \in 0..8
    OBVIOUS
  <2>. HIDE DEF buf
  <2>. QED
    BY <2>2, <2>3 DEF Buffers
<1>5. \/ d < n /\ spmi' = [spmi EXCEPT !.done = d, !.buf = buf]
      \/ d = n /\ spmi' = [[spmi EXCEPT !.done = d, !.buf = buf] EXCEPT !.pc = "idle", !.ret = 0]
  <2>1. [spmi EXCEPT !.done = d, !.buf = buf].done = d /\ [spmi EXCEPT !.done = d, !.buf = buf].cmd = spmi.cmd
    BY DEF SpmiTypes, Drivers
  <2>. QED
    BY <1>2, <2>1 DEF MoreData, ReadData
<1>. HIDE DEF buf
<1>6. /\ spmi'.done = d /\ spmi'.buf = buf /\ spmi'.chnl = spmi.chnl /\ spmi'.cmd = spmi.cmd /\ spmi'.tbl = spmi.tbl
      /\ spmi'.hwV2 = spmi.hwV2 /\ spmi'.version = spmi.version
      /\ spmi'.pc = (IF d < n THEN "rdata" ELSE "idle") /\ (spmi'.pc = "idle" => spmi'.ret = 0)
  <2>0. spmi \in Drivers
    BY DEF SpmiTypes
  <2>1. CASE d < n /\ spmi' = [spmi EXCEPT !.done = d, !.buf = buf]
    BY ONLY <1>0, <2>0, <2>1 DEF Drivers
  <2>2. CASE d = n /\ spmi' = [[spmi EXCEPT !.done = d, !.buf = buf] EXCEPT !.pc = "idle", !.ret = 0]
    BY <2>0, <2>2 DEF Drivers
  <2>. QED
    BY <1>5, <2>1, <2>2
<1>7. SpmiTypes'
  <2>1. spmi' \in Drivers
    <3>1. spmi \in Drivers /\ d \in 0..8 /\ "idle" \in SpmiPCs
      BY <1>2 DEF SpmiTypes, SpmiPCs
    <3>. QED
      BY ONLY <1>4, <1>5, <3>1, ReadTyped
  <2>. QED
    BY <1>0, <2>1 DEF SpmiTypes
<1>8. ChannelsInv'
  BY <1>0, <1>1, <1>6 DEF ChannelsInv, Carried
<1>9. \A i \in 0..7 : i < d => buf[i + 1] = pmicMem[spmi.cmd.target][spmi.cmd.off + i]
  <2>. SUFFICES ASSUME NEW i \in 0..7, i < d PROVE buf[i + 1] = pmicMem[spmi.cmd.target][spmi.cmd.off + i]
    OBVIOUS
  <2>1. i + 1 \in 1..n
    BY <1>2
  <2>2. CASE i < spmi.done
    <3>1. buf[i + 1] = spmi.buf[i + 1]
      BY <1>2, <2>1, <2>2 DEF buf, Filled
    <3>2. spmi.buf[i + 1] = pmicMem[spmi.cmd.target][spmi.cmd.off + i]
      BY <1>1, <2>2 DEF DataInv, Received
    <3>. QED
      BY <3>1, <3>2
  <2>3. CASE ~(i < spmi.done)
    <3>1. PICK j \in 1..4 : i = spmi.done + j - 1
      BY <1>1, <1>2, <2>3
    <3>2. i + 1 \in spmi.done + 1..spmi.done + 4 /\ (i + 1) - spmi.done = j
      <4>1. spmi.done \in Int
        BY <1>1
      <4>. QED
        BY ONLY <4>1, <3>1
    <3>3. buf[i + 1] = got[j]
      BY <1>2, <2>1, <3>2 DEF buf, Filled
    <3>4. DataByte(arb[spmi.chnl].rdata, i) = got[j]
      <4>1. CASE k = 0
        <5>1. i < 4 /\ 1 + i = j
          BY <1>2, <3>1, <4>1
        <5>. QED
          BY <4>1, <5>1, ByteOf
      <4>2. CASE k = 1
        <5>1. ~(i < 4) /\ i - 3 = j
          BY <1>2, <3>1, <4>2
        <5>. QED
          BY <4>2, <5>1, ByteOf
      <4>. QED
        BY <1>2, <4>1, <4>2
    <3>5. DataByte(arb[spmi.chnl].rdata, i) = pmicMem[spmi.cmd.target][spmi.cmd.off + i]
      BY <1>1, <1>2 DEF Fetched
    <3>. QED
      BY <3>3, <3>4, <3>5
  <2>. QED
    BY <2>2, <2>3
<1>10. Received(d)' /\ Reads' /\ Unmoved' /\ Fetched'
  BY <1>0, <1>1, <1>6, <1>9 DEF Received, Reads, Unmoved, Fetched
<1>11. DataInv'
  BY <1>1, <1>2, <1>4, <1>6, <1>10 DEF DataInv, Carried
<1>12. SpmiTransfer'
  <2>1. SUFFICES ASSUME spmi'.pc = "idle"
        PROVE \A o \in spmi.cmd.off..(spmi.cmd.off + spmi.cmd.size - 1) : buf[o - spmi.cmd.off + 1] = pmicMem[spmi.cmd.target][o]
    BY <1>0, <1>1, <1>6 DEF SpmiTransfer, Reads, Unmoved
  <2>2. d = n /\ spmi.cmd.off \in Nat
    BY <1>1, <1>2, <1>6, <2>1 DEF Commands
  <2>3. TAKE o \in spmi.cmd.off..(spmi.cmd.off + spmi.cmd.size - 1)
  <2>4. PICK i \in 0..7 : i < n /\ o = spmi.cmd.off + i
    BY <1>2, <2>2, <2>3
  <2>5. o - spmi.cmd.off + 1 = i + 1
    BY <2>2, <2>4
  <2>. QED
    BY <1>9, <2>2, <2>4, <2>5
<1>. QED
  BY <1>7, <1>8, <1>11, <1>12
-----------------------------------------------------------------------------
\* The arbiter's steps.
LEMMA PendingCommand == ASSUME SpmiInv, NEW c \in Channels, arb[c].cmd # NoCommand
  PROVE /\ spmi.pc = "wait" /\ c = spmi.chnl /\ spmi.cmd \in Commands /\ Unmoved /\ arb[c].status = {}
        /\ spmi.buf \in [1..spmi.cmd.size -> Int] /\ spmi.cmd.off..(spmi.cmd.off + spmi.cmd.size - 1) \subseteq Bytes
        /\ arb[c].cmd.kind = spmi.cmd.kind /\ arb[c].cmd.off = spmi.cmd.off /\ arb[c].cmd.target = spmi.cmd.target
        /\ arb[c].cmd.cnt = spmi.cmd.size - 1 /\ arb[c].cmd.off + arb[c].cmd.cnt = spmi.cmd.off + spmi.cmd.size - 1
        /\ ~Reads => Loaded(spmi.cmd.size)
        /\ Reads => spmi.done = 0
<1>1. spmi.pc = "wait" /\ c = spmi.chnl /\ arb[c].cmd = CommandWord(spmi) /\ arb[c].status = {}
  BY DEF SpmiInv, ChannelsInv
<1>2. /\ spmi.cmd \in Commands /\ spmi.buf \in [1..spmi.cmd.size -> Int] /\ Unmoved
      /\ spmi.cmd.off..(spmi.cmd.off + spmi.cmd.size - 1) \subseteq Bytes
      /\ ~Reads => Loaded(spmi.cmd.size)
      /\ Reads => spmi.done = 0
  BY <1>1 DEF SpmiInv, DataInv, Carried
<1>3. spmi.version = 2 => ChannelOwner[spmi.chnl] = spmi.cmd.target
  BY <1>1 DEF SpmiInv, ChannelsInv, Carried
<1>4. CommandWord(spmi) = [kind |-> spmi.cmd.kind, off |-> spmi.cmd.off, cnt |-> spmi.cmd.size - 1, target |-> spmi.cmd.target]
  BY <1>3 DEF CommandWord
<1>5. spmi.cmd.off + (spmi.cmd.size - 1) = spmi.cmd.off + spmi.cmd.size - 1
  BY <1>2 DEF Commands
<1>. QED
  BY <1>1, <1>2, <1>4, <1>5

\* What the arbiter may do to a pending command leaves the invariant if its data arrived.
LEMMA Completed ==
  ASSUME SpmiInv, NEW c \in Channels, arb[c].cmd # NoCommand, arb' \in Arbiters, pmicMem' \in Memories, UNCHANGED <<spmi, memAtCall>>,
         \A d \in Channels : d # c => arb'[d] = arb[d],
         arb'[c].cmd = NoCommand, arb'[c].wdata = arb[c].wdata,
         IF arb'[c].status = {"done"} THEN IF Reads THEN Unmoved' /\ Fetched' ELSE pmicMem' = Written ELSE Unmoved'
  PROVE SpmiInv'
<1>1. /\ spmi.pc = "wait" /\ c = spmi.chnl /\ spmi.cmd \in Commands
      /\ spmi.buf \in [1..spmi.cmd.size -> Int] /\ spmi.cmd.off..(spmi.cmd.off + spmi.cmd.size - 1) \subseteq Bytes
      /\ ~Reads => Loaded(spmi.cmd.size)
      /\ Reads => spmi.done = 0
  BY PendingCommand
<1>2. SpmiTypes'
  BY DEF SpmiInv, SpmiTypes
<1>3. \A d \in Channels : arb'[d].cmd = NoCommand
  <2>1. \A d \in Channels : d # c => arb[d].cmd = NoCommand
    BY <1>1 DEF SpmiInv, ChannelsInv
  <2>. QED
    BY <2>1
<1>4. ChannelsInv'
  BY <1>3 DEF SpmiInv, ChannelsInv
<1>5. (Reads' <=> Reads) /\ Written' = Written /\ (~Reads => Loaded(spmi.cmd.size)')
  BY <1>1 DEF Reads, Written, Loaded
<1>6. DataInv'
  BY <1>1, <1>5 DEF DataInv, Carried
<1>7. SpmiTransfer'
  BY <1>1 DEF SpmiTransfer
<1>. QED
  BY <1>2, <1>4, <1>6, <1>7 DEF SpmiInv

LEMMA FailsStep == ASSUME SpmiInv, NEW c \in Channels, ArbiterFails(c) PROVE SpmiInv'
<1>1. PICK s \in {{"failure"}, {"done", "failure"}} : arb' = [arb EXCEPT ![c].cmd = NoCommand, ![c].status = s]
  BY DEF ArbiterFails
<1>2. arb[c].cmd # NoCommand /\ UNCHANGED <<spmi, pmicMem, memAtCall>>
  BY DEF ArbiterFails
<1>3. arb \in Arbiters /\ pmicMem \in Memories
  BY DEF SpmiInv, SpmiTypes
<1>4. arb' \in Arbiters
  BY <1>1, <1>3 DEF Arbiters
<1>5. arb'[c].cmd = NoCommand /\ arb'[c].status = s /\ arb'[c].wdata = arb[c].wdata /\ \A d \in Channels : d # c => arb'[d] = arb[d]
  BY <1>1, <1>3 DEF Arbiters
<1>6. s # {"done"}
  OBVIOUS
<1>7. Unmoved'
  BY <1>2, PendingCommand DEF Unmoved
<1>. QED
  BY <1>2, <1>3, <1>4, <1>5, <1>6, <1>7, Completed

LEMMA SpanOf == ASSUME NEW off \in Nat, NEW size \in 1..8
  PROVE /\ \A i \in 0..7 : i < size => off + i \in off..(off + size - 1)
        /\ \A o \in off..(off + size - 1) : o - off \in 0..7 /\ o - off < size /\ o - off + 1 \in 1..size
OBVIOUS

LEMMA DoneStep == ASSUME SpmiInv, NEW c \in Channels, ArbiterDone(c) PROVE SpmiInv'
<1>. DEFINE w == arb[c].cmd
            span == w.off..(w.off + w.cnt)
            target == spmi.cmd.target
            off == spmi.cmd.off
            size == spmi.cmd.size
<1>1. w # NoCommand /\ UNCHANGED <<spmi, memAtCall>>
  BY DEF ArbiterDone
<1>2. /\ spmi.pc = "wait" /\ c = spmi.chnl /\ spmi.cmd \in Commands /\ Unmoved
      /\ spmi.buf \in [1..size -> Int] /\ off..(off + size - 1) \subseteq Bytes
      /\ w.kind = spmi.cmd.kind /\ w.target = target /\ w.off = off /\ span = off..(off + size - 1)
      /\ ~Reads => Loaded(size)
  BY <1>1, PendingCommand
<1>3. arb \in Arbiters /\ pmicMem \in Memories /\ target \in Peripherals /\ off \in Nat /\ size \in 1..8
  BY <1>2 DEF SpmiInv, SpmiTypes, Commands
<1>r. off \in Nat /\ size \in 1..8 /\ span = off..(off + size - 1)
  BY <1>2, <1>3
<1>4. CASE w.kind = "write"
  <2>1. arb' = [arb EXCEPT ![c].cmd = NoCommand, ![c].status = {"done"}]
    BY <1>4 DEF ArbiterDone
  <2>2. pmicMem' = [pmicMem EXCEPT ![w.target] = [o \in Bytes |-> IF o \in span THEN DataByte(arb[c].wdata, o - w.off) ELSE pmicMem[w.target][o]]]
    BY <1>4 DEF ArbiterDone
  <2>3. arb' \in Arbiters
    BY <1>3, <2>1 DEF Arbiters
  <2>4. arb'[c].cmd = NoCommand /\ arb'[c].status = {"done"} /\ arb'[c].wdata = arb[c].wdata /\ \A d \in Channels : d # c => arb'[d] = arb[d]
    BY <1>3, <2>1 DEF Arbiters
  <2>5. ~Reads
    BY <1>2, <1>4 DEF Reads
  <2>6. \A o \in Bytes : o \in span => DataByte(arb[c].wdata, o - w.off) = spmi.buf[o - off + 1]
    <3>1. TAKE o \in Bytes
    <3>2. HAVE o \in span
    <3>3. PICK i \in 0..7 : i = o - off /\ i < size
      BY <1>r, <3>2, SpanOf
    <3>. QED
      BY <1>2, <2>5, <3>3 DEF Loaded
  <2>7. pmicMem' = [memAtCall EXCEPT ![target] = [o \in Bytes |-> IF o \in span THEN spmi.buf[o - off + 1] ELSE memAtCall[target][o]]]
    BY <1>2, <2>2, <2>6 DEF Unmoved
  <2>8. pmicMem' = Written
    BY <1>2, <2>7 DEF Written
  <2>9. pmicMem' \in Memories
    <3>1. \A o \in Bytes : o \in span => o - off + 1 \in 1..size
      BY <1>r, SpanOf
    <3>2. [o \in Bytes |-> IF o \in span THEN spmi.buf[o - off + 1] ELSE memAtCall[target][o]] \in [Bytes -> Int]
      BY <1>2, <1>3, <3>1 DEF Unmoved, Memories
    <3>. QED
      BY <1>2, <1>3, <2>7, <3>2 DEF Unmoved, Memories
  <2>. QED
    BY <1>1, <2>3, <2>4, <2>5, <2>8, <2>9, Completed
<1>5. CASE w.kind # "write"
  <2>. DEFINE rdata == [n \in 0..1 |-> [i \in 1..4 |-> LET o == w.off + 4 * n + i - 1 IN IF o \in span THEN pmicMem[w.target][o] ELSE 0]]
  <2>1. arb' = [arb EXCEPT ![c].cmd = NoCommand, ![c].status = {"done"}, ![c].rdata = rdata] /\ pmicMem' = pmicMem
    BY <1>5 DEF ArbiterDone
  <2>2. \A n \in 0..1, i \in 1..4 : rdata[n][i] = IF off + 4 * n + i - 1 \in span THEN pmicMem[target][off + 4 * n + i - 1] ELSE 0
    BY <1>2
  <2>3. rdata \in DataRegs
    <3>1. \A o \in span : pmicMem[target][o] \in Int
      BY <1>2, <1>3 DEF Memories
    <3>2. \A n \in 0..1, i \in 1..4 : rdata[n][i] \in Int
      <4>. TAKE n \in 0..1, i \in 1..4
      <4>. HIDE DEF rdata, span
      <4>1. rdata[n][i] = IF off + 4 * n + i - 1 \in span THEN pmicMem[target][off + 4 * n + i - 1] ELSE 0
        BY <2>2
      <4>. QED
        BY <3>1, <4>1
    <3>. QED
      BY <3>2 DEF DataRegs
  <2>4. Reads
    BY <1>2, <1>5 DEF Reads, Commands
  <2>5. \A i \in 0..7 : i < size => DataByte(rdata, i) = pmicMem[target][off + i]
    <3>. SUFFICES ASSUME NEW i \in 0..7, i < size PROVE DataByte(rdata, i) = pmicMem[target][off + i]
      OBVIOUS
    <3>1. off + i \in span
      BY <1>r, SpanOf
    <3>2. CASE i < 4
      <4>1. 1 + i \in 1..4 /\ off + 4 * 0 + (1 + i) - 1 = off + i
        BY <1>3, <3>2
      <4>2. rdata[0][1 + i] = pmicMem[target][off + i]
        <5>. HIDE DEF rdata, span
        <5>. QED
          BY <2>2, <3>1, <4>1
      <4>. QED
        BY <3>2, <4>2, ByteOf
    <3>3. CASE ~(i < 4)
      <4>1. i - 3 \in 1..4 /\ off + 4 * 1 + (i - 3) - 1 = off + i
        BY <1>3, <3>3
      <4>2. rdata[1][i - 3] = pmicMem[target][off + i]
        <5>. HIDE DEF rdata, span
        <5>. QED
          BY <2>2, <3>1, <4>1
      <4>. QED
        BY <3>3, <4>2, ByteOf
    <3>. QED
      BY <3>2, <3>3
  <2>. HIDE DEF rdata
  <2>6. arb' \in Arbiters
    <3>1. [arb[c] EXCEPT !.cmd = NoCommand, !.status = {"done"}, !.rdata = rdata]
            \in [wdata : DataRegs, rdata : DataRegs, cmd : Words \cup {NoCommand}, status : SUBSET {"done", "failure"}]
      BY <1>3, <2>3 DEF Arbiters
    <3>2. arb' = [arb EXCEPT ![c] = [arb[c] EXCEPT !.cmd = NoCommand, !.status = {"done"}, !.rdata = rdata]]
      BY ONLY <1>3, <2>1 DEF Arbiters
    <3>. QED
      BY ONLY <1>3, <3>1, <3>2 DEF Arbiters
  <2>7. arb'[c].cmd = NoCommand /\ arb'[c].status = {"done"} /\ arb'[c].wdata = arb[c].wdata /\ \A d \in Channels : d # c => arb'[d] = arb[d]
    BY <1>3, <2>1 DEF Arbiters
  <2>8. arb'[c].rdata = rdata
    BY <1>3, <2>1 DEF Arbiters
  <2>9. Fetched' /\ Unmoved'
    BY <1>1, <1>2, <2>1, <2>5, <2>8 DEF Fetched, Unmoved
  <2>. QED
    BY <1>1, <1>3, <2>1, <2>4, <2>6, <2>7, <2>9, Completed
<1>. QED
  BY <1>4, <1>5

LEMMA TransferKeeps == ASSUME SpmiAssumption, SpmiInv, [SpmiNext]_spmiVars PROVE SpmiInv'
<1>1. CASE \E conf \in {<<1, FALSE>>, <<2, TRUE>>, <<1, TRUE>>} : SpmiInit(conf[1], conf[2])
  <2>1. PICK conf \in {<<1, FALSE>>, <<2, TRUE>>, <<1, TRUE>>} : SpmiInit(conf[1], conf[2])
    BY <1>1
  <2>2. CASE conf = <<1, FALSE>>
    <3>1. conf[1] = 1 /\ conf[2] = FALSE
      BY <2>2
    <3>2. SpmiInit(1, FALSE)
      BY <2>1, <3>1, Zenon
    <3>3. 1 \in {1, 2} /\ FALSE \in BOOLEAN /\ ~(1 = 2)
      OBVIOUS
    <3>. QED
      BY <3>2, <3>3, InitStep
  <2>3. CASE conf = <<2, TRUE>>
    <3>1. conf[1] = 2 /\ conf[2] = TRUE
      BY <2>3
    <3>. QED
      BY <2>1, <3>1, InitStep
  <2>4. CASE conf = <<1, TRUE>>
    <3>1. conf[1] = 1 /\ conf[2] = TRUE
      BY <2>4
    <3>. QED
      BY <2>1, <3>1, InitStep
  <2>. QED
    BY <2>2, <2>3, <2>4
<1>2. CASE \E way \in {"write", "read"}, p \in Peripherals, o \in Offsets, n \in Sizes : SpmiCall(way, p, o, n)
  BY <1>2, CallStep
<1>3. CASE DriverStep
  BY <1>3, LookupStep, WriteDataStep, WriteCommandStep, AwaitStep, ReadStep DEF DriverStep
<1>4. CASE ArbiterStep
  BY <1>4, DoneStep, FailsStep DEF ArbiterStep
<1>5. CASE UNCHANGED spmiVars
  <2>1. spmi' = spmi /\ arb' = arb /\ pmicMem' = pmicMem /\ memAtCall' = memAtCall
    BY <1>5 DEF spmiVars
  <2>2. SpmiTypes' /\ ChannelsInv' /\ SpmiTransfer'
    BY <2>1 DEF SpmiInv, SpmiTypes, ChannelsInv, SpmiTransfer, CommandWord
  <2>3. DataInv'
    BY <2>1 DEF SpmiInv, DataInv, Unmoved, Reads, Loaded, Fetched, Received, Written
  <2>. QED
    BY <2>2, <2>3 DEF SpmiInv
<1>. QED
  BY <1>1, <1>2, <1>3, <1>4, <1>5 DEF SpmiNext

\* pmic_arb_write_cmd and pmic_arb_read_cmd: a command that reports success has moved exactly
\* the caller's bytes between its buffer and the peripheral it named, one that reports an error
\* has changed nothing, whatever channels the arbiter has and whoever owns them.
THEOREM CommandsMoveTheirBytes == ASSUME SpmiAssumption PROVE SpmiSpec => []SpmiTransfer
<1>1. SpmiInitState => SpmiInv
  BY TransferInit
<1>2. SpmiInv /\ [SpmiNext]_spmiVars => SpmiInv'
  BY TransferKeeps
<1>3. SpmiInv => SpmiTransfer
  BY DEF SpmiInv
<1>. QED
  BY <1>1, <1>2, <1>3, PTL DEF SpmiSpec

-----------------------------------------------------------------------------
(***************************************************************************)
(* The driver binding of the keypad, for any number of calls and failures. *)
(***************************************************************************)
Names == Whole \cup {"armed", "reset", "key"}
Steps == [do : {"get", "free", "uninstall", "astray"}, r : Names]

\* What the steps of a list before the i-th were about.
Before(steps, i) == {steps[j].r : j \in 1..(i - 1)}
From(steps, i) == SubSeq(steps, i, Len(steps))

Starting(i) == binding.steps = From(StartSteps, i) /\ held = ({"protocol"} \cup Before(StartSteps, i)) \ {"armed", "reset"}
Failing(i) ==
  /\ binding.steps = From(ErrorExit, i) /\ held \cap Before(ErrorExit, i) = {}
  /\ "interfaces" \notin held /\ "protocol" \in held
Stopping(i) ==
  /\ binding.steps = From(StopSteps, i) /\ held \cap Before(StopSteps, i) = {}
  /\ i <= 2 => Whole \ {"timer"} \subseteq held
  /\ "memory" \in held
GoneAstray == binding.steps = <<Astray>> /\ held = {"protocol"} /\ ~binding.half
Settled ==
  /\ ~Running
  /\ held \ {"key"} \in {{}, IF binding.half THEN Whole \ {"timer"} ELSE Whole}
  /\ "key" \in held => "interfaces" \in held

-----------------------------------------------------------------------------
LEMMA AcquireIs == ASSUME NEW r \in Names PROVE Acquire(r) \in Steps /\ Acquire(r).do = "get" /\ Acquire(r).r = r
BY DEF Acquire, Steps
LEMMA FreeIs == ASSUME NEW r \in Names PROVE Free(r) \in Steps /\ Free(r).do = "free" /\ Free(r).r = r
BY DEF Free, Steps
LEMMA SeqOf8 == ASSUME NEW S, NEW a1 \in S, NEW a2 \in S, NEW a3 \in S, NEW a4 \in S, NEW a5 \in S, NEW a6 \in S, NEW a7 \in S, NEW a8 \in S
  PROVE <<a1, a2, a3, a4, a5, a6, a7, a8>> \in Seq(S) /\ Len(<<a1, a2, a3, a4, a5, a6, a7, a8>>) = 8
OBVIOUS
LEMMA SeqOf9 ==
  ASSUME NEW S, NEW a1 \in S, NEW a2 \in S, NEW a3 \in S, NEW a4 \in S, NEW a5 \in S, NEW a6 \in S, NEW a7 \in S, NEW a8 \in S, NEW a9 \in S
  PROVE <<a1, a2, a3, a4, a5, a6, a7, a8, a9>> \in Seq(S) /\ Len(<<a1, a2, a3, a4, a5, a6, a7, a8, a9>>) = 9
OBVIOUS
LEMMA StartIs ==
  /\ StartSteps \in Seq(Steps) /\ Len(StartSteps) = 9
  /\ StartSteps[1] = Acquire("memory") /\ StartSteps[2] = Acquire("wait") /\ StartSteps[3] = Acquire("waitEx") /\ StartSteps[4] = Acquire("timer") /\ StartSteps[5] = Acquire("armed") /\ StartSteps[6] = Acquire("notify") /\ StartSteps[7] = Acquire("reset") /\ StartSteps[8] = Acquire("names") /\ StartSteps[9] = Acquire("interfaces")
<1>1. {"memory", "wait", "waitEx", "timer", "armed", "notify", "reset", "names", "interfaces"} \subseteq Names
  BY DEF Names, Whole, Events
<1>. QED
  BY <1>1, AcquireIs, SeqOf9 DEF StartSteps
LEMMA ErrorIs ==
  /\ ErrorExit \in Seq(Steps) /\ Len(ErrorExit) = 8
  /\ ErrorExit[1] = Free("wait") /\ ErrorExit[2] = Free("timer") /\ ErrorExit[3] = Free("waitEx") /\ ErrorExit[4] = Free("notify") /\ ErrorExit[5] = Free("key") /\ ErrorExit[6] = Free("names") /\ ErrorExit[7] = Free("memory") /\ ErrorExit[8] = Free("protocol")
<1>1. {"wait", "timer", "waitEx", "notify", "key", "names", "memory", "protocol"} \subseteq Names
  BY DEF Names, Whole, Events
<1>. QED
  BY <1>1, FreeIs, SeqOf8 DEF ErrorExit
LEMMA StopIs ==
  /\ StopSteps \in Seq(Steps) /\ Len(StopSteps) = 9
  /\ StopSteps[1] = Free("timer") /\ StopSteps[2] = [do |-> "uninstall", r |-> "interfaces"] /\ StopSteps[3] = Free("protocol") /\ StopSteps[4] = Free("wait") /\ StopSteps[5] = Free("waitEx") /\ StopSteps[6] = Free("notify") /\ StopSteps[7] = Free("key") /\ StopSteps[8] = Free("names") /\ StopSteps[9] = Free("memory")
<1>1. {"timer", "interfaces", "protocol", "wait", "waitEx", "notify", "key", "names", "memory"} \subseteq Names
  BY DEF Names, Whole, Events
<1>2. [do |-> "uninstall", r |-> "interfaces"] \in Steps
  BY <1>1 DEF Steps
<1>. QED
  BY <1>1, <1>2, FreeIs, SeqOf9 DEF StopSteps

LEMMA FirstOf == ASSUME NEW steps \in Seq(Steps), NEW i \in 1..Len(steps)
  PROVE From(steps, i) # <<>> /\ Head(From(steps, i)) = steps[i] /\ Tail(From(steps, i)) = From(steps, i + 1)
<1>1. \A j \in i..Len(steps) : steps[j] \in Steps
  OBVIOUS
<1>2. Len(From(steps, i)) = Len(steps) - i + 1 /\ From(steps, i) \in Seq(Steps)
  BY <1>1, SubSeqProperties DEF From
<1>3. From(steps, i) # <<>>
  <2>1. Len(From(steps, i)) > 0
    BY <1>2
  <2>. QED
    BY <2>1
<1>4. Len(steps) \in i..Len(steps)
  OBVIOUS
<1>5. Head(From(steps, i)) = steps[i] /\ Tail(From(steps, i)) = From(steps, i + 1)
  BY <1>4, HeadTailOfSubSeq, Zenon DEF From
<1>. QED
  BY <1>3, <1>5
LEMMA NoneLeft == ASSUME NEW steps \in Seq(Steps) PROVE From(steps, Len(steps) + 1) = <<>> /\ From(steps, 1) = steps
BY DEF From
LEMMA BeforeNext == ASSUME NEW steps \in Seq(Steps), NEW i \in 1..Len(steps)
  PROVE Before(steps, i + 1) = Before(steps, i) \cup {steps[i].r}
BY DEF Before
LEMMA BeforeFirst == ASSUME NEW steps PROVE Before(steps, 1) = {}
BY DEF Before

\* The lists, place by place.
LEMMA StartKinds == \A i \in 1..9 : StartSteps[i].do = "get" /\ StartSteps[i].r \in Names \ {"key", "protocol"}
BY StartIs, AcquireIs DEF Names, Whole, Events
LEMMA StartPlaces ==
  /\ \A i \in 1..9 : StartSteps[i].r = "armed" => i = 5
  /\ \A i \in 1..9 : StartSteps[i].r = "timer" <=> i = 4
  /\ \A i \in 1..9 : StartSteps[i].r = "memory" <=> i = 1
  /\ \A i \in 1..9 : StartSteps[i].r = "interfaces" <=> i = 9
BY StartIs, AcquireIs DEF Names, Whole, Events
LEMMA ErrorKinds == \A i \in 1..8 : ErrorExit[i].do = "free" /\ ErrorExit[i].r \in Names
BY ErrorIs, FreeIs DEF Names, Whole, Events
LEMMA ErrorPlaces ==
  /\ \A i \in 1..8 : ErrorExit[i].r = "timer" <=> i = 2
  /\ \A i \in 1..8 : ErrorExit[i].r = "memory" <=> i = 7
  /\ \A i \in 1..8 : ErrorExit[i].r = "protocol" <=> i = 8
BY ErrorIs, FreeIs DEF Names, Whole, Events
LEMMA StopKinds == \A i \in 1..9 : /\ StopSteps[i].do = (IF i = 2 THEN "uninstall" ELSE "free") /\ StopSteps[i].r \in Names
                                   /\ StopSteps[i].r = "interfaces" <=> i = 2
                                   /\ StopSteps[i].r = "timer" <=> i = 1
                                   /\ StopSteps[i].r = "memory" <=> i = 9
BY StopIs, FreeIs DEF Names, Whole, Events

LEMMA AllGot == ({"protocol"} \cup Before(StartSteps, 10)) \ {"armed", "reset"} = Whole
<1>1. {StartSteps[j].r : j \in 1..9} = {"memory", "wait", "waitEx", "timer", "armed", "notify", "reset", "names", "interfaces"}
  BY StartIs, AcquireIs DEF Names, Whole, Events
<1>. QED
  BY <1>1 DEF Before, Whole, Events
LEMMA AllButMemory ==
  /\ (Whole \ {"interfaces", "memory", "protocol"}) \cup {"key"} \subseteq Before(ErrorExit, 7)
  /\ (Whole \ {"memory"}) \cup {"key"} \subseteq Before(StopSteps, 9)
<1>1. {ErrorExit[j].r : j \in 1..6} = {"wait", "timer", "waitEx", "notify", "key", "names"}
  BY ErrorIs, FreeIs DEF Names, Whole, Events
<1>2. {StopSteps[j].r : j \in 1..8} = {"timer", "interfaces", "protocol", "wait", "waitEx", "notify", "key", "names"}
  BY StopIs, FreeIs DEF Names, Whole, Events
<1>. QED
  BY <1>1, <1>2 DEF Before, Whole, Events
LEMMA AllFreed == (Whole \ {"interfaces"}) \cup {"key"} \subseteq Before(ErrorExit, 9) /\ Whole \cup {"key"} \subseteq Before(StopSteps, 10)
<1>1. {ErrorExit[j].r : j \in 1..8} = {"wait", "timer", "waitEx", "notify", "key", "names", "memory", "protocol"}
  BY ErrorIs, FreeIs DEF Names, Whole, Events
<1>2. {StopSteps[j].r : j \in 1..9} = {"timer", "interfaces", "protocol", "wait", "waitEx", "notify", "key", "names", "memory"}
  BY StopIs, FreeIs DEF Names, Whole, Events
<1>. QED
  BY <1>1, <1>2 DEF Before, Whole, Events

-----------------------------------------------------------------------------
(* What each step finds at the head of its list.                            *)

BindTyped ==
  /\ binding \in [steps : Seq(Steps), half : BOOLEAN, left : Int, faults : Int]
  /\ ticks \in [armed : BOOLEAN, due : BOOLEAN, met : {"none", "device", "freed"}]
BindStays ==
  /\ held \subseteq Whole \cup {"key"}
  /\ binding.half => "interfaces" \in held
  /\ "memory" \notin held => held \subseteq {"protocol"}
  /\ ticks.armed \/ ticks.due => "timer" \in held
  /\ ticks.met # "freed"
BindPlace ==
  \/ Settled
  \/ \E i \in 1..9 : Starting(i)
  \/ \E i \in 1..8 : Failing(i)
  \/ \E i \in 1..9 : Stopping(i)
  \/ GoneAstray

LEMMA StartingGoes == ASSUME NEW i \in 1..9, Starting(i)
  PROVE Running /\ Head(binding.steps) = StartSteps[i] /\ Goes("get") /\ Resource = StartSteps[i].r
        /\ ~Goes("free") /\ ~Goes("uninstall") /\ Tail(binding.steps) = From(StartSteps, i + 1)
<1>1. From(StartSteps, i) # <<>> /\ Head(From(StartSteps, i)) = StartSteps[i] /\ Tail(From(StartSteps, i)) = From(StartSteps, i + 1)
  BY StartIs, FirstOf
<1>2. StartSteps[i].do = "get"
  BY StartKinds
<1>. QED
  BY <1>1, <1>2 DEF Starting, Running, Goes, Resource
LEMMA FailingGoes == ASSUME NEW i \in 1..8, Failing(i)
  PROVE Running /\ Head(binding.steps) = ErrorExit[i] /\ ~Goes("get") /\ Resource = ErrorExit[i].r
        /\ Goes("free") /\ ~Goes("uninstall") /\ Tail(binding.steps) = From(ErrorExit, i + 1)
<1>1. From(ErrorExit, i) # <<>> /\ Head(From(ErrorExit, i)) = ErrorExit[i] /\ Tail(From(ErrorExit, i)) = From(ErrorExit, i + 1)
  BY ErrorIs, FirstOf
<1>2. ErrorExit[i].do = "free"
  BY ErrorKinds
<1>. QED
  BY <1>1, <1>2 DEF Failing, Running, Goes, Resource
LEMMA StoppingGoes == ASSUME NEW i \in 1..9, Stopping(i)
  PROVE Running /\ Head(binding.steps) = StopSteps[i] /\ ~Goes("get") /\ Resource = StopSteps[i].r
        /\ (Goes("uninstall") <=> i = 2) /\ Tail(binding.steps) = From(StopSteps, i + 1)
<1>1. From(StopSteps, i) # <<>> /\ Head(From(StopSteps, i)) = StopSteps[i] /\ Tail(From(StopSteps, i)) = From(StopSteps, i + 1)
  BY StopIs, FirstOf
<1>2. StopSteps[i].do = (IF i = 2 THEN "uninstall" ELSE "free")
  BY StopKinds
<1>. QED
  BY <1>1, <1>2 DEF Stopping, Running, Goes, Resource
LEMMA AstrayGoes == ASSUME GoneAstray
  PROVE Running /\ ~Goes("get") /\ ~Goes("free") /\ ~Goes("uninstall")
BY DEF GoneAstray, Goes, Running, Astray
LEMMA SettledGoes == ASSUME Settled PROVE ~Goes("get") /\ ~Goes("free") /\ ~Goes("uninstall")
BY DEF Settled, Goes

\* While Start runs the driver has no interfaces, so no Stop that failed is open.
LEMMA StartingHeld == ASSUME NEW i \in 1..9, Starting(i)
  PROVE "interfaces" \notin held /\ "protocol" \in held /\ (i > 4 => "timer" \in held)
<1>1. "interfaces" \notin Before(StartSteps, i)
  BY StartPlaces DEF Before
<1>2. i > 4 => "timer" \in Before(StartSteps, i)
  BY StartPlaces DEF Before
<1>. QED
  BY <1>1, <1>2 DEF Starting

LEMMA TailTyped == ASSUME BindTyped, Running PROVE Tail(binding.steps) \in Seq(Steps)
BY DEF BindTyped, Running

-----------------------------------------------------------------------------
(* One lemma for each step of the binding.                                  *)

LEMMA GetNextKeeps == ASSUME BindPlace, BindStays, BindTyped, GetNext PROVE BindPlace' /\ BindStays' /\ BindTyped'
<1>1. PICK i \in 1..9 : Starting(i)
  <2>1. Goes("get")
    BY DEF GetNext
  <2>. QED
    BY <2>1, SettledGoes, FailingGoes, StoppingGoes, AstrayGoes DEF BindPlace
<1>2. /\ Running /\ Resource = StartSteps[i].r /\ Tail(binding.steps) = From(StartSteps, i + 1)
  BY <1>1, StartingGoes
<1>3. /\ binding' = [binding EXCEPT !.steps = From(StartSteps, i + 1)]
      /\ held' = IF Resource \in {"armed", "reset"} THEN held ELSE held \cup {Resource}
      /\ ticks' = [ticks EXCEPT !.armed = @ \/ Resource = "armed"]
  BY <1>2 DEF GetNext
<1>4. Tail(binding.steps) \in Seq(Steps)
  BY <1>2, TailTyped
<1>5. BindTyped'
  <2>1. binding' \in [steps : Seq(Steps), half : BOOLEAN, left : Int, faults : Int]
    BY <1>2, <1>3, <1>4 DEF BindTyped
  <2>2. ticks' \in [armed : BOOLEAN, due : BOOLEAN, met : {"none", "device", "freed"}]
    BY <1>3 DEF BindTyped
  <2>. QED
    BY <2>1, <2>2 DEF BindTyped
<1>6. binding'.steps = From(StartSteps, i + 1) /\ binding'.half = binding.half
  BY <1>3 DEF BindTyped
<1>7. ticks'.armed = (ticks.armed \/ Resource = "armed") /\ ticks'.due = ticks.due /\ ticks'.met = ticks.met
  BY <1>3 DEF BindTyped
<1>8. StartSteps[i].r \in Names \ {"key", "protocol"}
  BY StartKinds
<1>9. Before(StartSteps, i + 1) = Before(StartSteps, i) \cup {Resource}
  BY <1>2, StartIs, BeforeNext
<1>10. held' = ({"protocol"} \cup Before(StartSteps, i + 1)) \ {"armed", "reset"}
  BY <1>1, <1>3, <1>9 DEF Starting
<1>11. held \subseteq held'
  BY <1>3
<1>12. held' \subseteq Whole \cup {"key"}
  BY <1>2, <1>3, <1>8 DEF BindStays, Names
<1>13. "memory" \in held'
  <2>1. "memory" \in Before(StartSteps, i + 1)
    BY StartPlaces DEF Before
  <2>. QED
    BY <2>1, <1>10
<1>14. Resource = "armed" => "timer" \in held
  <2>1. Resource = "armed" => i = 5
    BY <1>2, StartPlaces
  <2>. QED
    BY <1>1, <2>1, StartingHeld
<1>15. BindStays'
  <2>1. binding'.half => "interfaces" \in held'
    BY <1>6, <1>11 DEF BindStays
  <2>2. ticks'.armed \/ ticks'.due => "timer" \in held'
    BY <1>7, <1>11, <1>14 DEF BindStays
  <2>3. ticks'.met # "freed"
    BY <1>7 DEF BindStays
  <2>. QED
    BY <2>1, <2>2, <2>3, <1>12, <1>13 DEF BindStays
<1>16. BindPlace'
  <2>1. CASE i < 9
    <3>1. Starting(i + 1)'
      BY <1>6, <1>10 DEF Starting
    <3>2. i + 1 \in 1..9
      BY <2>1
    <3>. QED
      BY <3>1, <3>2 DEF BindPlace
  <2>2. CASE i = 9
    <3>1. binding'.steps = <<>>
      BY <2>2, <1>6, StartIs, NoneLeft
    <3>2. held' = Whole
      BY <2>2, <1>10, AllGot
    <3>3. binding'.half = FALSE
      BY <1>1, <1>6, StartingHeld DEF BindStays, BindTyped
    <3>4. held' \ {"key"} = Whole /\ "interfaces" \in held'
      BY <3>2 DEF Whole, Events
    <3>5. Settled'
      BY <3>1, <3>3, <3>4 DEF Settled, Running
    <3>. QED
      BY <3>5 DEF BindPlace
  <2>. QED
    BY <2>1, <2>2
<1>. QED
  BY <1>5, <1>15, <1>16

LEMMA GetFailsKeeps == ASSUME BindPlace, BindStays, BindTyped, GetFails PROVE BindPlace' /\ BindStays' /\ BindTyped'
<1>1. PICK i \in 1..9 : Starting(i)
  <2>1. Goes("get")
    BY DEF GetFails
  <2>. QED
    BY <2>1, SettledGoes, FailingGoes, StoppingGoes, AstrayGoes DEF BindPlace
<1>2. binding' = [binding EXCEPT !.steps = ErrorExit, !.faults = @ - 1] /\ held' = held /\ ticks' = ticks
  BY DEF GetFails
<1>3. ErrorExit \in Seq(Steps)
  BY ErrorIs
<1>4. binding' \in [steps : Seq(Steps), half : BOOLEAN, left : Int, faults : Int]
  <2>1. binding \in [steps : Seq(Steps), half : BOOLEAN, left : Int, faults : Int]
    BY DEF BindTyped
  <2>2. binding.faults - 1 \in Int /\ binding.left - 1 \in Int
    BY <2>1
  <2>. QED
    BY <2>1, <2>2, <1>2, <1>3
<1>5. binding'.steps = ErrorExit /\ binding'.half = binding.half
  BY <1>2 DEF BindTyped
<1>6. Failing(1)'
  BY <1>1, <1>2, <1>3, <1>5, NoneLeft, BeforeFirst, StartingHeld DEF Failing
<1>7. BindPlace'
  BY <1>6 DEF BindPlace
<1>8. BindStays'
  BY <1>2, <1>5 DEF BindStays
<1>. QED
  BY <1>2, <1>4, <1>7, <1>8 DEF BindTyped

LEMMA FreeNextKeeps == ASSUME BindPlace, BindStays, BindTyped, FreeNext PROVE BindPlace' /\ BindStays' /\ BindTyped'
<1>1. Goes("free") \/ Goes("uninstall")
  BY DEF FreeNext
<1>2. Running
  BY <1>1 DEF Goes
<1>3. Tail(binding.steps) \in Seq(Steps)
  BY <1>2, TailTyped
<1>4. /\ held' = held \ {Resource}
      /\ ticks' = IF Resource = "timer" THEN [ticks EXCEPT !.armed = FALSE, !.due = FALSE] ELSE ticks
      /\ binding' = [binding EXCEPT !.steps = Tail(binding.steps), !.half = @ /\ Resource # "interfaces"]
  BY DEF FreeNext
<1>5. BindTyped'
  <2>1. binding' \in [steps : Seq(Steps), half : BOOLEAN, left : Int, faults : Int]
    BY <1>3, <1>4 DEF BindTyped
  <2>2. ticks' \in [armed : BOOLEAN, due : BOOLEAN, met : {"none", "device", "freed"}]
    BY <1>4 DEF BindTyped
  <2>. QED
    BY <2>1, <2>2 DEF BindTyped
<1>6. binding'.steps = Tail(binding.steps) /\ binding'.half = (binding.half /\ Resource # "interfaces")
  BY <1>4 DEF BindTyped
<1>7. /\ ticks'.armed \/ ticks'.due => (ticks.armed \/ ticks.due) /\ Resource # "timer"
      /\ ticks'.met = ticks.met
  BY <1>4 DEF BindTyped
<1>8. (Resource = "memory" => held \ {"memory"} \subseteq {"protocol"}) /\ BindPlace'
  <2>1. (\E i \in 1..8 : Failing(i)) \/ (\E i \in 1..9 : Stopping(i))
    BY <1>1, SettledGoes, StartingGoes, AstrayGoes DEF BindPlace
  <2>2. ASSUME NEW i \in 1..8, Failing(i) PROVE (Resource = "memory" => held \ {"memory"} \subseteq {"protocol"}) /\ BindPlace'
    <3>1. Resource = ErrorExit[i].r /\ Tail(binding.steps) = From(ErrorExit, i + 1)
      BY <2>2, FailingGoes
    <3>2. Resource = "memory" => held \ {"memory"} \subseteq {"protocol"}
      <4>1. SUFFICES ASSUME i = 7 PROVE held \ {"memory"} \subseteq {"protocol"}
        BY <3>1, ErrorPlaces
      <4>2. held \cap Before(ErrorExit, 7) = {} /\ "interfaces" \notin held
        BY <2>2, <4>1 DEF Failing
      <4>3. held \subseteq Whole \cup {"key"}
        BY DEF BindStays
      <4>. QED
        BY <4>2, <4>3, AllButMemory
    <3>7. Resource = "protocol" => i = 8
      BY <3>1, ErrorPlaces
    <3>3. Before(ErrorExit, i + 1) = Before(ErrorExit, i) \cup {Resource}
      BY <3>1, ErrorIs, BeforeNext
    <3>4. held' \cap Before(ErrorExit, i + 1) = {} /\ "interfaces" \notin held'
      BY <2>2, <3>3, <1>4 DEF Failing
    <3>5. CASE i < 8
      <4>1. Failing(i + 1)'
        BY <2>2, <3>1, <3>4, <3>5, <3>7, <1>4, <1>6 DEF Failing
      <4>2. i + 1 \in 1..8
        BY <3>5
      <4>. QED
        BY <3>2, <4>1, <4>2 DEF BindPlace
    <3>6. CASE i = 8
      <4>1. binding'.steps = <<>>
        BY <3>6, <3>1, <1>6, ErrorIs, NoneLeft
      <4>2. held' = {}
        <5>1. held' \cap Before(ErrorExit, 9) = {}
          BY <3>6, <3>4
        <5>2. held' \subseteq Whole \cup {"key"}
          BY <1>4 DEF BindStays
        <5>3. ASSUME NEW x \in held' PROVE FALSE
          <6>1. x \in (Whole \ {"interfaces"}) \cup {"key"}
            BY <3>4, <5>2, <5>3
          <6>. QED
            BY <5>1, <5>3, <6>1, AllFreed
        <5>. QED
          BY <5>3
      <4>3. Settled'
        BY <4>1, <4>2 DEF Settled, Running
      <4>. QED
        BY <3>2, <4>3 DEF BindPlace
    <3>. QED
      BY <3>5, <3>6
  <2>3. ASSUME NEW i \in 1..9, Stopping(i) PROVE (Resource = "memory" => held \ {"memory"} \subseteq {"protocol"}) /\ BindPlace'
    <3>1. Resource = StopSteps[i].r /\ Tail(binding.steps) = From(StopSteps, i + 1)
      BY <2>3, StoppingGoes
    <3>2. Resource = "memory" => held \ {"memory"} \subseteq {"protocol"}
      <4>1. SUFFICES ASSUME i = 9 PROVE held \ {"memory"} \subseteq {"protocol"}
        BY <3>1, StopKinds
      <4>2. held \cap Before(StopSteps, 9) = {}
        BY <2>3, <4>1 DEF Stopping
      <4>3. held \subseteq Whole \cup {"key"}
        BY DEF BindStays
      <4>. QED
        BY <4>2, <4>3, AllButMemory
    <3>7. Resource = "memory" => i = 9
      BY <3>1, StopKinds
    <3>3. Before(StopSteps, i + 1) = Before(StopSteps, i) \cup {Resource}
      BY <3>1, StopIs, BeforeNext
    <3>4. held' \cap Before(StopSteps, i + 1) = {}
      BY <2>3, <3>3, <1>4 DEF Stopping
    <3>5. CASE i < 9
      <4>1. i + 1 <= 2 => Whole \ {"timer"} \subseteq held'
        BY <2>3, <3>1, <1>4, StopKinds DEF Stopping
      <4>2. Stopping(i + 1)'
        BY <2>3, <3>1, <3>4, <3>5, <3>7, <4>1, <1>4, <1>6 DEF Stopping
      <4>3. i + 1 \in 1..9
        BY <3>5
      <4>. QED
        BY <3>2, <4>2, <4>3 DEF BindPlace
    <3>6. CASE i = 9
      <4>1. binding'.steps = <<>>
        BY <3>6, <3>1, <1>6, StopIs, NoneLeft
      <4>2. held' = {}
        <5>1. held' \cap Before(StopSteps, 10) = {}
          BY <3>6, <3>4
        <5>2. held' \subseteq Whole \cup {"key"}
          BY <1>4 DEF BindStays
        <5>. QED
          BY <5>1, <5>2, AllFreed
      <4>3. Settled'
        BY <4>1, <4>2 DEF Settled, Running
      <4>. QED
        BY <3>2, <4>3 DEF BindPlace
    <3>. QED
      BY <3>5, <3>6
  <2>. QED
    BY <2>1, <2>2, <2>3
<1>9. BindStays'
  <2>1. held' \subseteq Whole \cup {"key"}
    BY <1>4 DEF BindStays
  <2>2. binding'.half => "interfaces" \in held'
    BY <1>4, <1>6 DEF BindStays
  <2>3. "memory" \notin held' => held' \subseteq {"protocol"}
    BY <1>4, <1>8 DEF BindStays
  <2>4. ticks'.armed \/ ticks'.due => "timer" \in held'
    BY <1>4, <1>7 DEF BindStays
  <2>5. ticks'.met # "freed"
    BY <1>7 DEF BindStays
  <2>. QED
    BY <2>1, <2>2, <2>3, <2>4, <2>5 DEF BindStays
<1>. QED
  BY <1>5, <1>8, <1>9

\* The walk over the list of no device: only Start's error exit comes to it, with nothing
\* but the protocol held.
LEMMA NoListWalkedKeeps == ASSUME BindPlace, BindStays, BindTyped, NoListWalked PROVE BindPlace' /\ BindStays' /\ BindTyped'
<1>1. Goes("free") /\ Resource = "key" /\ "memory" \notin held
  BY DEF NoListWalked
<1>2. binding' = [binding EXCEPT !.steps = <<Astray>>] /\ held' = held /\ ticks' = ticks
  BY DEF NoListWalked
<1>3. Astray \in Steps
  BY DEF Astray, Steps, Names
<1>4. binding' \in [steps : Seq(Steps), half : BOOLEAN, left : Int, faults : Int]
      /\ binding'.steps = <<Astray>> /\ binding'.half = binding.half
  <2>1. <<Astray>> \in Seq(Steps)
    BY <1>3
  <2>. HIDE DEF Astray
  <2>. QED
    BY <1>2, <2>1 DEF BindTyped
<1>5. held = {"protocol"} /\ ~binding.half
  <2>1. held \subseteq {"protocol"}
    BY <1>1 DEF BindStays
  <2>2. \E i \in 1..8 : Failing(i)
    BY <1>1, SettledGoes, StartingGoes, AstrayGoes DEF BindPlace, Stopping
  <2>3. "protocol" \in held
    BY <2>2 DEF Failing
  <2>. QED
    BY <2>1, <2>3 DEF BindStays
<1>6. GoneAstray'
  BY <1>2, <1>4, <1>5 DEF GoneAstray, Astray
<1>7. BindStays'
  BY <1>2, <1>4 DEF BindStays
<1>. QED
  BY <1>2, <1>4, <1>6, <1>7 DEF BindTyped, BindPlace

LEMMA UninstallFailsKeeps == ASSUME BindPlace, BindStays, BindTyped, UninstallFails PROVE BindPlace' /\ BindStays' /\ BindTyped'
<1>1. Stopping(2)
  <2>1. Goes("uninstall")
    BY DEF UninstallFails
  <2>. QED
    BY <2>1, SettledGoes, StartingGoes, FailingGoes, StoppingGoes, AstrayGoes DEF BindPlace
<1>2. binding' = [binding EXCEPT !.steps = <<>>, !.faults = @ - 1, !.half = TRUE] /\ held' = held /\ ticks' = ticks
  BY DEF UninstallFails
<1>3. binding' \in [steps : Seq(Steps), half : BOOLEAN, left : Int, faults : Int]
  <2>1. binding \in [steps : Seq(Steps), half : BOOLEAN, left : Int, faults : Int]
    BY DEF BindTyped
  <2>2. binding.faults - 1 \in Int /\ binding.left - 1 \in Int
    BY <2>1
  <2>3. <<>> \in Seq(Steps)
    OBVIOUS
  <2>4. binding' = [steps |-> <<>>, half |-> TRUE, left |-> binding.left, faults |-> binding.faults - 1]
    BY <2>1, <1>2
  <2>5. binding.left \in Int
    BY <2>1
  <2>. QED
    BY <2>2, <2>3, <2>4, <2>5
<1>4. binding'.steps = <<>> /\ binding'.half = TRUE
  BY <1>2 DEF BindTyped
<1>5. Whole \ {"timer"} \subseteq held /\ "timer" \notin held
  <2>1. "timer" \in Before(StopSteps, 2)
    BY StopKinds DEF Before
  <2>. QED
    BY <2>1, <1>1 DEF Stopping
<1>6. held \ {"key"} = Whole \ {"timer"} /\ "interfaces" \in held
  BY <1>5 DEF BindStays, Whole, Events
<1>7. Settled'
  BY <1>2, <1>4, <1>6 DEF Settled, Running
<1>8. BindStays'
  BY <1>2, <1>4, <1>6 DEF BindStays
<1>. QED
  BY <1>2, <1>3, <1>7, <1>8 DEF BindTyped, BindPlace

\* A driver that does not hold the protocol holds nothing; one that has interfaces holds all of a device.
LEMMA SettledHeld == ASSUME Settled, BindStays
  PROVE ("protocol" \notin held => held = {} /\ ~binding.half) /\ ("interfaces" \in held => Whole \ {"timer"} \subseteq held)
BY DEF Settled, BindStays, Whole, Events
LEMMA IdleSettled == ASSUME BindPlace, ~Running PROVE Settled
BY StartingGoes, FailingGoes, StoppingGoes, AstrayGoes DEF BindPlace

LEMMA StartKeeps == ASSUME BindPlace, BindStays, BindTyped, Start PROVE BindPlace' /\ BindStays' /\ BindTyped'
<1>1. Settled /\ held = {} /\ ~binding.half
  BY IdleSettled, SettledHeld DEF Start, CanCall, Supported
<1>2. binding' = [binding EXCEPT !.steps = StartSteps, !.left = @ - 1] /\ held' = {"protocol"} /\ ticks' = ticks
  BY DEF Start, Begin
<1>3. StartSteps \in Seq(Steps)
  BY StartIs
<1>4. binding' \in [steps : Seq(Steps), half : BOOLEAN, left : Int, faults : Int]
  <2>1. binding \in [steps : Seq(Steps), half : BOOLEAN, left : Int, faults : Int]
    BY DEF BindTyped
  <2>2. binding.faults - 1 \in Int /\ binding.left - 1 \in Int
    BY <2>1
  <2>. QED
    BY <2>1, <2>2, <1>2, <1>3
<1>5. binding'.steps = StartSteps /\ binding'.half = binding.half
  BY <1>2 DEF BindTyped
<1>6. Starting(1)'
  BY <1>2, <1>3, <1>5, NoneLeft, BeforeFirst DEF Starting
<1>7. BindStays'
  BY <1>1, <1>2, <1>5 DEF BindStays, Whole
<1>. QED
  BY <1>2, <1>4, <1>6, <1>7 DEF BindTyped, BindPlace

LEMMA StopKeeps == ASSUME BindPlace, BindStays, BindTyped, Stop PROVE BindPlace' /\ BindStays' /\ BindTyped'
<1>1. Whole \ {"timer"} \subseteq held
  BY IdleSettled, SettledHeld DEF Stop, CanCall
<1>2. binding' = [binding EXCEPT !.steps = StopSteps, !.left = @ - 1] /\ held' = held /\ ticks' = ticks
  BY DEF Stop, Begin
<1>3. StopSteps \in Seq(Steps)
  BY StopIs
<1>4. binding' \in [steps : Seq(Steps), half : BOOLEAN, left : Int, faults : Int]
  <2>1. binding \in [steps : Seq(Steps), half : BOOLEAN, left : Int, faults : Int]
    BY DEF BindTyped
  <2>2. binding.faults - 1 \in Int /\ binding.left - 1 \in Int
    BY <2>1
  <2>. QED
    BY <2>1, <2>2, <1>2, <1>3
<1>5. binding'.steps = StopSteps /\ binding'.half = binding.half
  BY <1>2 DEF BindTyped
<1>6. Stopping(1)'
  <2>1. "memory" \in held
    BY <1>1 DEF Whole
  <2>. QED
    BY <2>1, <1>1, <1>2, <1>3, <1>5, NoneLeft, BeforeFirst DEF Stopping
<1>7. BindStays'
  BY <1>2, <1>5 DEF BindStays
<1>. QED
  BY <1>2, <1>4, <1>6, <1>7 DEF BindTyped, BindPlace

LEMMA RegisterKeyKeeps == ASSUME BindPlace, BindStays, BindTyped, RegisterKey PROVE BindPlace' /\ BindStays' /\ BindTyped'
<1>1. Settled
  BY IdleSettled DEF RegisterKey
<1>2. held' = held \cup {"key"} /\ binding' = binding /\ ticks' = ticks /\ "interfaces" \in held
  BY DEF RegisterKey
<1>3. Settled'
  BY <1>1, <1>2 DEF Settled, Running
<1>4. BindStays'
  BY <1>2 DEF BindStays
<1>. QED
  BY <1>2, <1>3, <1>4 DEF BindTyped, BindPlace

\* The timer changes nothing but its own ticks.
LEMMA PlaceStays == ASSUME BindPlace, UNCHANGED <<held, binding>> PROVE BindPlace'
BY DEF BindPlace, Settled, Running, Starting, Failing, Stopping, GoneAstray
LEMMA TickKeeps == ASSUME BindPlace, BindStays, BindTyped, Tick PROVE BindPlace' /\ BindStays' /\ BindTyped'
<1>1. ticks' = [ticks EXCEPT !.due = TRUE] /\ held' = held /\ binding' = binding /\ ticks.armed
  BY DEF Tick
<1>2. ticks' \in [armed : BOOLEAN, due : BOOLEAN, met : {"none", "device", "freed"}] /\ ticks'.armed = ticks.armed /\ ticks'.met = ticks.met
  BY <1>1 DEF BindTyped
<1>. QED
  BY <1>1, <1>2, PlaceStays DEF BindStays, BindTyped
LEMMA TimerHandlerKeeps == ASSUME BindPlace, BindStays, BindTyped, TimerHandler PROVE BindPlace' /\ BindStays' /\ BindTyped'
<1>1. "memory" \in held /\ held' = held /\ binding' = binding
  BY DEF TimerHandler, BindStays
<1>2. ticks' = [ticks EXCEPT !.due = FALSE, !.met = "device"]
  BY <1>1 DEF TimerHandler
<1>3. ticks' \in [armed : BOOLEAN, due : BOOLEAN, met : {"none", "device", "freed"}] /\ ticks'.armed = ticks.armed /\ ticks'.due = FALSE /\ ticks'.met = "device"
  BY <1>2 DEF BindTyped
<1>. QED
  BY <1>1, <1>3, PlaceStays DEF BindStays, BindTyped

BindInv == BindPlace /\ BindStays /\ BindTyped

LEMMA BindInitHolds == ASSUME BindingAssumption, BindInit PROVE BindInv
<1>1. Settled /\ BindStays
  BY DEF BindInit, Settled, Running, BindStays
<1>2. BindTyped
  BY DEF BindInit, BindTyped, BindingAssumption
<1>. QED
  BY <1>1, <1>2 DEF BindInv, BindPlace

LEMMA BindKeeps == ASSUME BindInv, [BindNext]_bindVars PROVE BindInv'
<1>1. CASE UNCHANGED bindVars
  <2>1. held' = held /\ binding' = binding /\ ticks' = ticks
    BY <1>1 DEF bindVars
  <2>. QED
    BY <2>1, PlaceStays DEF BindInv, BindStays, BindTyped
<1>2. CASE BindNext
  BY <1>2, StartKeeps, GetNextKeeps, GetFailsKeeps, NoListWalkedKeeps, StopKeeps, FreeNextKeeps, UninstallFailsKeeps, RegisterKeyKeeps,
     TickKeeps, TimerHandlerKeeps DEF BindNext, BindInv
<1>. QED
  BY <1>1, <1>2

LEMMA BindPromises == ASSUME BindInv PROVE DeviceWhole
<1>1. Running \/ Settled
  BY IdleSettled DEF BindInv
<1>2. "interfaces" \in held => Whole \ {"timer"} \subseteq held
  <2>1. CASE Settled
    BY <2>1, SettledHeld DEF BindInv
  <2>2. ASSUME NEW i \in 1..9, Starting(i) PROVE "interfaces" \notin held
    BY <2>2, StartingHeld
  <2>3. ASSUME NEW i \in 1..8, Failing(i) PROVE "interfaces" \notin held
    BY <2>3 DEF Failing
  <2>5. CASE GoneAstray
    BY <2>5 DEF GoneAstray
  <2>4. ASSUME NEW i \in 1..9, Stopping(i) PROVE "interfaces" \in held => Whole \ {"timer"} \subseteq held
    <3>1. i > 2 => "interfaces" \in Before(StopSteps, i)
      BY StopKinds DEF Before
    <3>. QED
      BY <2>4, <3>1 DEF Stopping
  <2>. QED
    BY <2>1, <2>2, <2>3, <2>4, <2>5 DEF BindInv, BindPlace
<1>3. Goes("astray") => held = {"protocol"} /\ ~binding.half
  <2>1. SUFFICES ASSUME Goes("astray") PROVE GoneAstray
    BY DEF GoneAstray
  <2>2. Running /\ Head(binding.steps).do = "astray"
    BY <2>1 DEF Goes
  <2>3. \A i \in 1..9 : ~Starting(i) /\ ~Stopping(i)
    BY <2>2, StartingGoes, StoppingGoes, StartKinds, StopKinds
  <2>4. \A i \in 1..8 : ~Failing(i)
    BY <2>2, FailingGoes, ErrorKinds
  <2>. QED
    BY <2>2, <2>3, <2>4 DEF BindInv, BindPlace, Settled
<1>. QED
  BY <1>1, <1>2, <1>3 DEF DeviceWhole, Settled, BindInv, BindStays

\* Whatever the number of calls of the keypad's binding and wherever they fail, between the calls
\* the driver holds all of a device or nothing, and no tick of the timer finds the device freed;
\* only a Start that gets no memory for the device can go astray in its error exit, with nothing
\* but the protocol to give back (KeypadControllerDriverStart, KeypadControllerDriverStop).
THEOREM DevicesAreWhole == ASSUME BindingAssumption PROVE BindSpec => []DeviceWhole
<1>1. BindInit => BindInv
  BY BindInitHolds
<1>2. BindInv /\ [BindNext]_bindVars => BindInv'
  BY BindKeeps
<1>3. BindInv => DeviceWhole
  BY BindPromises
<1>. QED
  BY <1>1, <1>2, <1>3, PTL DEF BindSpec

-----------------------------------------------------------------------------
(***************************************************************************)
(* The log on the screen: any size of screen that a character fits on, any *)
(* scale, any depth of handlers that log.                                  *)
(***************************************************************************)
ScreenFits ==
  Width \in Nat /\ Height \in Nat /\ Scale \in Nat \ {0} /\ MaxX \div Scale > 0 /\ MaxY > Scale

Columns == MaxX \div Scale
Colours == {"white", "yellow"}
Pictures == SUBSET [left : Nat, top : Nat, c : Characters, colour : Colours, late : BOOLEAN]
Logs == [c : Characters, colour : Colours, late : BOOLEAN]
Screens == [ready : BOOLEAN, x : 0..Columns, y : Nat, colour : Colours, picture : Pictures]
Writers == [saved : BOOLEAN, colour : Colours, critical : BOOLEAN, handler : BOOLEAN,
            at : {"free", "draw", "store", "start", "test", "clear"}, c : Characters, again : BOOLEAN,
            y : Nat, on : BOOLEAN]
LogTypes == fbcon \in Screens /\ writers \in Seq(Writers) /\ ints \in BOOLEAN /\ latest \in Logs

\* Characters are drawn in cells: rows are counted in steps of Scale, and a row is one that fits
\* unless a handler draws there in the middle of a line feed.
IsRow(y) == \E j \in Nat : y = Scale * j
InCell(g) ==
  \E x \in 0..Columns - 1, y \in Nat :
    IsRow(y) /\ (~g.late => y + Scale <= MaxY) /\ g.left = x * Scale * (FontWidth + 1) /\ g.top = y * FontHeight
Good(picture) ==
  /\ picture \in Pictures /\ \A g \in picture : InCell(g)
  /\ \A g, h \in picture : (g.left = h.left /\ g.top = h.top) => g = h

\* The row is past the last one only while a writer that stored such a row is about to turn the
\* page, and the column past the last one only until the writer on top, which cannot be
\* interrupted then, starts its line.
Turning(w) == w.at \in {"start", "test", "clear"} /\ PageFull(w.y)
CellsInv ==
  /\ Good(fbcon.picture)
  /\ IsRow(fbcon.y) /\ \A i \in 1..Len(writers) : IsRow(writers[i].y)
  /\ PageFull(fbcon.y) => \E i \in 1..Len(writers) : Turning(writers[i])
  /\ fbcon.x = Columns => ~ints /\ writers # <<>> /\ writers[Len(writers)].at \in {"store", "start"}

\* The colour each writer found is the one that the writer below it set.
SetBy(w) == IF w.critical THEN "yellow" ELSE w.colour
ColoursInv ==
  /\ fbcon.colour = IF writers = <<>> THEN "white" ELSE SetBy(writers[Len(writers)])
  /\ writers # <<>> => writers[1].colour = "white"
  /\ \A i \in 2..Len(writers) : writers[i].colour = SetBy(writers[i - 1])

\* A character is under way only on a screen that is set up; what is logged during a line feed is
\* logged by a handler, or is the line feed; the last character logged is there or one is to be
\* painted again.
LatestInv ==
  /\ \A i \in 1..Len(writers) : writers[i].at # "free" => fbcon.ready
  /\ \A i \in 1..Len(writers) : writers[i].at \in LineFeed => latest.late \/ latest.c = writers[i].c
  /\ latest.c = "a" => \/ \E i \in 1..Len(writers) : Due(writers[i])
                       \/ \E g \in fbcon.picture : g.c = "a" /\ g.colour = latest.colour
LogInv == LogTypes /\ CellsInv /\ ColoursInv /\ LatestInv

\* Sizes in cells and in pixels.
LEMMA Ordered == ASSUME NEW a \in Nat, NEW b \in Nat, NEW s \in Nat, a <= b PROVE a * s <= b * s
OBVIOUS

LEMMA ScreenSizes ==
  ASSUME ScreenFits
  PROVE  /\ Columns \in Nat \ {0} /\ MaxX \in Nat /\ MaxY \in Int
         /\ Columns * Scale <= MaxX /\ MaxX * (FontWidth + 1) <= Width
         /\ MaxY * FontHeight <= Height /\ IsRow(0) /\ ~PageFull(0)
<1>1. MaxX \in Nat /\ MaxX * 6 <= Width
  BY DEF ScreenFits, MaxX, FontWidth
<1>2. MaxY \in Int /\ MaxY * 12 <= Height
  BY DEF ScreenFits, MaxY, FontHeight
<1>3. ASSUME NEW m \in Nat, NEW s \in Nat \ {0} PROVE m \div s \in Nat /\ (m \div s) * s <= m
  <2>1. m \div s \in Int
    OBVIOUS
  <2>2. m \div s >= 0
    OBVIOUS
  <2>3. (m \div s) * s <= m
    OBVIOUS
  <2>. QED
    BY <2>1, <2>2, <2>3
<1>4. Columns \in Nat /\ Columns * Scale <= MaxX /\ Columns > 0
  BY <1>1, <1>3 DEF Columns, ScreenFits
<1>5. IsRow(0) /\ ~PageFull(0)
  BY <1>2 DEF IsRow, PageFull, ScreenFits
<1>. QED
  BY <1>1, <1>2, <1>4, <1>5 DEF FontWidth, FontHeight

\* A character in a cell lies inside the frame buffer.
LEMMA CellsInside == ASSUME ScreenFits, NEW g, InCell(g), ~g.late PROVE Inside(g)
<1>1. PICK x \in 0..Columns - 1, y \in Nat :
        y + Scale <= MaxY /\ g.left = x * Scale * (FontWidth + 1) /\ g.top = y * FontHeight
  BY DEF InCell
<1>2. /\ Columns \in Nat \ {0} /\ MaxX \in Nat /\ MaxY \in Int /\ Scale \in Nat /\ Width \in Nat /\ Height \in Nat
      /\ Columns * Scale <= MaxX /\ MaxX * (FontWidth + 1) <= Width /\ MaxY * FontHeight <= Height
  BY ScreenSizes DEF ScreenFits
<1>3. (x + 1) * Scale <= Columns * Scale /\ (x + 1) * Scale = x * Scale + Scale
  BY <1>2, Ordered
<1>4. PICK p \in Nat : p = x * Scale
  BY <1>2
<1>5. p + Scale <= MaxX /\ g.left = p * 6
  BY <1>1, <1>2, <1>3, <1>4 DEF FontWidth
<1>6. g.left + 5 * Scale <= Width
  BY <1>2, <1>5 DEF FontWidth
<1>7. g.top + 12 * Scale <= Height
  BY <1>1, <1>2 DEF FontHeight
<1>. QED
  BY <1>6, <1>7 DEF Inside, FontWidth, FontHeight

\* Characters in two cells lie apart.
LEMMA CellsApart ==
  ASSUME ScreenFits, NEW g, InCell(g), NEW h, InCell(h), Overlap(g, h)
  PROVE  g.left = h.left /\ g.top = h.top
<1>1. PICK x \in 0..Columns - 1, y \in Nat :
        IsRow(y) /\ g.left = x * Scale * (FontWidth + 1) /\ g.top = y * FontHeight
  BY DEF InCell
<1>2. PICK u \in 0..Columns - 1, v \in Nat :
        IsRow(v) /\ h.left = u * Scale * (FontWidth + 1) /\ h.top = v * FontHeight
  BY DEF InCell
<1>3. PICK j \in Nat, k \in Nat : y = Scale * j /\ v = Scale * k
  BY <1>1, <1>2 DEF IsRow
<1>4. Scale \in Nat \ {0} /\ Columns \in Nat
  BY ScreenSizes DEF ScreenFits
<1>5. ASSUME NEW a \in Nat, NEW b \in Nat, NEW s \in Nat \ {0}, a * s < b * s + s, b * s < a * s + s PROVE a = b
  <2>1. ASSUME NEW c \in Nat, NEW d \in Nat, c < d PROVE c * s + s <= d * s
    <3>1. (c + 1) * s <= d * s
      BY <2>1, Ordered
    <3>2. (c + 1) * s = c * s + s
      OBVIOUS
    <3>. QED
      BY <3>1, <3>2
  <2>2. CASE a < b
    <3>1. a * s + s <= b * s
      BY <2>1, <2>2
    <3>. QED
      BY <1>5, <3>1
  <2>3. CASE b < a
    <3>1. b * s + s <= a * s
      BY <2>1, <2>3
    <3>. QED
      BY <1>5, <3>1
  <2>. QED
    BY <2>2, <2>3
<1>6. PICK p \in Nat, q \in Nat : p = x * Scale /\ q = u * Scale
  BY <1>4
<1>7. g.left = p * 6 /\ h.left = q * 6 /\ g.top = y * 12 /\ h.top = v * 12
  BY <1>1, <1>2, <1>6 DEF FontWidth, FontHeight
<1>8. p < q + Scale /\ q < p + Scale /\ y < v + Scale /\ v < y + Scale
  BY <1>4, <1>7 DEF Overlap, FontWidth, FontHeight
<1>9. x = u
  BY <1>4, <1>5, <1>6, <1>8
<1>10. j = k
  <2>1. y = j * Scale /\ v = k * Scale
    BY <1>3, <1>4
  <2>. QED
    BY <1>4, <1>5, <1>8, <2>1
<1>. QED
  BY <1>1, <1>2, <1>3, <1>9, <1>10

LEMMA LogStarts == ASSUME ScreenFits, LogInit PROVE LogInv
<1>1. Columns \in Nat \ {0} /\ IsRow(0) /\ ~PageFull(0)
  BY ScreenSizes
<1>2. LogTypes
  BY <1>1 DEF LogInit, LogTypes, Screens, Logs, Colours, Pictures, Characters
<1>3. CellsInv
  BY <1>1 DEF LogInit, CellsInv, Good, Pictures
<1>4. ColoursInv /\ LatestInv
  BY DEF LogInit, ColoursInv, LatestInv
<1>. QED
  BY <1>2, <1>3, <1>4 DEF LogInv

\* What SerialPortWrite does when it begins, and when it ends.
LEMMA WritersKeep ==
  ASSUME ScreenFits, LogInv, NEW critical \in BOOLEAN, NEW handler \in BOOLEAN,
         writers = <<>> \/ ints, BeginWrite(critical, handler)
  PROVE  LogInv'
<1>. DEFINE n == Len(writers)
            w == [saved |-> ints /\ ~handler, colour |-> fbcon.colour, critical |-> critical, handler |-> handler,
                  at |-> "free", c |-> "other", again |-> FALSE, y |-> 0, on |-> FALSE]
<1>1. fbcon \in Screens /\ writers \in Seq(Writers) /\ ints \in BOOLEAN /\ latest \in Logs /\ n \in Nat
  BY DEF LogInv, LogTypes
<1>2. w \in Writers
  BY <1>1 DEF Writers, Screens, Characters
<1>3. writers' = Append(writers, w) /\ ints' = FALSE /\ UNCHANGED latest
  BY DEF BeginWrite
<1>4. /\ fbcon' \in Screens /\ fbcon'.colour = SetBy(w) /\ fbcon'.ready = fbcon.ready /\ fbcon'.y = fbcon.y
      /\ fbcon'.x = fbcon.x /\ fbcon'.picture = fbcon.picture
  BY <1>1 DEF BeginWrite, SetBy, Colours, Screens
<1>5. w.at = "free" /\ ~w.again /\ w.y = 0 /\ w.colour = fbcon.colour
  OBVIOUS
<1>. HIDE DEF w
<1>6. /\ writers' \in Seq(Writers) /\ Len(writers') = n + 1 /\ writers'[n + 1] = w
      /\ \A i \in 1..n : writers'[i] = writers[i]
  BY <1>1, <1>2, <1>3
<1>7. LogTypes'
  BY <1>1, <1>3, <1>4, <1>6 DEF LogTypes
<1>8. \A i \in 1..(n + 1) : i = n + 1 \/ i \in 1..n
  BY <1>1
<1>9. \A i \in 1..n : i \in 1..(n + 1)
  BY <1>1
<1>10. CellsInv'
  <2>1. CellsInv
    BY DEF LogInv
  <2>2. IsRow(0)
    BY ScreenSizes
  <2>3. \A i \in 1..Len(writers') : IsRow(writers'[i].y)
    BY ONLY <1>5, <1>6, <1>8, <2>1, <2>2 DEF CellsInv
  <2>4. PageFull(fbcon'.y) => \E i \in 1..Len(writers') : Turning(writers'[i])
    BY ONLY <1>4, <1>6, <1>9, <2>1 DEF CellsInv
  <2>5. fbcon'.x # Columns
    BY <1>4, <2>1 DEF CellsInv
  <2>. QED
    BY ONLY <1>4, <2>1, <2>3, <2>4, <2>5 DEF CellsInv
<1>11. ColoursInv'
  <2>1. writers' # <<>> /\ fbcon'.colour = SetBy(writers'[Len(writers')])
    BY <1>1, <1>4, <1>6
  <2>2. IF n = 0 THEN w.colour = "white" ELSE w.colour = SetBy(writers[n])
    BY <1>1, <1>5 DEF LogInv, ColoursInv
  <2>3. writers'[1].colour = "white"
    BY <1>1, <1>6, <2>2 DEF LogInv, ColoursInv
  <2>4. ASSUME NEW i \in 2..(n + 1) PROVE writers'[i].colour = SetBy(writers'[i - 1])
    <3>1. CASE i = n + 1
      BY <1>1, <1>6, <2>2, <3>1
    <3>2. CASE i # n + 1
      <4>1. i \in 2..n /\ i \in 1..n /\ i - 1 \in 1..n
        BY <1>1, <3>2
      <4>2. writers[i].colour = SetBy(writers[i - 1])
        BY <4>1 DEF LogInv, ColoursInv
      <4>. QED
        BY <1>6, <4>1, <4>2
    <3>. QED
      BY <3>1, <3>2
  <2>. QED
    BY <1>6, <2>1, <2>3, <2>4 DEF ColoursInv
<1>12. LatestInv'
  <2>1. LatestInv
    BY DEF LogInv
  <2>2. \A i \in 1..Len(writers') : writers'[i].at # "free" => i \in 1..n /\ writers'[i] = writers[i]
    BY ONLY <1>5, <1>6, <1>8
  <2>3. \A i \in 1..n : Due(writers[i]) => i \in 1..Len(writers') /\ Due(writers'[i])
    BY ONLY <1>6, <1>9
  <2>4. latest' = latest
    BY <1>3
  <2>5. \A i \in 1..Len(writers') : writers'[i].at # "free" => fbcon'.ready
    BY ONLY <1>4, <2>1, <2>2 DEF LatestInv
  <2>6. \A i \in 1..Len(writers') : writers'[i].at \in LineFeed => latest'.late \/ latest'.c = writers'[i].c
    BY ONLY <2>1, <2>2, <2>4 DEF LatestInv, LineFeed
  <2>. QED
    BY ONLY <1>4, <2>1, <2>3, <2>4, <2>5, <2>6 DEF LatestInv
<1>. QED
  BY <1>7, <1>10, <1>11, <1>12 DEF LogInv

\* A sequence without its last element.
LEMMA AllButLast ==
  ASSUME NEW S, NEW s \in Seq(S), s # <<>>
  PROVE  Front(s) \in Seq(S) /\ Len(Front(s)) = Len(s) - 1 /\ \A i \in 1..(Len(s) - 1) : Front(s)[i] = s[i]
<1>. DEFINE k == Len(s) - 1
<1>1. k \in Nat /\ \A i \in 1..k : s[i] \in S
  OBVIOUS
<1>. HIDE DEF k
<1>2. SubSeq(s, 1, k) \in Seq(S)
  BY <1>1, SubSeqProperties
<1>3. Len(SubSeq(s, 1, k)) = k
  BY <1>1, SubSeqProperties
<1>4. \A i \in 1..k : SubSeq(s, 1, k)[i] = s[i]
  BY <1>1, SubSeqProperties
<1>5. Front(s) = SubSeq(s, 1, k)
  BY DEF Front, k
<1>. QED
  BY <1>2, <1>3, <1>4, <1>5 DEF k

LEMMA EndKeeps == ASSUME LogInv, EndWrite PROVE LogInv'
<1>. DEFINE n == Len(writers)
<1>1. /\ fbcon \in Screens /\ writers \in Seq(Writers) /\ ints \in BOOLEAN /\ latest \in Logs
      /\ n \in Nat \ {0} /\ writers[n] \in Writers /\ writers[n].at = "free" /\ writers[n].again = FALSE
  BY DEF LogInv, LogTypes, EndWrite, WriterAt, Last
<1>2. /\ writers' = Front(writers) /\ UNCHANGED latest
      /\ ints' = (ints \/ writers[n].saved \/ writers[n].handler)
  BY DEF EndWrite, Last
<1>3. /\ fbcon' \in Screens
      /\ fbcon'.colour = (IF writers[n].critical THEN writers[n].colour ELSE fbcon.colour)
      /\ fbcon'.ready = fbcon.ready /\ fbcon'.y = fbcon.y /\ fbcon'.x = fbcon.x /\ fbcon'.picture = fbcon.picture
  BY <1>1 DEF EndWrite, Last, Writers, Screens
<1>4. /\ writers' \in Seq(Writers) /\ Len(writers') = n - 1 /\ \A i \in 1..(n - 1) : writers'[i] = writers[i]
  <2>1. /\ Front(writers) \in Seq(Writers) /\ Len(Front(writers)) = Len(writers) - 1
        /\ \A i \in 1..(Len(writers) - 1) : Front(writers)[i] = writers[i]
    <3>1. writers \in Seq(Writers) /\ writers # <<>>
      BY <1>1
    <3>. QED
      BY <3>1, AllButLast
  <2>. QED
    BY <1>1, <1>2, <2>1
<1>5. LogTypes'
  BY <1>1, <1>2, <1>3, <1>4 DEF LogTypes, Writers
<1>6. \A i \in 1..n : i = n \/ i \in 1..(n - 1)
  BY <1>1
<1>7. \A i \in 1..(n - 1) : i \in 1..n
  BY <1>1
<1>8. CellsInv'
  <2>1. CellsInv
    BY DEF LogInv
  <2>2. fbcon.x # Columns
    BY <1>1, <2>1 DEF CellsInv
  <2>3. \A i \in 1..n : Turning(writers[i]) => i \in 1..Len(writers') /\ Turning(writers'[i])
    BY ONLY <1>1, <1>4, <1>6 DEF Turning
  <2>4. \A i \in 1..Len(writers') : IsRow(writers'[i].y)
    BY ONLY <1>4, <1>7, <2>1 DEF CellsInv
  <2>. QED
    BY ONLY <1>3, <2>1, <2>2, <2>3, <2>4 DEF CellsInv
<1>9. ColoursInv'
  <2>1. fbcon'.colour = writers[n].colour
    BY <1>1, <1>3 DEF LogInv, ColoursInv, SetBy
  <2>2. CASE n = 1
    <3>1. writers[1].colour = "white"
      BY <1>1 DEF LogInv, ColoursInv
    <3>. QED
      BY <1>1, <1>4, <2>1, <2>2, <3>1 DEF ColoursInv
  <2>3. CASE n # 1
    <3>1. n \in 2..n /\ n - 1 \in 1..(n - 1) /\ writers' # <<>> /\ 1 \in 1..(n - 1)
      BY <1>1, <1>4, <2>3
    <3>2. writers[n].colour = SetBy(writers[n - 1]) /\ writers[1].colour = "white"
      BY <1>1, <3>1 DEF LogInv, ColoursInv
    <3>3. fbcon'.colour = SetBy(writers'[Len(writers')]) /\ writers'[1].colour = "white"
      BY <1>4, <2>1, <3>1, <3>2
    <3>4. ASSUME NEW i \in 2..(n - 1) PROVE writers'[i].colour = SetBy(writers'[i - 1])
      <4>1. i \in 2..n /\ i \in 1..(n - 1) /\ i - 1 \in 1..(n - 1)
        BY <1>1
      <4>2. writers[i].colour = SetBy(writers[i - 1])
        BY <4>1 DEF LogInv, ColoursInv
      <4>. QED
        BY <1>4, <4>1, <4>2
    <3>. QED
      BY <1>4, <3>1, <3>3, <3>4 DEF ColoursInv
  <2>. QED
    BY <2>2, <2>3
<1>10. LatestInv'
  <2>1. LatestInv
    BY DEF LogInv
  <2>2. \A i \in 1..n : Due(writers[i]) => i \in 1..Len(writers') /\ Due(writers'[i])
    BY ONLY <1>1, <1>4, <1>6 DEF Due
  <2>3. \A i \in 1..Len(writers') : i \in 1..n /\ writers'[i] = writers[i]
    BY ONLY <1>4, <1>7
  <2>4. latest' = latest
    BY <1>2
  <2>. QED
    BY ONLY <1>3, <2>1, <2>2, <2>3, <2>4 DEF LatestInv
<1>. QED
  BY <1>5, <1>8, <1>9, <1>10 DEF LogInv

\* A step of FbConPutCharWithFactor: the writer on top becomes w, and the others stand where they
\* stood.
Below == 1..(Len(writers) - 1)
Shown(log, picture) == \E g \in picture : g.c = "a" /\ g.colour = log.colour
LEMMA StepKeeps ==
  ASSUME LogInv, writers # <<>>, NEW w \in Writers, Becomes(w),
         w.colour = Last(writers).colour, w.critical = Last(writers).critical, IsRow(w.y),
         w.at # "free" => fbcon.ready,
         fbcon' \in Screens, fbcon'.ready = fbcon.ready, fbcon'.colour = fbcon.colour, ints' \in BOOLEAN,
         latest' \in Logs, Good(fbcon'.picture), IsRow(fbcon'.y),
         PageFull(fbcon'.y) => Turning(w) \/ \E i \in Below : Turning(writers[i]),
         fbcon'.x = Columns => ~ints' /\ w.at \in {"store", "start"},
         w.at \in LineFeed => latest'.late \/ latest'.c = w.c,
         \A i \in Below : writers[i].at \in LineFeed => latest'.late \/ latest'.c = writers[i].c,
         latest'.c = "a" => Due(w) \/ (\E i \in Below : Due(writers[i])) \/ Shown(latest', fbcon'.picture)
  PROVE  LogInv'
<1>. DEFINE n == Len(writers)
<1>1. writers \in Seq(Writers) /\ n \in Nat \ {0} /\ writers[n] \in Writers
  BY DEF LogInv, LogTypes
<1>2. writers' = [writers EXCEPT ![n] = w]
  BY DEF Becomes
<1>3. /\ writers' \in Seq(Writers) /\ Len(writers') = n /\ writers'[n] = w
      /\ \A i \in 1..n : i # n => writers'[i] = writers[i]
  BY <1>1, <1>2
<1>4. \A i \in 1..n : i = n \/ (i \in Below /\ writers'[i] = writers[i])
  BY ONLY <1>1, <1>3 DEF Below
<1>5. \A i \in Below : i \in 1..n /\ writers'[i] = writers[i]
  BY ONLY <1>1, <1>3 DEF Below
<1>6. n \in 1..n
  BY ONLY <1>1
<1>7. LogTypes'
  BY ONLY <1>3, fbcon' \in Screens, ints' \in BOOLEAN, latest' \in Logs DEF LogTypes
<1>8. CellsInv'
  <2>1. \A i \in 1..n : IsRow(writers[i].y)
    BY DEF LogInv, CellsInv
  <2>2. \A i \in 1..n : IsRow(writers'[i].y)
    BY ONLY <1>3, <1>4, <1>5, <2>1, IsRow(w.y)
  <2>3. PageFull(fbcon'.y) => \E i \in 1..n : Turning(writers'[i])
    BY ONLY <1>3, <1>5, <1>6, PageFull(fbcon'.y) => Turning(w) \/ \E i \in Below : Turning(writers[i])
  <2>4. writers' # <<>>
    BY ONLY <1>1, <1>3
  <2>. QED
    BY ONLY <1>3, <2>2, <2>3, <2>4, Good(fbcon'.picture), IsRow(fbcon'.y),
            fbcon'.x = Columns => ~ints' /\ w.at \in {"store", "start"} DEF CellsInv
<1>9. ColoursInv'
  <2>1. w.colour = writers[n].colour /\ SetBy(w) = SetBy(writers[n])
    BY DEF Last, SetBy
  <2>2. \A i \in 1..n : SetBy(writers'[i]) = SetBy(writers[i]) /\ writers'[i].colour = writers[i].colour
    BY ONLY <1>3, <1>4, <2>1
  <2>3. writers' # <<>> /\ fbcon'.colour = SetBy(writers'[Len(writers')]) /\ writers'[1].colour = "white"
    BY <1>1, <1>3, <2>2 DEF LogInv, ColoursInv
  <2>4. ASSUME NEW i \in 2..n PROVE writers'[i].colour = SetBy(writers'[i - 1])
    <3>1. i \in 1..n /\ i - 1 \in 1..n
      BY <1>1
    <3>2. writers[i].colour = SetBy(writers[i - 1])
      BY DEF LogInv, ColoursInv
    <3>. QED
      BY <2>2, <3>1, <3>2
  <2>. QED
    BY <1>3, <2>3, <2>4 DEF ColoursInv
<1>10. LatestInv'
  <2>1. \A i \in 1..n : writers[i].at # "free" => fbcon.ready
    BY DEF LogInv, LatestInv
  <2>2. \A i \in 1..n : writers'[i].at # "free" => fbcon'.ready
    BY ONLY <1>3, <1>4, <1>5, <2>1, w.at # "free" => fbcon.ready, fbcon'.ready = fbcon.ready
  <2>3. \A i \in 1..n : writers'[i].at \in LineFeed => latest'.late \/ latest'.c = writers'[i].c
    BY ONLY <1>3, <1>4, w.at \in LineFeed => latest'.late \/ latest'.c = w.c,
            \A i \in Below : writers[i].at \in LineFeed => latest'.late \/ latest'.c = writers[i].c
  <2>4. latest'.c = "a" => \/ \E i \in 1..n : Due(writers'[i])
                           \/ Shown(latest', fbcon'.picture)
    BY ONLY <1>3, <1>5, <1>6,
            latest'.c = "a" => Due(w) \/ (\E i \in Below : Due(writers[i])) \/ Shown(latest', fbcon'.picture)
  <2>. QED
    BY ONLY <1>3, <2>2, <2>3, <2>4 DEF LatestInv, Shown
<1>. QED
  BY <1>7, <1>8, <1>9, <1>10 DEF LogInv

\* What the writer on top and the others know before such a step.
LEMMA OnTop ==
  ASSUME ScreenFits, LogInv, writers # <<>>
  PROVE  /\ fbcon \in Screens /\ ints \in BOOLEAN /\ latest \in Logs /\ Columns \in Nat \ {0} /\ Scale \in Nat \ {0}
         /\ Last(writers) \in Writers /\ IsRow(Last(writers).y) /\ IsRow(fbcon.y) /\ Good(fbcon.picture)
         /\ Last(writers).at # "free" => fbcon.ready
         /\ PageFull(fbcon.y) => Turning(Last(writers)) \/ \E i \in Below : Turning(writers[i])
         /\ fbcon.x = Columns => ~ints /\ Last(writers).at \in {"store", "start"}
         /\ Last(writers).at \in LineFeed => latest.late \/ latest.c = Last(writers).c
         /\ \A i \in Below : writers[i].at \in LineFeed => latest.late \/ latest.c = writers[i].c
         /\ latest.c = "a" => \/ Due(Last(writers)) \/ \E i \in Below : Due(writers[i])
                              \/ Shown(latest, fbcon.picture)
<1>. DEFINE n == Len(writers)
<1>1. writers \in Seq(Writers) /\ n \in Nat \ {0} /\ Last(writers) = writers[n] /\ n \in 1..n
  BY DEF LogInv, LogTypes, Last
<1>2. \A i \in 1..n : i = n \/ i \in Below
  BY ONLY <1>1 DEF Below
<1>3. \A i \in Below : i \in 1..n
  BY ONLY <1>1 DEF Below
<1>4. fbcon \in Screens /\ ints \in BOOLEAN /\ latest \in Logs /\ Columns \in Nat \ {0} /\ Scale \in Nat \ {0}
  BY ScreenSizes DEF LogInv, LogTypes, ScreenFits
<1>5. CellsInv /\ LatestInv
  BY DEF LogInv
<1>6. /\ Last(writers) \in Writers /\ IsRow(Last(writers).y) /\ IsRow(fbcon.y) /\ Good(fbcon.picture)
      /\ fbcon.x = Columns => ~ints /\ Last(writers).at \in {"store", "start"}
  BY ONLY <1>1, <1>5 DEF CellsInv
<1>7. PageFull(fbcon.y) => Turning(Last(writers)) \/ \E i \in Below : Turning(writers[i])
  BY ONLY <1>1, <1>2, <1>5 DEF CellsInv
<1>8. /\ Last(writers).at # "free" => fbcon.ready
      /\ Last(writers).at \in LineFeed => latest.late \/ latest.c = Last(writers).c
      /\ \A i \in Below : writers[i].at \in LineFeed => latest.late \/ latest.c = writers[i].c
  BY ONLY <1>1, <1>3, <1>5 DEF LatestInv
<1>9. latest.c = "a" => \/ Due(Last(writers)) \/ \E i \in Below : Due(writers[i])
                        \/ Shown(latest, fbcon.picture)
  BY ONLY <1>1, <1>2, <1>5 DEF LatestInv, Shown
<1>. QED
  BY ONLY <1>4, <1>6, <1>7, <1>8, <1>9

\* What is logged in the middle of a writer's line feed is marked as such.
LEMMA LoggedLate ==
  ASSUME LogInv, NEW c \in Characters, latest' = Logged(c)
  PROVE  /\ latest' \in Logs /\ latest'.colour = fbcon.colour /\ (fbcon.ready => latest'.c = c)
         /\ (~fbcon.ready => latest'.c = "other")
         /\ \A i \in Below : writers[i].at \in LineFeed => latest'.late
<1>1. Late \in BOOLEAN /\ \A i \in Below : writers[i].at \in LineFeed => Late
  BY DEF Late, Below
<1>2. latest' = [c |-> IF fbcon.ready THEN c ELSE "other", colour |-> fbcon.colour, late |-> Late]
  BY DEF Logged
<1>3. fbcon.colour \in Colours
  BY DEF LogInv, LogTypes, Screens
<1>. QED
  BY ONLY <1>1, <1>2, <1>3, c \in Characters DEF Logs, Characters

\* One row further down is a row.
LEMMA NextRow == ASSUME ScreenFits, NEW y \in Nat, IsRow(y) PROVE y + Scale \in Nat /\ IsRow(y + Scale)
<1>1. Scale \in Nat
  BY DEF ScreenFits
<1>2. PICK j \in Nat : y = Scale * j
  BY DEF IsRow
<1>3. y + Scale = Scale * (j + 1) /\ j + 1 \in Nat /\ y + Scale \in Nat
  BY <1>1, <1>2
<1>. QED
  BY <1>3 DEF IsRow

\* The records a step leaves on top.
LEMMA TopRecords ==
  ASSUME ScreenFits, LogInv, writers # <<>>, NEW c \in Characters, NEW on \in BOOLEAN
  PROVE  /\ Returned \in Writers /\ Returned.colour = Last(writers).colour /\ Returned.critical = Last(writers).critical
         /\ Returned.at = "free" /\ IsRow(Returned.y)
         /\ Feeding(c, on) \in Writers /\ Feeding(c, on).colour = Last(writers).colour
         /\ Feeding(c, on).critical = Last(writers).critical /\ Feeding(c, on).at = "store"
         /\ Feeding(c, on).c = c /\ IsRow(Feeding(c, on).y)
<1>1. Last(writers) \in Writers /\ fbcon.y \in Nat /\ IsRow(fbcon.y)
  BY OnTop DEF Screens
<1>2. fbcon.y + Scale \in Nat /\ IsRow(fbcon.y + Scale)
  BY <1>1, NextRow
<1>3. IsRow(0)
  BY ScreenSizes
<1>. DEFINE y == fbcon.y + Scale
<1>4. y \in Nat /\ IsRow(y) /\ Feeding(c, on) = [Last(writers) EXCEPT !.at = "store", !.c = c, !.again = FALSE, !.y = y, !.on = on]
  BY <1>2 DEF Feeding
<1>. HIDE DEF y
<1>5. /\ Returned \in Writers /\ Returned.colour = Last(writers).colour /\ Returned.critical = Last(writers).critical
      /\ Returned.at = "free" /\ Returned.y = 0
  BY <1>1 DEF Returned, Writers, Characters
<1>6. /\ Feeding(c, on) \in Writers /\ Feeding(c, on).colour = Last(writers).colour
      /\ Feeding(c, on).critical = Last(writers).critical /\ Feeding(c, on).at = "store"
      /\ Feeding(c, on).c = c /\ Feeding(c, on).y = y
  BY <1>1, <1>4 DEF Writers
<1>. QED
  BY ONLY <1>3, <1>4, <1>5, <1>6

\* A character handled with the interrupts as they are, the first time or again.
LEMMA PaintKeeps ==
  ASSUME ScreenFits, LogInv, NEW c \in Characters, NEW again \in BOOLEAN, WriterAt("free", again),
         again => c = Last(writers).c, Paint(c)
  PROVE  LogInv'
<1>. DEFINE top == Last(writers)
<1>1. writers # <<>> /\ top.at = "free" /\ top.again = again
  BY DEF WriterAt
<1>2. /\ fbcon \in Screens /\ ints \in BOOLEAN /\ latest \in Logs /\ Columns \in Nat \ {0}
      /\ top \in Writers /\ IsRow(top.y) /\ IsRow(fbcon.y) /\ Good(fbcon.picture)
      /\ fbcon.x # Columns
      /\ \A i \in Below : writers[i].at \in LineFeed => latest.late \/ latest.c = writers[i].c
      /\ latest.c = "a" => \/ Due(top) \/ \E i \in Below : Due(writers[i])
                           \/ Shown(latest, fbcon.picture)
  BY <1>1, OnTop
<1>3. PageFull(fbcon.y) => \E i \in Below : Turning(writers[i])
  BY <1>1, OnTop DEF Turning
<1>4. CASE fbcon.ready /\ Becomes([top EXCEPT !.at = "draw", !.c = c]) /\ UNCHANGED <<fbcon, ints, latest>>
  <2>1. PICK w : w = [top EXCEPT !.at = "draw", !.c = c]
    OBVIOUS
  <2>2. /\ w \in Writers /\ w.colour = top.colour /\ w.critical = top.critical /\ w.y = top.y /\ w.at = "draw"
        /\ w.c = c /\ w.again = again
    BY <1>1, <1>2, <2>1 DEF Writers
  <2>3. Due(top) => Due(w)
    BY <1>1, <2>2 DEF Due
  <2>4. w.at \notin LineFeed /\ Becomes(w)
    BY <1>4, <2>1, <2>2 DEF LineFeed
  <2>5. fbcon' = fbcon /\ ints' = ints /\ latest' = latest
    BY <1>4
  <2>. HIDE DEF top
  <2>. QED
    BY <1>1, <1>2, <1>3, <1>4, <2>2, <2>3, <2>4, <2>5, StepKeeps DEF top
<1>5. CASE /\ fbcon.ready /\ c = "newline" /\ latest' = Logged(c) /\ UNCHANGED <<fbcon, ints>>
           /\ \E garbage \in BOOLEAN : Becomes(Feeding(c, garbage))
  <2>1. PICK garbage \in BOOLEAN : Becomes(Feeding(c, garbage))
    BY <1>5
  <2>2. PICK w : w = Feeding(c, garbage)
    OBVIOUS
  <2>3. w \in Writers /\ w.colour = top.colour /\ w.critical = top.critical /\ w.at = "store" /\ w.c = c /\ IsRow(w.y)
    BY <1>1, <2>2, TopRecords
  <2>4. /\ latest' \in Logs /\ latest'.c = c /\ c # "a"
        /\ \A i \in Below : writers[i].at \in LineFeed => latest'.late
    BY <1>5, LoggedLate
  <2>5. fbcon' = fbcon /\ ints' = ints /\ Becomes(w)
    BY <1>5, <2>1, <2>2
  <2>. HIDE DEF top
  <2>. QED
    BY <1>1, <1>2, <1>3, <1>5, <2>3, <2>4, <2>5, StepKeeps DEF top
<1>6. CASE /\ ~fbcon.ready \/ (c # "newline" /\ ~Drawable(c))
           /\ fbcon' = [fbcon EXCEPT !.x = IF fbcon.ready /\ c = "return" THEN 0 ELSE @]
           /\ Becomes(Returned) /\ latest' = Logged(c) /\ UNCHANGED ints
  <2>1. PICK w : w = Returned
    OBVIOUS
  <2>2. w \in Writers /\ w.colour = top.colour /\ w.critical = top.critical /\ w.at = "free" /\ IsRow(w.y)
    BY <1>1, <2>1, TopRecords
  <2>3. /\ latest' \in Logs /\ latest'.c # "a"
        /\ \A i \in Below : writers[i].at \in LineFeed => latest'.late
    BY <1>6, LoggedLate DEF Drawable
  <2>4. /\ fbcon' \in Screens /\ fbcon'.ready = fbcon.ready /\ fbcon'.colour = fbcon.colour /\ fbcon'.y = fbcon.y
        /\ fbcon'.picture = fbcon.picture /\ fbcon'.x # Columns
    BY <1>2, <1>6 DEF Screens
  <2>5. ints' = ints /\ Becomes(w) /\ w.at \notin LineFeed
    BY <1>6, <2>1, <2>2 DEF LineFeed
  <2>. HIDE DEF top
  <2>. QED
    BY <1>1, <1>2, <1>3, <2>2, <2>3, <2>4, <2>5, StepKeeps DEF top
<1>. QED
  BY <1>4, <1>5, <1>6 DEF Paint

\* A character drawn in the cell of the cursor replaces what was there.
LEMMA DrawnGood ==
  ASSUME ScreenFits, LogInv, NEW c \in Characters, writers # <<>>, Last(writers).at = "draw"
  PROVE  Good(Drawn(c)) /\ \E g \in Drawn(c) : g.c = c /\ g.colour = fbcon.colour
<1>. DEFINE g == Glyph(fbcon.x, fbcon.y, c, fbcon.colour, Late)
<1>1. /\ Columns \in Nat \ {0} /\ Scale \in Nat \ {0} /\ fbcon.x \in 0..Columns - 1 /\ fbcon.y \in Nat
      /\ fbcon.colour \in Colours /\ IsRow(fbcon.y) /\ Good(fbcon.picture) /\ MaxY \in Int
  BY OnTop, ScreenSizes DEF Screens
<1>2. Late \in BOOLEAN /\ g = [left |-> fbcon.x * Scale * (FontWidth + 1), top |-> fbcon.y * FontHeight, c |-> c,
                               colour |-> fbcon.colour, late |-> Late]
  BY DEF Glyph, Late
<1>3. g.left \in Nat /\ g.top \in Nat
  BY <1>1, <1>2 DEF FontWidth, FontHeight
<1>4. g \in [left : Nat, top : Nat, c : Characters, colour : Colours, late : BOOLEAN]
  BY <1>1, <1>2, <1>3
<1>5. ~Late => fbcon.y + Scale <= MaxY
  <2>1. PageFull(fbcon.y) => \E i \in Below : Turning(writers[i])
    BY OnTop DEF Turning
  <2>2. PageFull(fbcon.y) => Late
    BY <2>1 DEF Turning, Late, LineFeed, Below
  <2>. QED
    BY <1>1, <2>2 DEF PageFull
<1>6. InCell(g)
  <2>1. g.left = fbcon.x * Scale * (FontWidth + 1) /\ g.top = fbcon.y * FontHeight /\ g.late = Late
    BY <1>2
  <2>. HIDE DEF g
  <2>. QED
    BY <1>1, <1>5, <2>1, Zenon DEF InCell
<1>7. Drawn(c) = {old \in fbcon.picture : old.left # g.left \/ old.top # g.top} \cup {g}
  BY DEF Drawn
<1>. HIDE DEF g
<1>8. Good(Drawn(c))
  BY <1>1, <1>4, <1>6, <1>7 DEF Good, Pictures
<1>. QED
  BY <1>2, <1>7, <1>8

LEMMA DrawKeeps == ASSUME ScreenFits, LogInv, Draw PROVE LogInv'
<1>. DEFINE top == Last(writers)
<1>1. writers # <<>> /\ top.at = "draw"
  BY DEF Draw
<1>2. /\ fbcon \in Screens /\ ints \in BOOLEAN /\ Columns \in Nat \ {0}
      /\ top \in Writers /\ IsRow(fbcon.y) /\ fbcon.ready /\ fbcon.x # Columns
  BY <1>1, OnTop
<1>3. PageFull(fbcon.y) => \E i \in Below : Turning(writers[i])
  BY <1>1, OnTop DEF Turning
<1>4. PICK c \in Characters : c = top.c
  BY <1>2 DEF Writers
<1>5. /\ fbcon' = [fbcon EXCEPT !.x = @ + 1, !.picture = Drawn(c)] /\ latest' = Logged(c)
      /\ IF fbcon.x + 1 >= Columns
         THEN Becomes(Feeding(c, ints)) /\ ints' = FALSE
         ELSE Becomes(Returned) /\ UNCHANGED ints
  BY <1>4 DEF Draw, Columns
<1>6. Good(Drawn(c)) /\ \E g \in Drawn(c) : g.c = c /\ g.colour = fbcon.colour
  BY <1>1, DrawnGood
<1>7. /\ fbcon' \in Screens /\ fbcon'.ready = fbcon.ready /\ fbcon'.colour = fbcon.colour /\ fbcon'.y = fbcon.y
      /\ fbcon'.picture = Drawn(c) /\ fbcon'.x = fbcon.x + 1
  <2>1. Drawn(c) \in Pictures
    BY <1>6 DEF Good
  <2>2. fbcon.x + 1 \in 0..Columns
    BY <1>2 DEF Screens
  <2>. QED
    BY <1>2, <1>5, <2>1, <2>2 DEF Screens
<1>8. /\ latest' \in Logs /\ latest'.c = c /\ latest'.colour = fbcon.colour
      /\ \A i \in Below : writers[i].at \in LineFeed => latest'.late
  BY <1>2, <1>5, LoggedLate
<1>9. latest'.c = "a" => Shown(latest', fbcon'.picture)
  BY ONLY <1>6, <1>7, <1>8 DEF Shown
<1>10. CASE fbcon.x + 1 >= Columns
  <2>1. PICK w : w = Feeding(c, ints)
    OBVIOUS
  <2>2. w \in Writers /\ w.colour = top.colour /\ w.critical = top.critical /\ w.at = "store" /\ w.c = c /\ IsRow(w.y)
    BY <1>1, <1>2, <2>1, TopRecords
  <2>3. ints' = FALSE /\ Becomes(w)
    BY <1>5, <1>10, <2>1
  <2>. HIDE DEF top
  <2>. QED
    BY <1>1, <1>2, <1>3, <1>6, <1>7, <1>8, <1>9, <2>2, <2>3, StepKeeps DEF top
<1>11. CASE ~(fbcon.x + 1 >= Columns)
  <2>1. PICK w : w = Returned
    OBVIOUS
  <2>2. w \in Writers /\ w.colour = top.colour /\ w.critical = top.critical /\ w.at = "free" /\ IsRow(w.y)
    BY <1>1, <1>2, <2>1, TopRecords
  <2>3. ints' = ints /\ Becomes(w) /\ w.at \notin LineFeed
    BY <1>5, <1>11, <2>1, <2>2 DEF LineFeed
  <2>4. fbcon'.x # Columns
    BY <1>2, <1>7, <1>11 DEF Screens
  <2>. HIDE DEF top
  <2>. QED
    BY <1>1, <1>2, <1>3, <1>6, <1>7, <1>8, <1>9, <2>2, <2>3, <2>4, StepKeeps DEF top
<1>. QED
  BY <1>10, <1>11

\* The steps of a line feed, between any two of which a handler may log.
LEMMA StoreKeeps == ASSUME ScreenFits, LogInv, StoreRow PROVE LogInv'
<1>. DEFINE top == Last(writers)
<1>1. writers # <<>> /\ top.at = "store" /\ top.again = FALSE
  BY DEF StoreRow, WriterAt
<1>2. /\ fbcon \in Screens /\ ints \in BOOLEAN /\ latest \in Logs /\ fbcon.ready
      /\ top \in Writers /\ IsRow(top.y) /\ Good(fbcon.picture) /\ (fbcon.x = Columns => ~ints)
      /\ latest.late \/ latest.c = top.c
      /\ \A i \in Below : writers[i].at \in LineFeed => latest.late \/ latest.c = writers[i].c
      /\ latest.c = "a" => \/ Due(top) \/ \E i \in Below : Due(writers[i])
                           \/ Shown(latest, fbcon.picture)
  BY <1>1, OnTop DEF LineFeed
<1>3. PICK w : w = [top EXCEPT !.at = "start"]
  OBVIOUS
<1>4. /\ w \in Writers /\ w.colour = top.colour /\ w.critical = top.critical /\ w.at = "start" /\ w.c = top.c
      /\ w.y = top.y /\ w.again = top.again
  BY <1>2, <1>3 DEF Writers
<1>5. Becomes(w) /\ ints' = ints /\ latest' = latest
  BY <1>3 DEF StoreRow
<1>6. /\ fbcon' \in Screens /\ fbcon'.ready = fbcon.ready /\ fbcon'.colour = fbcon.colour /\ fbcon'.y = top.y
      /\ fbcon'.picture = fbcon.picture /\ fbcon'.x = fbcon.x
  BY <1>2 DEF StoreRow, Screens, Writers
<1>7. PageFull(fbcon'.y) => Turning(w)
  BY <1>4, <1>6 DEF Turning
<1>8. ~Due(top)
  BY <1>1 DEF Due
<1>. HIDE DEF top
<1>. QED
  BY <1>1, <1>2, <1>4, <1>5, <1>6, <1>7, <1>8, StepKeeps DEF top

LEMMA LineKeeps == ASSUME ScreenFits, LogInv, StartLine PROVE LogInv'
<1>. DEFINE top == Last(writers)
<1>1. writers # <<>> /\ top.at = "start" /\ top.again = FALSE
  BY DEF StartLine, WriterAt
<1>2. /\ fbcon \in Screens /\ ints \in BOOLEAN /\ latest \in Logs /\ fbcon.ready /\ Columns \in Nat \ {0}
      /\ top \in Writers /\ IsRow(top.y) /\ Good(fbcon.picture) /\ IsRow(fbcon.y)
      /\ PageFull(fbcon.y) => Turning(top) \/ \E i \in Below : Turning(writers[i])
      /\ latest.late \/ latest.c = top.c
      /\ \A i \in Below : writers[i].at \in LineFeed => latest.late \/ latest.c = writers[i].c
      /\ latest.c = "a" => \/ Due(top) \/ \E i \in Below : Due(writers[i])
                           \/ Shown(latest, fbcon.picture)
  BY <1>1, OnTop DEF LineFeed
<1>3. PICK w : w = [top EXCEPT !.at = "test"]
  OBVIOUS
<1>4. /\ w \in Writers /\ w.colour = top.colour /\ w.critical = top.critical /\ w.at = "test" /\ w.c = top.c
      /\ w.y = top.y /\ w.again = top.again
  BY <1>2, <1>3 DEF Writers
<1>5. Becomes(w) /\ ints' = ints /\ latest' = latest
  BY <1>3 DEF StartLine
<1>6. /\ fbcon' \in Screens /\ fbcon'.ready = fbcon.ready /\ fbcon'.colour = fbcon.colour /\ fbcon'.y = fbcon.y
      /\ fbcon'.picture = fbcon.picture /\ fbcon'.x # Columns
  <2>1. 0 \in 0..Columns /\ 0 # Columns /\ fbcon' = [fbcon EXCEPT !.x = 0]
    BY <1>2 DEF StartLine
  <2>. QED
    BY ONLY <1>2, <2>1 DEF Screens
<1>7. Turning(top) => Turning(w)
  BY <1>4 DEF Turning
<1>8. ~Due(top)
  BY <1>1 DEF Due
<1>. HIDE DEF top
<1>. QED
  BY <1>1, <1>2, <1>4, <1>5, <1>6, <1>7, <1>8, StepKeeps DEF top

\* What is cleared with the page in the middle of its line feed is no longer logged.
LEMMA ClearedLog ==
  ASSUME latest \in Logs, NEW c, latest.late \/ latest.c = c, latest' = Cleared
  PROVE  /\ latest' \in Logs /\ (latest'.c = "a" => c = "a") /\ latest'.late = latest.late
         /\ (~latest.late => latest' = latest)
BY DEF Cleared, Logs, Characters

LEMMA TestKeeps == ASSUME ScreenFits, LogInv, TestRow PROVE LogInv'
<1>. DEFINE top == Last(writers)
<1>1. writers # <<>> /\ top.at = "test" /\ top.again = FALSE
  BY DEF TestRow, WriterAt
<1>2. /\ fbcon \in Screens /\ ints \in BOOLEAN /\ latest \in Logs /\ fbcon.ready
      /\ top \in Writers /\ IsRow(top.y) /\ Good(fbcon.picture) /\ IsRow(fbcon.y) /\ fbcon.x # Columns
      /\ PageFull(fbcon.y) => Turning(top) \/ \E i \in Below : Turning(writers[i])
      /\ latest.late \/ latest.c = top.c
      /\ \A i \in Below : writers[i].at \in LineFeed => latest.late \/ latest.c = writers[i].c
      /\ latest.c = "a" => \/ Due(top) \/ \E i \in Below : Due(writers[i])
                           \/ Shown(latest, fbcon.picture)
  BY <1>1, OnTop DEF LineFeed
<1>3. ~Due(top)
  BY <1>1 DEF Due
<1>4. CASE /\ fbcon' = [fbcon EXCEPT !.picture = ResetFb] /\ latest' = Cleared
           /\ Becomes([Last(writers) EXCEPT !.at = "clear"]) /\ UNCHANGED ints
  <2>1. PICK w : w = [top EXCEPT !.at = "clear"]
    OBVIOUS
  <2>2. /\ w \in Writers /\ w.colour = top.colour /\ w.critical = top.critical /\ w.at = "clear" /\ w.c = top.c
        /\ w.y = top.y
    BY <1>2, <2>1 DEF Writers
  <2>3. Becomes(w) /\ ints' = ints
    BY <1>4, <2>1
  <2>4. /\ fbcon' \in Screens /\ fbcon'.ready = fbcon.ready /\ fbcon'.colour = fbcon.colour /\ fbcon'.y = fbcon.y
        /\ fbcon'.picture = {} /\ fbcon'.x = fbcon.x /\ Good({})
    BY <1>2, <1>4 DEF ResetFb, Screens, Pictures, Good
  <2>5. Turning(top) => Turning(w)
    BY <1>1, <2>2 DEF Turning
  <2>6. /\ latest' \in Logs /\ (latest'.c = "a" => w.c = "a") /\ latest'.late = latest.late
        /\ (~latest.late => latest' = latest)
    BY <1>2, <1>4, <2>2, ClearedLog
  <2>7. latest'.c = "a" => Due(w)
    BY <2>2, <2>6 DEF Due
  <2>8. \A i \in Below : writers[i].at \in LineFeed => latest'.late \/ latest'.c = writers[i].c
    BY ONLY <1>2, <2>6
  <2>9. latest'.late \/ latest'.c = w.c
    BY ONLY <1>2, <2>2, <2>6
  <2>. HIDE DEF top
  <2>. QED
    BY <1>1, <1>2, <2>2, <2>3, <2>4, <2>5, <2>6, <2>7, <2>8, <2>9, StepKeeps DEF top
<1>5. ASSUME NEW y \in {top.y, fbcon.y}, ~PageFull(y), ints' = (ints \/ top.on), Becomes(Returned),
             UNCHANGED <<fbcon, latest>>
      PROVE  LogInv'
  <2>1. PICK w : w = Returned
    OBVIOUS
  <2>2. w \in Writers /\ w.colour = top.colour /\ w.critical = top.critical /\ w.at = "free" /\ IsRow(w.y)
    <3>1. "a" \in Characters /\ FALSE \in BOOLEAN
      BY DEF Characters
    <3>. QED
      BY <1>1, <2>1, <3>1, TopRecords
  <2>3. Becomes(w) /\ ints' \in BOOLEAN /\ fbcon' = fbcon /\ latest' = latest /\ w.at \notin LineFeed
    BY <1>2, <1>5, <2>1, <2>2 DEF Writers, LineFeed
  <2>4. PageFull(fbcon.y) => \E i \in Below : Turning(writers[i])
    BY <1>2, <1>5 DEF Turning
  <2>. HIDE DEF top
  <2>. QED
    BY <1>1, <1>2, <1>3, <2>2, <2>3, <2>4, StepKeeps DEF top
<1>. QED
  BY <1>4, <1>5 DEF TestRow

LEMMA TurnKeeps == ASSUME ScreenFits, LogInv, TurnPage PROVE LogInv'
<1>. DEFINE top == Last(writers)
<1>1. writers # <<>> /\ top.at = "clear" /\ top.again = FALSE
  BY DEF TurnPage, WriterAt
<1>2. /\ fbcon \in Screens /\ ints \in BOOLEAN /\ latest \in Logs /\ fbcon.ready
      /\ top \in Writers /\ Good(fbcon.picture) /\ fbcon.x # Columns
      /\ latest.late \/ latest.c = top.c
      /\ \A i \in Below : writers[i].at \in LineFeed => latest.late \/ latest.c = writers[i].c
  BY <1>1, OnTop DEF LineFeed
<1>3. PICK picture \in SUBSET fbcon.picture : fbcon' = [fbcon EXCEPT !.y = 0, !.picture = picture]
  BY DEF TurnPage
<1>4. /\ latest' = Cleared /\ ints' = (ints \/ top.on)
      /\ Becomes([top EXCEPT !.at = "free", !.again = TRUE, !.y = 0, !.on = FALSE])
  BY DEF TurnPage, PaintAgain
<1>5. PICK w : w = [top EXCEPT !.at = "free", !.again = TRUE, !.y = 0, !.on = FALSE]
  OBVIOUS
<1>6. /\ w \in Writers /\ w.colour = top.colour /\ w.critical = top.critical /\ w.at = "free" /\ w.c = top.c
      /\ w.y = 0 /\ w.again
  BY <1>2, <1>5 DEF Writers
<1>7. Becomes(w) /\ ints' \in BOOLEAN /\ w.at \notin LineFeed
  BY <1>2, <1>4, <1>5, <1>6 DEF Writers, LineFeed
<1>8. Good(picture)
  BY <1>2, <1>3 DEF Good, Pictures
<1>9. /\ fbcon' \in Screens /\ fbcon'.ready = fbcon.ready /\ fbcon'.colour = fbcon.colour /\ fbcon'.y = 0
      /\ fbcon'.picture = picture /\ fbcon'.x = fbcon.x
  BY <1>2, <1>3, <1>8 DEF Good, Screens
<1>10. IsRow(0) /\ ~PageFull(0)
  BY ScreenSizes
<1>11. /\ latest' \in Logs /\ (latest'.c = "a" => w.c = "a") /\ latest'.late = latest.late
       /\ (~latest.late => latest' = latest)
  BY <1>2, <1>4, <1>6, ClearedLog
<1>12. latest'.c = "a" => Due(w)
  BY <1>6, <1>11 DEF Due
<1>13. \A i \in Below : writers[i].at \in LineFeed => latest'.late \/ latest'.c = writers[i].c
  BY ONLY <1>2, <1>11
<1>. HIDE DEF top
<1>. QED
  BY <1>1, <1>2, <1>6, <1>7, <1>8, <1>9, <1>10, <1>11, <1>12, <1>13, StepKeeps DEF top

LEMMA LogStep == ASSUME ScreenFits, LogInv, [LogNext]_logVars PROVE LogInv'
<1>1. CASE UNCHANGED logVars
  BY <1>1 DEF logVars, LogInv, LogTypes, CellsInv, ColoursInv, LatestInv
<1>2. CASE Initialize
  <2>1. fbcon \in Screens /\ Columns \in Nat \ {0} /\ IsRow(0) /\ ~PageFull(0)
    BY ScreenSizes DEF LogInv, LogTypes
  <2>2. /\ fbcon' \in Screens /\ fbcon'.x = 0 /\ fbcon'.y = 0 /\ fbcon'.colour = "white"
        /\ fbcon'.picture = fbcon.picture
    <3>1. fbcon' = [fbcon EXCEPT !.ready = TRUE, !.x = 0, !.y = 0, !.colour = "white"] /\ 0 \in 0..Columns
      BY <1>2, <2>1 DEF Initialize
    <3>. QED
      BY ONLY <2>1, <3>1 DEF Screens, Colours
  <2>3. writers = <<>> /\ UNCHANGED <<writers, ints, latest>>
    BY <1>2 DEF Initialize
  <2>4. LogTypes' /\ CellsInv'
    BY <2>1, <2>2, <2>3 DEF LogInv, LogTypes, CellsInv
  <2>5. ColoursInv' /\ LatestInv'
    BY <2>2, <2>3 DEF LogInv, ColoursInv, LatestInv
  <2>. QED
    BY <2>4, <2>5 DEF LogInv
<1>3. CASE EndWrite
  BY <1>3, EndKeeps
<1>4. CASE SetInterrupts
  <2>1. writers = <<>> /\ UNCHANGED <<fbcon, writers, latest>> /\ ints' \in BOOLEAN
    BY <1>4 DEF SetInterrupts
  <2>. QED
    BY <2>1 DEF LogInv, LogTypes, CellsInv, ColoursInv, LatestInv
<1>5. CASE Repaint
  <2>1. WriterAt("free", TRUE) /\ Paint(Last(writers).c) /\ writers # <<>>
    BY <1>5 DEF Repaint, WriterAt
  <2>2. Last(writers).c \in Characters
    BY <2>1, OnTop DEF Writers
  <2>. QED
    BY <2>1, <2>2, PaintKeeps
<1>6. ASSUME NEW critical \in BOOLEAN, Write(critical) \/ Interrupt(critical) PROVE LogInv'
  BY <1>6, WritersKeep DEF Write, Interrupt
<1>7. ASSUME NEW c \in Characters, PutChar(c) PROVE LogInv'
  BY <1>7, PaintKeeps DEF PutChar
<1>8. CASE Draw \/ StoreRow \/ StartLine \/ TestRow \/ TurnPage
  BY <1>8, DrawKeeps, StoreKeeps, LineKeeps, TestKeeps, TurnKeeps
<1>. QED
  BY <1>1, <1>2, <1>3, <1>4, <1>5, <1>6, <1>7, <1>8 DEF LogNext

LEMMA LogPromises == ASSUME ScreenFits, LogInv PROVE LogReadable
<1>1. \A g, h \in fbcon.picture : (~g.late => Inside(g)) /\ (Overlap(g, h) => g = h)
  BY CellsInside, CellsApart DEF LogInv, CellsInv, Good
<1>2. DOMAIN writers = 1..Len(writers)
  BY DEF LogInv, LogTypes
<1>3. (latest.c = "a" /\ \A i \in DOMAIN writers : ~Due(writers[i]))
        => \E g \in fbcon.picture : g.c = "a" /\ g.colour = latest.colour
  BY <1>2 DEF LogInv, LatestInv
<1>4. writers = <<>> => fbcon.colour = "white"
  BY DEF LogInv, ColoursInv
<1>. QED
  BY <1>1, <1>3, <1>4 DEF LogReadable

\* On every screen that a character fits on, at any scale, wherever lines wrap, pages turn and
\* handlers break in, between the stores of a line feed too, however deep they are nested: glyphs
\* lie apart, and inside the frame buffer unless a handler drew them in the middle of a line feed,
\* the last character logged is there in its colour or one is to be painted again, unless a handler
\* logged it in the middle of a line feed that then cleared the page, and between writes the colour
\* is the ordinary one (FbConPutCharWithFactor, SerialPortWriteCritical).
THEOREM LogStaysReadable == ASSUME ScreenFits PROVE LogSpec => []LogReadable
<1>1. LogInit => LogInv
  BY LogStarts
<1>2. LogInv /\ [LogNext]_logVars => LogInv'
  BY LogStep
<1>3. LogInv => LogReadable
  BY LogPromises
<1>. QED
  BY <1>1, <1>2, <1>3, PTL DEF LogSpec

-----------------------------------------------------------------------------
(***************************************************************************)
(* The pipe of the DMA engine: any size of the FIFO, any length of a       *)
(* descriptor, any number of transfers and of errors on the bus.           *)
(***************************************************************************)
BamAssumption == FifoSize \in Nat \ {0} /\ MaxLen \in Nat \ {0} /\ Transfers \in Nat /\ BusErrors \in Nat

Descs == [at : Nat, size : Nat, flags : SUBSET {"EOT", "INT"}]
BamPCs == {"off", "bam", "pipe", "ready", "queue", "wait", "clear", "done", "failed"}
PipeTypes == pipe \in [current : Places, offset : 1..FifoSize, initialized : BOOLEAN, fifo : [Places -> Descs]]
EngineTypes ==
  hw \in [on : BOOLEAN, read : Places, event : Places, status : SUBSET {"end", "processed", "error"},
          moved : Seq(Nat), errors : Nat]
JobTypes ==
  job \in [pc : BamPCs, ask : [id : {0, 1}, len : Nat], queued : Nat, awaits : {"end", "processed"}, left : Int]

\* The place i descriptors after r, and the bytes 1 to k of a transfer.
Place(r, i) == IF r + i < FifoSize THEN r + i ELSE r + i - FifoSize
UpTo(k) == [i \in 1..k |-> i]

\* A transfer of len bytes cut into n pieces: piece i ends with byte cut[i], and its descriptor
\* lies i - 1 places after the first.
Cuts(n, len) == {cut \in [0..n -> 0..len] : cut[0] = 0 /\ cut[n] = len /\ \A i \in 1..n : cut[i - 1] <= cut[i]}
LieFrom(fifo, r, n, cut) ==
  \A i \in 1..n : fifo[Place(r, i - 1)].at = cut[i - 1] + 1 /\ fifo[Place(r, i - 1)].size = cut[i] - cut[i - 1]

\* The transfer under way has n pieces from place r, of which k have moved; a transfer of a whole
\* FIFO never starts.
Begun(r, n, k, cut) ==
  /\ k <= n /\ cut \in Cuts(n, job.ask.len) /\ LieFrom(pipe.fifo, r, n, cut)
  /\ hw.read = Place(r, k) /\ hw.moved = UpTo(cut[k])
  /\ n < FifoSize => hw.event = Place(r, n)
  /\ n = FifoSize => k = 0 /\ hw.event = r /\ hw.status \subseteq {"error"} /\ BamAt("wait")
Quiet == hw.read = hw.event /\ hw.status \subseteq {"error"}
PhaseInv ==
  /\ ~BamAt("queue") => job.queued = 0
  /\ BamAt("bam") => job.ask.len = 0
  /\ BamAt("off") \/ BamAt("pipe") => job.ask.len = 0 /\ hw.moved = <<>> /\ Quiet /\ hw.read = 0
  /\ BamAt("ready") => Quiet /\ pipe.current = hw.read /\ pipe.offset = hw.read + 1 /\ hw.moved = UpTo(job.ask.len)
  /\ BamAt("queue") => /\ Quiet /\ pipe.offset = hw.read + 1 /\ hw.moved = <<>>
                       /\ job.queued \in 1..FifoSize - 1 /\ pipe.current = Place(hw.read, job.queued)
                       /\ \E cut \in Cuts(job.queued, job.ask.len) : LieFrom(pipe.fifo, hw.read, job.queued, cut)
  /\ BamAt("wait") \/ BamAt("clear") \/ BamAt("done") =>
       \E r \in Places, n \in 0..FifoSize, k \in 0..FifoSize : \E cut \in Cuts(n, job.ask.len) : Begun(r, n, k, cut)
  /\ BamAt("done") => Quiet
BamInv == PipeTypes /\ EngineTypes /\ JobTypes /\ PhaseInv

-----------------------------------------------------------------------------
LEMMA UpFromZero ==
  ASSUME NEW n \in Nat, NEW T, 0 \in T, \A i \in 1..n : i - 1 \in T => i \in T
  PROVE  \A i \in 0..n : i \in T
<1>. DEFINE S == {k \in 0..n : \A j \in 0..k : j \in T}
<1>1. S \in SUBSET (0..n) /\ 0 \in S
  OBVIOUS
<1>2. PICK c \in S : \A d \in S : d <= c
  <2>. HIDE DEF S
  <2>. QED
    BY <1>1, GreatestOf
<1>3. c < n => c + 1 \in S
  OBVIOUS
<1>. QED
  BY <1>2, <1>3

\* Walking around the FIFO.
LEMMA AroundModulo == ASSUME NEW N \in Nat \ {0} PROVE \A x \in 0..2 * N - 1 : x % N = IF x < N THEN x ELSE x - N
<1>1. \A x \in 0..N - 1 : x % N = x
  OBVIOUS
<1>2. \A x \in N..2 * N - 1 : x % N = x - N
  OBVIOUS
<1>. QED
  BY <1>1, <1>2

LEMMA PlacesFollow ==
  ASSUME BamAssumption, NEW r \in Places
  PROVE  /\ Place(r, 0) = r /\ Place(r, FifoSize) = r
         /\ \A i \in 0..FifoSize : Place(r, i) \in Places
         /\ \A i \in 0..FifoSize - 1 :
              /\ InFifo(r + i) = Place(r, i)
              /\ NextPlace(Place(r, i)) = Place(r, i + 1) /\ (Place(r, i) + 1) % FifoSize = Place(r, i + 1)
         /\ \A i, j \in 0..FifoSize - 1 : Place(r, i) = Place(r, j) => i = j
<1>. DEFINE F == FifoSize
<1>1. F \in Nat \ {0} /\ r \in 0..F - 1
  BY DEF BamAssumption, Places
<1>2. \A x \in 0..2 * F - 1 : x % F = IF x < F THEN x ELSE x - F
  BY <1>1, AroundModulo
<1>3. /\ Place(r, 0) = r /\ Place(r, F) = r
      /\ \A i \in 0..F : Place(r, i) \in 0..F - 1
      /\ \A i, j \in 0..F - 1 : Place(r, i) = Place(r, j) => i = j
  BY <1>1 DEF Place
<1>4. ASSUME NEW i \in 0..F - 1
      PROVE /\ InFifo(r + i) = Place(r, i)
            /\ NextPlace(Place(r, i)) = Place(r, i + 1) /\ (Place(r, i) + 1) % F = Place(r, i + 1)
  <2>1. r + i \in 0..2 * F - 1 /\ Place(r, i) + 1 \in 0..2 * F - 1
    BY <1>1, <1>3
  <2>2. NextPlace(Place(r, i)) = Place(r, i + 1)
    BY <1>1 DEF NextPlace, Place
  <2>3. InFifo(r + i) = Place(r, i)
    <3>1. \A x \in 0..2 * F - 1 : InFifo(x) = IF x < F THEN x ELSE x - F
      BY <1>2 DEF InFifo
    <3>2. InFifo(r + i) = IF r + i < F THEN r + i ELSE r + i - F
      BY <1>1, <2>1, <3>1
    <3>. QED
      BY <3>2 DEF Place
  <2>4. (Place(r, i) + 1) % F = Place(r, i + 1)
    BY <1>1, <1>2, <2>1 DEF Place
  <2>. QED
    BY <2>2, <2>3, <2>4
<1>. QED
  BY <1>1, <1>3, <1>4 DEF Places

\* Bytes 1 to k, the bytes after them, and how much of a transfer they are.
LEMMA BytesInOrder ==
  ASSUME NEW k \in Nat, NEW m \in Nat, k <= m
  PROVE  /\ UpTo(k) \in Seq(Nat) /\ Len(UpTo(k)) = k /\ UpTo(0) = <<>>
         /\ IsPrefix(UpTo(k), UpTo(m))
         /\ UpTo(k) \o [i \in 1..(m - k) |-> k + 1 + i - 1] = UpTo(m)
<1>1. UpTo(k) \in Seq(Nat) /\ Len(UpTo(k)) = k /\ UpTo(m) \in Seq(Nat) /\ Len(UpTo(m)) = m /\ UpTo(0) = <<>>
  BY DEF UpTo
<1>2. SubSeq(UpTo(k), 1, k) = [i \in 1..k |-> i] /\ SubSeq(UpTo(m), 1, k) = [i \in 1..k |-> i]
  BY DEF UpTo
<1>3. IsPrefix(UpTo(k), UpTo(m))
  BY <1>1, <1>2 DEF IsPrefix
<1>. DEFINE rest == [i \in 1..(m - k) |-> k + 1 + i - 1]
<1>4. rest \in Seq(Nat) /\ Len(rest) = m - k
  OBVIOUS
<1>5. UpTo(k) \o rest \in Seq(Nat) /\ Len(UpTo(k) \o rest) = m
  BY <1>1, <1>4
<1>6. \A i \in 1..m : (UpTo(k) \o rest)[i] = i
  <2>1. \A i \in 1..m : (UpTo(k) \o rest)[i] = IF i <= k THEN UpTo(k)[i] ELSE rest[i - k]
    <3>. HIDE DEF rest
    <3>. QED
      <4>1. \A i \in 1..Len(UpTo(k)) + Len(rest) :
              (UpTo(k) \o rest)[i] = IF i <= Len(UpTo(k)) THEN UpTo(k)[i] ELSE rest[i - Len(UpTo(k))]
        BY <1>1, <1>4, ConcatProperties, Zenon
      <4>2. Len(UpTo(k)) + Len(rest) = m
        BY <1>1, <1>4
      <4>. QED
        BY <1>1, <4>1, <4>2
  <2>. QED
    BY <2>1 DEF UpTo
<1>7. UpTo(k) \o rest = UpTo(m)
  <2>. HIDE DEF rest
  <2>. QED
    BY <1>1, <1>5, <1>6 DEF UpTo
<1>. QED
  BY <1>1, <1>3, <1>7

-----------------------------------------------------------------------------
(* Descriptors in the FIFO.                                                 *)

Pipes == [current : Places, offset : 1..FifoSize, initialized : BOOLEAN, fifo : [Places -> Descs]]

LEMMA OneDescAdded ==
  ASSUME NEW p \in Pipes, NEW desc
  PROVE  AddOneDesc(p, desc) =
           [current |-> NextPlace(p.current), offset |-> p.offset, initialized |-> p.initialized,
            fifo |-> [x \in Places |-> IF x = p.current THEN desc ELSE p.fifo[x]]]
<1>. DEFINE f == [x \in Places |-> IF x = p.current THEN desc ELSE p.fifo[x]]
            c == NextPlace(p.current)
<1>1. AddOneDesc(p, desc) = [p EXCEPT !.fifo = f, !.current = c]
  BY DEF AddOneDesc
<1>. HIDE DEF f, c
<1>2. p = [current |-> p.current, offset |-> p.offset, initialized |-> p.initialized, fifo |-> p.fifo]
  BY DEF Pipes
<1>3. PICK g : g = [p EXCEPT !.fifo = f, !.current = c]
  OBVIOUS
<1>4. g = [current |-> c, offset |-> p.offset, initialized |-> p.initialized, fifo |-> f]
  BY <1>2, <1>3
<1>5. AddOneDesc(p, desc) = g
  BY <1>1, <1>3, Zenon
<1>. QED
  BY <1>4, <1>5 DEF f, c

\* How many places x is ahead of r, and the pipe when i descriptors have been added.
Ahead(r, x) == IF x >= r THEN x - r ELSE x - r + FifoSize
WithDescs(p, descs, i) ==
  [current |-> Place(p.current, i), offset |-> p.offset, initialized |-> p.initialized,
   fifo |-> [x \in Places |->
     IF Ahead(p.current, x) < i THEN descs[Ahead(p.current, x) + 1] ELSE p.fifo[x]]]

LEMMA AheadOfPlace ==
  ASSUME BamAssumption, NEW r \in Places
  PROVE  /\ \A x \in Places : Ahead(r, x) \in 0..FifoSize - 1
         /\ \A x \in Places, i \in 0..FifoSize - 1 : x = Place(r, i) <=> Ahead(r, x) = i
BY DEF BamAssumption, Places, Place, Ahead

LEMMA DescsFollow ==
  ASSUME BamAssumption, NEW p \in Pipes, NEW descs \in Seq(Descs), Len(descs) <= FifoSize
  PROVE  /\ WithDescs(p, descs, 0) = p
         /\ \A i \in 0..Len(descs) : WithDescs(p, descs, i) \in Pipes
         /\ \A i \in 1..Len(descs) :
              WithDescs(p, descs, i) = AddOneDesc(WithDescs(p, descs, i - 1), descs[i])
<1>. DEFINE r == p.current
            W(i) == WithDescs(p, descs, i)
<1>1. /\ r \in Places /\ p.fifo \in [Places -> Descs]
      /\ p = [current |-> r, offset |-> p.offset, initialized |-> p.initialized, fifo |-> p.fifo]
      /\ p.offset \in 1..FifoSize /\ p.initialized \in BOOLEAN
  BY DEF Pipes
<1>2. Len(descs) \in 0..FifoSize /\ \A i \in 1..Len(descs) : descs[i] \in Descs
  BY DEF BamAssumption
<1>3. /\ Place(r, 0) = r /\ \A i \in 0..FifoSize : Place(r, i) \in Places
      /\ \A i \in 0..FifoSize - 1 : NextPlace(Place(r, i)) = Place(r, i + 1)
  BY <1>1, PlacesFollow
<1>4. /\ \A x \in Places : Ahead(r, x) \in 0..FifoSize - 1
      /\ \A x \in Places, i \in 0..FifoSize - 1 : x = Place(r, i) <=> Ahead(r, x) = i
  BY <1>1, AheadOfPlace
<1>. HIDE DEF r
<1>5. W(0) = p
  <2>1. [x \in Places |-> IF Ahead(r, x) < 0 THEN descs[Ahead(r, x) + 1] ELSE p.fifo[x]] = p.fifo
    BY <1>1, <1>4
  <2>. QED
    BY <1>1, <1>3, <2>1 DEF WithDescs, r
<1>6. ASSUME NEW i \in 0..Len(descs) PROVE W(i) \in Pipes
  <2>1. i \in 0..FifoSize /\ i \in Nat
    BY <1>2 DEF BamAssumption
  <2>2. \A x \in Places : (IF Ahead(r, x) < i THEN descs[Ahead(r, x) + 1] ELSE p.fifo[x]) \in Descs
    BY <1>1, <1>2, <1>4, <2>1
  <2>. QED
    BY <1>1, <1>3, <2>1, <2>2 DEF WithDescs, Pipes, r
<1>7. ASSUME NEW i \in 1..Len(descs) PROVE W(i) = AddOneDesc(W(i - 1), descs[i])
  <2>1. i - 1 \in 0..Len(descs) /\ i - 1 \in 0..FifoSize - 1 /\ i - 1 \in 0..FifoSize /\ (i - 1) + 1 = i
    BY <1>2 DEF BamAssumption
  <2>2. NextPlace(Place(r, i - 1)) = Place(r, i)
    BY <1>3, <2>1
  <2>. DEFINE f(j) == [x \in Places |-> IF Ahead(r, x) < j THEN descs[Ahead(r, x) + 1] ELSE p.fifo[x]]
  <2>3. ASSUME NEW x \in Places PROVE f(i)[x] = IF x = Place(r, i - 1) THEN descs[i] ELSE f(i - 1)[x]
    <3>1. x = Place(r, i - 1) <=> Ahead(r, x) = i - 1
      BY <1>4, <2>1
    <3>2. Ahead(r, x) \in Int
      BY <1>4
    <3>. QED
      BY <2>1, <3>1, <3>2
  <2>4. f(i) = [x \in Places |-> IF x = Place(r, i - 1) THEN descs[i] ELSE f(i - 1)[x]]
    BY <2>3
  <2>5. W(i - 1) = [current |-> Place(r, i - 1), offset |-> p.offset, initialized |-> p.initialized, fifo |-> f(i - 1)]
    BY DEF WithDescs, r
  <2>6. W(i) = [current |-> Place(r, i), offset |-> p.offset, initialized |-> p.initialized, fifo |-> f(i)]
    BY DEF WithDescs, r
  <2>7. W(i - 1) \in Pipes
    BY <1>6, <2>1
  <2>. HIDE DEF W, f
  <2>8. AddOneDesc(W(i - 1), descs[i]) =
          [current |-> NextPlace(Place(r, i - 1)), offset |-> p.offset, initialized |-> p.initialized,
           fifo |-> [x \in Places |-> IF x = Place(r, i - 1) THEN descs[i] ELSE f(i - 1)[x]]]
    BY <2>5, <2>7, OneDescAdded
  <2>. QED
    BY <2>2, <2>4, <2>6, <2>8
<1>. QED
  BY <1>5, <1>6, <1>7

LEMMA DescsAdded ==
  ASSUME BamAssumption, NEW p \in Pipes, NEW descs \in Seq(Descs), Len(descs) <= FifoSize
  PROVE  AddDescs(p, descs) = WithDescs(p, descs, Len(descs))
<1>. DEFINE n == Len(descs)
            Is(f) == f = [i \in 0..n |-> IF i = 0 THEN p ELSE AddOneDesc(f[i - 1], descs[i])]
            added == CHOOSE f : Is(f)
            W == [i \in 0..n |-> WithDescs(p, descs, i)]
<1>1. n \in Nat
  OBVIOUS
<1>2. /\ W[0] = p /\ \A i \in 1..n : W[i] = AddOneDesc(W[i - 1], descs[i])
  BY <1>1, DescsFollow
<1>3. Is(W)
  <2>1. \A i \in 0..n : W[i] = IF i = 0 THEN p ELSE AddOneDesc(W[i - 1], descs[i])
    BY <1>1, <1>2
  <2>. QED
    BY <2>1
<1>4. Is(added)
  BY <1>3
<1>5. AddDescs(p, descs) = added[n]
  BY DEF AddDescs
<1>. HIDE DEF added, W
<1>6. added[0] = p /\ \A i \in 1..n : added[i] = AddOneDesc(added[i - 1], descs[i])
  BY <1>1, <1>4
<1>7. \A i \in 0..n : added[i] = W[i]
  <2>. DEFINE T == {i \in 0..n : added[i] = W[i]}
  <2>1. 0 \in T
    BY <1>1, <1>2, <1>6
  <2>2. \A i \in 1..n : i - 1 \in T => i \in T
    BY <1>1, <1>2, <1>6
  <2>. HIDE DEF T
  <2>3. \A i \in 0..n : i \in T
    BY <1>1, <2>1, <2>2, UpFromZero
  <2>. QED
    BY <2>3 DEF T
<1>. QED
  BY <1>1, <1>5, <1>7 DEF W

-----------------------------------------------------------------------------
(* A transfer cut into descriptors.                                         *)

Descriptors(len, flags) == [i \in 1..Pieces(len) |-> Piece(len, i, flags)]
Ends(len) == [i \in 0..Pieces(len) |-> IF i * MaxLen < len THEN i * MaxLen ELSE len]

LEMMA NumberOfPieces ==
  ASSUME BamAssumption, NEW len \in Nat
  PROVE  /\ Pieces(len) \in Nat
         /\ len <= Pieces(len) * MaxLen
         /\ Pieces(len) # 0 => (Pieces(len) - 1) * MaxLen < len
         /\ ~TooLong(len) => Pieces(len) \in 0..FifoSize
<1>. DEFINE n == Pieces(len)
            m == len + MaxLen - 1
<1>1. m \in Nat /\ MaxLen \in Nat \ {0} /\ n = m \div MaxLen
  BY DEF BamAssumption, Pieces
<1>2. n \in Nat /\ n * MaxLen <= m /\ m < n * MaxLen + MaxLen
  <2>. HIDE DEF m, n
  <2>1. m \div MaxLen \in Nat /\ (m \div MaxLen) * MaxLen <= m
    BY <1>1
  <2>2. m < (m \div MaxLen) * MaxLen + MaxLen
    BY <1>1
  <2>. QED
    BY <1>1, <2>1, <2>2
<1>. HIDE DEF n
<1>3. len <= n * MaxLen
  BY <1>1, <1>2
<1>4. n # 0 => (n - 1) * MaxLen < len
  <2>1. (n - 1) * MaxLen = n * MaxLen - MaxLen
    BY <1>1, <1>2
  <2>. QED
    BY <1>1, <1>2, <2>1
<1>5. ASSUME ~TooLong(len) PROVE n \in 0..FifoSize
  <2>1. len <= FifoSize * MaxLen /\ FifoSize \in Nat
    BY <1>5 DEF TooLong, BamAssumption
  <2>2. n - 1 >= FifoSize => (n - 1) * MaxLen >= FifoSize * MaxLen
    BY <1>1, <1>2, <2>1
  <2>. QED
    BY <1>1, <1>2, <1>4, <2>1, <2>2
<1>. QED
  BY <1>2, <1>3, <1>4, <1>5 DEF n

LEMMA CutIntoPieces ==
  ASSUME BamAssumption, NEW len \in Nat, NEW flags \in SUBSET {"EOT", "INT"}
  PROVE  /\ Descriptors(len, flags) \in Seq(Descs) /\ Len(Descriptors(len, flags)) = Pieces(len)
         /\ Ends(len) \in Cuts(Pieces(len), len)
         /\ \A i \in 1..Pieces(len) :
              /\ Descriptors(len, flags)[i].at = Ends(len)[i - 1] + 1
              /\ Descriptors(len, flags)[i].size = Ends(len)[i] - Ends(len)[i - 1]
<1>. DEFINE n == Pieces(len)
            M == MaxLen
            e == Ends(len)
<1>1. n \in Nat /\ len <= n * M /\ (n # 0 => (n - 1) * M < len) /\ M \in Nat \ {0}
  BY NumberOfPieces DEF BamAssumption
<1>. HIDE DEF n, M
<1>2. \A i \in 0..n : i * M \in Nat
  BY <1>1
<1>3. ASSUME NEW i \in 1..n
      PROVE /\ (i - 1) * M < len /\ (i - 1) * M = i * M - M /\ i * M \in Nat /\ (i - 1) * M \in Nat
            /\ i < n => i * M < len
            /\ i = n => len <= i * M
  <2>1. (i - 1) * M <= (n - 1) * M
    BY <1>1
  <2>2. i < n => i * M <= (n - 1) * M
    BY <1>1
  <2>3. i * M \in Nat /\ (i - 1) * M \in Nat /\ (n - 1) * M \in Nat /\ n # 0
    BY <1>1
  <2>4. (i - 1) * M = i * M - M
    BY <1>1
  <2>. QED
    BY <1>1, <2>1, <2>2, <2>3, <2>4
<1>4. \A i \in 0..n : e[i] = IF i * M < len THEN i * M ELSE len
  BY DEF Ends, n, M
<1>5. e \in [0..n -> 0..len] /\ e[0] = 0
  <2>1. \A i \in 0..n : (IF i * M < len THEN i * M ELSE len) \in 0..len
    BY <1>2
  <2>2. e \in [0..n -> 0..len]
    BY <2>1 DEF Ends, n, M
  <2>3. 0 \in 0..n /\ 0 * M = 0
    BY <1>1
  <2>. QED
    BY <1>4, <2>2, <2>3
<1>6. e[n] = len
  <2>1. n \in 0..n /\ n * M \in Nat /\ ~(n * M < len)
    BY <1>1, <1>2
  <2>. QED
    BY <1>4, <2>1
<1>. HIDE DEF e
<1>7. ASSUME NEW i \in 1..n PROVE e[i - 1] = (i - 1) * M /\ e[i] = (IF i < n THEN i * M ELSE len) /\ e[i - 1] <= e[i]
  <2>1. i \in 0..n /\ i - 1 \in 0..n /\ (i = n \/ i < n)
    BY <1>1
  <2>2. e[i - 1] = (i - 1) * M
    BY <1>3, <1>4, <2>1
  <2>3. e[i] = IF i < n THEN i * M ELSE len
    BY <1>1, <1>3, <1>4, <1>6, <2>1
  <2>4. e[i - 1] <= e[i]
    BY <1>1, <1>3, <2>2, <2>3
  <2>. QED
    BY <2>2, <2>3, <2>4
<1>8. e \in Cuts(n, len)
  BY <1>5, <1>6, <1>7 DEF Cuts
<1>9. ASSUME NEW i \in 1..n
      PROVE /\ Piece(len, i, flags) \in Descs
            /\ Piece(len, i, flags).at = e[i - 1] + 1 /\ Piece(len, i, flags).size = e[i] - e[i - 1]
  <2>. DEFINE a == (i - 1) * M
              b == i * M
  <2>1. Piece(len, i, flags) = [at |-> a + 1, size |-> IF i < n THEN M ELSE len - a,
                                flags |-> IF i = n THEN flags ELSE {}]
    BY DEF Piece, n, M
  <2>2. a \in Nat /\ a < len /\ a = b - M /\ b \in Nat
    BY <1>3
  <2>3. e[i - 1] = a /\ e[i] = IF i < n THEN b ELSE len
    BY <1>7
  <2>. HIDE DEF a, b
  <2>4. (IF i < n THEN M ELSE len - a) \in Nat
    BY <1>1, <2>2
  <2>5. Piece(len, i, flags) \in Descs
    BY <2>1, <2>2, <2>4 DEF Descs
  <2>6. (IF i < n THEN M ELSE len - a) = e[i] - e[i - 1]
    BY <1>1, <2>2, <2>3
  <2>. QED
    BY <2>1, <2>3, <2>5, <2>6
<1>10. Descriptors(len, flags) \in Seq(Descs) /\ Len(Descriptors(len, flags)) = n
       /\ \A i \in 1..n : Descriptors(len, flags)[i] = Piece(len, i, flags)
  BY <1>1, <1>9 DEF Descriptors, n
<1>. QED
  BY <1>8, <1>9, <1>10 DEF n, e

-----------------------------------------------------------------------------
(* What the client and the driver do.                                       *)

LEMMA EmptyBytes == UpTo(0) = <<>> /\ <<>> \in Seq(Nat)
BY DEF UpTo

LEMMA BamStarts == ASSUME BamAssumption, BamInit PROVE BamInv
<1>1. 0 \in Places /\ 0 \in Nat /\ 1 \in 1..FifoSize
  BY DEF BamAssumption, Places
<1>2. NoDesc \in Descs
  BY DEF NoDesc, Descs
<1>3. PipeTypes /\ EngineTypes /\ JobTypes
  <2>1. PipeTypes
    BY <1>1, <1>2 DEF BamInit, PipeTypes
  <2>2. EngineTypes
    BY <1>1, EmptyBytes DEF BamInit, EngineTypes, BamAssumption
  <2>3. JobTypes
    BY DEF BamInit, JobTypes, BamPCs, NoTransfer, BamAssumption
  <2>. QED
    BY <2>1, <2>2, <2>3
<1>4. PhaseInv
  BY DEF BamInit, PhaseInv, BamAt, NoTransfer, Quiet
<1>. QED
  BY <1>3, <1>4 DEF BamInv

LEMMA SetUpKeeps ==
  ASSUME BamAssumption, BamInv, InitBam \/ SysPipeInit \/ PipeFifoInit \/ SetUpAgain PROVE BamInv'
<1>1. 0 \in Places /\ 1 \in 1..FifoSize
  BY DEF BamAssumption, Places
<1>2. CASE InitBam
  <2>1. job' \in [pc : BamPCs, ask : [id : {0, 1}, len : Nat], queued : Nat, awaits : {"end", "processed"}, left : Int]
        /\ job'.pc = "bam" /\ job'.ask = job.ask /\ job'.queued = job.queued
    BY <1>2 DEF InitBam, BamInv, JobTypes, BamPCs
  <2>. QED
    BY <1>2, <2>1 DEF InitBam, BamInv, PipeTypes, EngineTypes, JobTypes, PhaseInv, BamAt
<1>3. CASE SetUpAgain
  <2>1. job' \in [pc : BamPCs, ask : [id : {0, 1}, len : Nat], queued : Nat, awaits : {"end", "processed"}, left : Int]
        /\ job'.pc = "bam" /\ job'.ask.len = 0 /\ job'.queued = job.queued
    BY <1>3 DEF SetUpAgain, BamInv, JobTypes, BamPCs, NoTransfer
  <2>. QED
    BY <1>3, <2>1 DEF SetUpAgain, BamInv, PipeTypes, EngineTypes, JobTypes, PhaseInv, BamAt
<1>4. CASE SysPipeInit
  <2>1. EngineTypes' /\ hw'.read = 0 /\ hw'.event = 0 /\ hw'.status = {} /\ hw'.moved = <<>>
    <3>1. hw = [on |-> hw.on, read |-> hw.read, event |-> hw.event, status |-> hw.status,
                moved |-> hw.moved, errors |-> hw.errors] /\ hw.errors \in Nat
      BY DEF BamInv, EngineTypes
    <3>2. hw' = [on |-> TRUE, read |-> 0, event |-> 0, status |-> {}, moved |-> <<>>, errors |-> hw.errors]
      BY <1>4, <3>1 DEF SysPipeInit
    <3>. QED
      BY <1>1, <3>1, <3>2, EmptyBytes DEF EngineTypes
  <2>2. PipeTypes'
    BY <1>4 DEF SysPipeInit, BamInv, PipeTypes
  <2>3. JobTypes' /\ job'.pc = "pipe" /\ job'.ask = job.ask /\ job'.queued = job.queued
    BY <1>4 DEF SysPipeInit, BamInv, JobTypes, BamPCs
  <2>. QED
    BY <1>4, <2>1, <2>2, <2>3 DEF SysPipeInit, BamInv, PhaseInv, BamAt, Quiet
<1>5. CASE PipeFifoInit
  <2>1. PipeTypes' /\ pipe'.current = 0 /\ pipe'.offset = 1
    BY <1>1, <1>5 DEF PipeFifoInit, BamInv, PipeTypes
  <2>2. JobTypes' /\ job'.pc = "ready" /\ job'.ask = job.ask /\ job'.queued = job.queued
    BY <1>5 DEF PipeFifoInit, BamInv, JobTypes, BamPCs
  <2>3. UpTo(0) = <<>>
    BY EmptyBytes
  <2>. QED
    BY <1>5, <2>1, <2>2, <2>3 DEF PipeFifoInit, BamInv, EngineTypes, PhaseInv, BamAt, Quiet
<1>. QED
  BY <1>2, <1>3, <1>4, <1>5

Asking(len, awaits) ==
  job' = [job EXCEPT !.left = @ - 1, !.pc = "wait", !.ask = [NewTransfer EXCEPT !.len = len], !.awaits = awaits]

LEMMA AskingTyped ==
  ASSUME JobTypes, NEW len \in Nat, NEW awaits \in {"end", "processed"}, Asking(len, awaits)
  PROVE  JobTypes' /\ job'.pc = "wait" /\ job'.ask.len = len /\ job'.queued = job.queued
<1>1. [NewTransfer EXCEPT !.len = len] = [id |-> 1 - job.ask.id, len |-> len] /\ 1 - job.ask.id \in {0, 1}
  <2>1. NewTransfer = [id |-> 1 - job.ask.id, len |-> 0]
    BY DEF NewTransfer, NoTransfer
  <2>2. job.ask.id \in {0, 1}
    BY DEF JobTypes
  <2>. QED
    BY <2>1, <2>2
<1>. DEFINE a == [NewTransfer EXCEPT !.len = len]
<1>2. a \in [id : {0, 1}, len : Nat] /\ a.len = len
  BY <1>1
<1>. HIDE DEF a
<1>3. job.left - 1 \in Int
  BY DEF JobTypes
<1>. QED
  BY <1>2, <1>3 DEF Asking, a, JobTypes, BamPCs

LEMMA AddKeeps ==
  ASSUME BamAssumption, BamInv, NEW len \in Nat, NEW awaits \in {"end", "processed"}, AddDesc(len, awaits)
  PROVE  BamInv'
<1>1. BamAt("ready") /\ job.left > 0 /\ job.queued = 0
  BY DEF AddDesc, BamInv, PhaseInv, BamAt
<1>2. CASE TooLong(len)
  <2>1. job' = [job EXCEPT !.left = @ - 1] /\ UNCHANGED <<pipe, hw>> /\ job.left - 1 \in Int
    BY <1>1, <1>2 DEF AddDesc, BamInv, JobTypes
  <2>2. JobTypes' /\ job'.pc = job.pc /\ job'.ask = job.ask /\ job'.queued = job.queued
    BY <2>1 DEF BamInv, JobTypes
  <2>. QED
    BY <1>1, <2>1, <2>2 DEF BamInv, PipeTypes, EngineTypes, PhaseInv, BamAt, Quiet
<1>3. CASE ~TooLong(len)
  <2>0. PICK r \in Places : r = hw.read
    BY DEF BamInv, EngineTypes
  <2>. DEFINE n == Pieces(len)
              descs == Descriptors(len, Flags[awaits])
              cut == Ends(len)
  <2>1. /\ pipe' = AddDescs(pipe, descs)
        /\ hw' = [hw EXCEPT !.event = Notified(pipe, n), !.moved = <<>>]
        /\ Asking(len, awaits)
    BY <1>3 DEF AddDesc, Asking, Descriptors
  <2>2. /\ n \in 0..FifoSize /\ descs \in Seq(Descs) /\ Len(descs) = n /\ cut \in Cuts(n, len)
        /\ \A i \in 1..n : descs[i].at = cut[i - 1] + 1 /\ descs[i].size = cut[i] - cut[i - 1]
    <3>1. Flags[awaits] \in SUBSET {"EOT", "INT"}
      BY DEF Flags
    <3>. QED
      BY <1>3, <3>1, NumberOfPieces, CutIntoPieces
  <2>3. /\ r \in Places /\ hw.event = r /\ hw.status \subseteq {"error"}
        /\ pipe \in Pipes /\ pipe.current = r /\ pipe.offset = r + 1
    BY <1>1, <2>0 DEF BamInv, EngineTypes, PipeTypes, Pipes, PhaseInv, Quiet
  <2>. HIDE DEF n, descs, cut
  <2>4. JobTypes' /\ job'.pc = "wait" /\ job'.ask.len = len /\ job'.queued = 0
    BY <1>1, <2>1, AskingTyped DEF BamInv
  <2>5. pipe' = WithDescs(pipe, descs, n) /\ pipe' \in Pipes
    <3>1. Len(descs) <= FifoSize /\ n \in 0..Len(descs)
      BY <2>2 DEF BamAssumption
    <3>2. pipe' = WithDescs(pipe, descs, n)
      BY <2>1, <2>2, <2>3, <3>1, DescsAdded
    <3>3. WithDescs(pipe, descs, n) \in Pipes
      BY <2>2, <2>3, <3>1, DescsFollow
    <3>. QED
      BY <3>2, <3>3
  <2>6. /\ Place(r, 0) = r /\ \A i \in 0..FifoSize : Place(r, i) \in Places
        /\ \A i \in 0..FifoSize - 1 : InFifo(r + i) = Place(r, i)
        /\ \A x \in Places, i \in 0..FifoSize - 1 : x = Place(r, i) <=> Ahead(r, x) = i
    BY <2>3, PlacesFollow, AheadOfPlace
  <2>7. LieFrom(pipe'.fifo, r, n, cut)
    <3>1. SUFFICES ASSUME NEW i \in 1..n
                   PROVE pipe'.fifo[Place(r, i - 1)] = descs[i]
      BY <2>2 DEF LieFrom
    <3>2. i - 1 \in 0..FifoSize - 1 /\ i - 1 \in 0..FifoSize /\ i - 1 < n /\ (i - 1) + 1 = i
      BY <2>2 DEF BamAssumption
    <3>3. Place(r, i - 1) \in Places /\ Ahead(r, Place(r, i - 1)) = i - 1
      BY <2>6, <3>2
    <3>4. pipe'.fifo = [x \in Places |-> IF Ahead(r, x) < n THEN descs[Ahead(r, x) + 1] ELSE pipe.fifo[x]]
      BY <2>3, <2>5 DEF WithDescs
    <3>. QED
      BY <3>2, <3>3, <3>4
  <2>8. Notified(pipe, n) = IF n < FifoSize THEN Place(r, n) ELSE r
    <3>1. CASE n < FifoSize
      <4>1. n \in 0..FifoSize - 1 /\ ~(n >= FifoSize) /\ pipe.offset + n - 1 = r + n
        BY <2>2, <2>3, <3>1 DEF BamAssumption, Places
      <4>2. Notified(pipe, n) = InFifo(pipe.offset + n - 1)
        BY <4>1 DEF Notified
      <4>. QED
        BY <2>6, <3>1, <4>1, <4>2
    <3>2. CASE ~(n < FifoSize)
      BY <2>2, <2>3, <3>2 DEF Notified, BamAssumption
    <3>. QED
      BY <3>1, <3>2
  <2>9. /\ EngineTypes' /\ hw'.read = r /\ hw'.moved = <<>> /\ hw'.status = hw.status
        /\ n < FifoSize => hw'.event = Place(r, n)
        /\ n = FifoSize => hw'.event = r
    <3>. DEFINE v == Notified(pipe, n)
    <3>1. v \in Places /\ (n < FifoSize => v = Place(r, n)) /\ (n = FifoSize => v = r)
      BY <2>2, <2>3, <2>6, <2>8 DEF BamAssumption
    <3>. HIDE DEF v
    <3>2. hw' = [hw EXCEPT !.event = v, !.moved = <<>>]
      BY <2>1 DEF v
    <3>. QED
      BY <2>0, <3>1, <3>2, EmptyBytes DEF BamInv, EngineTypes
  <2>10. cut[0] = 0 /\ UpTo(0) = <<>>
    BY <2>2, EmptyBytes DEF Cuts
  <2>11. Begun(r, n, 0, cut)'
    <3>1. 0 <= n /\ cut \in Cuts(n, job'.ask.len) /\ LieFrom(pipe'.fifo, r, n, cut)
      BY <2>2, <2>4, <2>7
    <3>2. hw'.read = Place(r, 0) /\ hw'.moved = UpTo(cut[0])
      BY <2>6, <2>9, <2>10
    <3>3. job'.pc = "wait" /\ hw'.status \subseteq {"error"}
      BY <2>3, <2>4, <2>9
    <3>. QED
      BY <2>9, <3>1, <3>2, <3>3 DEF Begun, BamAt
  <2>12. PhaseInv'
    <3>1. 0 \in 0..FifoSize /\ cut \in Cuts(n, job'.ask.len)
      BY <2>2, <2>4 DEF BamAssumption
    <3>2. \E rr \in Places, nn \in 0..FifoSize, k \in 0..FifoSize : \E c \in Cuts(nn, job'.ask.len) : Begun(rr, nn, k, c)'
      BY <2>2, <2>3, <2>11, <3>1
    <3>. QED
      BY <2>4, <3>2 DEF PhaseInv, BamAt
  <2>. QED
    BY <2>4, <2>5, <2>9, <2>12 DEF BamInv, PipeTypes, Pipes
<1>. QED
  BY <1>2, <1>3

LEMMA CutsGrow ==
  ASSUME NEW m \in Nat, NEW len \in Nat, NEW size \in Nat, NEW cut \in Cuts(m, len)
  PROVE  [i \in 0..m + 1 |-> IF i = m + 1 THEN len + size ELSE cut[i]] \in Cuts(m + 1, len + size)
<1>. DEFINE c == [i \in 0..m + 1 |-> IF i = m + 1 THEN len + size ELSE cut[i]]
<1>1. \A i \in 0..m : cut[i] \in 0..len
  BY DEF Cuts
<1>2. cut[0] = 0 /\ cut[m] = len /\ \A i \in 1..m : cut[i - 1] <= cut[i]
  BY DEF Cuts
<1>3. c \in [0..m + 1 -> 0..len + size]
  BY <1>1
<1>4. c[m + 1] = len + size /\ \A i \in 0..m : c[i] = cut[i]
  OBVIOUS
<1>5. c[0] = 0
  BY <1>2, <1>4
<1>6. ASSUME NEW i \in 1..m + 1 PROVE c[i - 1] <= c[i]
  <2>1. CASE i = m + 1
    BY <1>2, <1>4, <2>1
  <2>2. CASE i \in 1..m
    <3>1. i \in 0..m /\ i - 1 \in 0..m
      BY <2>2
    <3>. QED
      BY <1>2, <1>4, <2>2, <3>1
  <2>. QED
    BY <2>1, <2>2
<1>. HIDE DEF c
<1>7. c \in Cuts(m + 1, len + size)
  BY <1>3, <1>4, <1>5, <1>6 DEF Cuts
<1>. QED
  BY <1>7 DEF c

\* The pieces queued so far, none if the first is asked for.
QueuedBefore(ask, m, cut) ==
  /\ ask \in [id : {0, 1}, len : Nat] /\ cut \in Cuts(m, ask.len)
  /\ pipe.current = Place(hw.read, m) /\ LieFrom(pipe.fifo, hw.read, m, cut)

LEMMA QueueKeeps ==
  ASSUME BamAssumption, BamInv, NEW awaits \in {"end", "processed"}, QueueDesc(awaits) PROVE BamInv'
<1>0. PICK r \in Places : r = hw.read
  BY DEF BamInv, EngineTypes
<1>. DEFINE ask == IF BamAt("ready") THEN NewTransfer ELSE job.ask
            desc == [at |-> ask.len + 1, size |-> MaxLen, flags |-> Flags[awaits]]
<1>1. /\ hw.event = r /\ hw.status \subseteq {"error"} /\ pipe.offset = r + 1 /\ pipe \in Pipes
      /\ job.queued \in 0..FifoSize - 2 /\ job.queued + 1 \in 1..FifoSize - 1
  <2>1. job.queued \in Nat /\ job.queued < FifoSize - 1 /\ FifoSize \in Nat
    BY DEF QueueDesc, BamInv, JobTypes, BamAssumption
  <2>. QED
    BY <1>0, <2>1 DEF QueueDesc, BamInv, PhaseInv, PipeTypes, Pipes, Quiet
<1>2. PICK m \in 0..FifoSize - 2 : m = job.queued
  BY <1>1
<1>3. \E cut \in Cuts(m, ask.len) : QueuedBefore(ask, m, cut)
  <2>1. CASE BamAt("ready")
    <3>1. job.ask.id \in {0, 1} /\ m = 0 /\ pipe.current = r
      BY <1>0, <1>2, <2>1 DEF BamInv, JobTypes, PhaseInv, BamAt
    <3>2. ask = [id |-> 1 - job.ask.id, len |-> 0]
      BY <2>1 DEF NewTransfer, NoTransfer
    <3>. DEFINE c == [i \in 0..0 |-> 0]
    <3>3. c \in Cuts(m, ask.len)
      BY <3>1, <3>2 DEF Cuts
    <3>4. Place(r, 0) = r
      BY PlacesFollow
    <3>. HIDE DEF c, ask
    <3>5. QueuedBefore(ask, m, c)
      BY <1>0, <3>1, <3>2, <3>3, <3>4 DEF QueuedBefore, LieFrom
    <3>. QED
      BY <3>3, <3>5
  <2>2. CASE BamAt("queue")
    <3>1. ask = job.ask /\ job.ask \in [id : {0, 1}, len : Nat]
      BY <2>2 DEF BamAt, BamInv, JobTypes
    <3>. QED
      BY <1>2, <2>2, <3>1 DEF BamInv, PhaseInv, QueuedBefore
  <2>. QED
    BY <2>1, <2>2 DEF QueueDesc
<1>4. PICK cut \in Cuts(m, ask.len) : QueuedBefore(ask, m, cut)
  BY <1>3
<1>5. ask \in [id : {0, 1}, len : Nat] /\ desc \in Descs /\ MaxLen \in Nat
  BY <1>4 DEF QueuedBefore, Descs, Flags, BamAssumption
<1>6. pipe' = AddOneDesc(pipe, desc) /\ hw' = [hw EXCEPT !.moved = <<>>]
  BY DEF QueueDesc
<1>7. job' = [job EXCEPT !.pc = "queue", !.ask = [ask EXCEPT !.len = @ + MaxLen], !.queued = @ + 1, !.awaits = awaits]
  BY DEF QueueDesc
<1>. HIDE DEF ask, desc
<1>8. JobTypes' /\ job'.pc = "queue" /\ job'.ask.len = ask.len + MaxLen /\ job'.queued = m + 1
  <2>. DEFINE a == [ask EXCEPT !.len = @ + MaxLen]
  <2>1. a \in [id : {0, 1}, len : Nat] /\ a.len = ask.len + MaxLen
    BY <1>5
  <2>. HIDE DEF a
  <2>2. job = [pc |-> job.pc, ask |-> job.ask, queued |-> job.queued, awaits |-> job.awaits, left |-> job.left]
        /\ job.left \in Int /\ job.queued \in Nat
    BY DEF BamInv, JobTypes
  <2>3. job' = [pc |-> "queue", ask |-> a, queued |-> job.queued + 1, awaits |-> awaits, left |-> job.left]
    BY <1>7, <2>2 DEF a
  <2>. QED
    BY <1>2, <2>1, <2>2, <2>3 DEF JobTypes, BamPCs
<1>9. EngineTypes' /\ hw'.read = r /\ hw'.event = r /\ hw'.status = hw.status /\ hw'.moved = <<>>
  BY <1>0, <1>1, <1>6, EmptyBytes DEF BamInv, EngineTypes
<1>10. pipe.current = Place(r, m) /\ LieFrom(pipe.fifo, r, m, cut)
  BY <1>0, <1>4 DEF QueuedBefore
<1>11. /\ pipe'.current = NextPlace(Place(r, m)) /\ pipe'.offset = r + 1
       /\ pipe'.initialized \in BOOLEAN
       /\ pipe'.fifo = [x \in Places |-> IF x = Place(r, m) THEN desc ELSE pipe.fifo[x]]
       /\ pipe' = [current |-> pipe'.current, offset |-> pipe'.offset, initialized |-> pipe'.initialized, fifo |-> pipe'.fifo]
  <2>1. AddOneDesc(pipe, desc) =
          [current |-> NextPlace(pipe.current), offset |-> pipe.offset, initialized |-> pipe.initialized,
           fifo |-> [x \in Places |-> IF x = pipe.current THEN desc ELSE pipe.fifo[x]]]
    BY <1>1, OneDescAdded
  <2>2. pipe.initialized \in BOOLEAN
    BY <1>1 DEF Pipes
  <2>. QED
    BY <1>1, <1>6, <1>10, <2>1, <2>2
<1>12. /\ NextPlace(Place(r, m)) = Place(r, m + 1) /\ Place(r, m + 1) \in Places
       /\ \A i \in 0..FifoSize - 1 : Place(r, i) \in Places
       /\ \A i, j \in 0..FifoSize - 1 : Place(r, i) = Place(r, j) => i = j
  <2>1. m \in 0..FifoSize - 1 /\ m + 1 \in 0..FifoSize /\ \A i \in 0..FifoSize - 1 : i \in 0..FifoSize
    BY DEF BamAssumption
  <2>. QED
    BY <2>1, PlacesFollow
<1>13. PipeTypes'
  <2>1. pipe'.fifo \in [Places -> Descs]
    <3>1. pipe.fifo \in [Places -> Descs]
      BY <1>1 DEF Pipes
    <3>. QED
      BY <1>5, <1>11, <3>1
  <2>2. r + 1 \in 1..FifoSize
    BY DEF Places, BamAssumption
  <2>. QED
    BY <1>11, <1>12, <2>1, <2>2 DEF PipeTypes
<1>. DEFINE c == [i \in 0..m + 1 |-> IF i = m + 1 THEN ask.len + MaxLen ELSE cut[i]]
<1>14. c \in Cuts(m + 1, ask.len + MaxLen)
  <2>1. m \in Nat /\ ask.len \in Nat
    BY <1>5
  <2>. QED
    BY <1>5, <2>1, CutsGrow
<1>15. LieFrom(pipe'.fifo, r, m + 1, c)
  <2>1. /\ m \in Nat /\ cut[m] = ask.len /\ ask.len \in Nat
        /\ \A i \in 0..m : c[i] = cut[i]
        /\ c[m + 1] = ask.len + MaxLen
    BY <1>5 DEF Cuts
  <2>. HIDE DEF c
  <2>2. SUFFICES ASSUME NEW i \in 1..m + 1
                 PROVE /\ pipe'.fifo[Place(r, i - 1)].at = c[i - 1] + 1
                       /\ pipe'.fifo[Place(r, i - 1)].size = c[i] - c[i - 1]
    BY DEF LieFrom
  <2>3. i - 1 \in 0..FifoSize - 1 /\ m \in 0..FifoSize - 1 /\ i - 1 \in 0..m
    BY <2>1 DEF BamAssumption
  <2>4. CASE i = m + 1
    <3>1. pipe'.fifo[Place(r, i - 1)] = desc
      BY <1>11, <1>12, <2>1, <2>3, <2>4
    <3>. QED
      BY <1>5, <2>1, <2>4, <3>1 DEF desc
  <2>5. CASE i \in 1..m
    <3>1. Place(r, i - 1) # Place(r, m) /\ Place(r, i - 1) \in Places
      BY <1>12, <2>1, <2>3, <2>5
    <3>2. pipe'.fifo[Place(r, i - 1)] = pipe.fifo[Place(r, i - 1)]
      BY <1>11, <3>1
    <3>3. /\ pipe.fifo[Place(r, i - 1)].at = cut[i - 1] + 1
          /\ pipe.fifo[Place(r, i - 1)].size = cut[i] - cut[i - 1]
      BY <1>10, <2>5 DEF LieFrom
    <3>4. c[i - 1] = cut[i - 1] /\ c[i] = cut[i]
      BY <2>1, <2>3, <2>5
    <3>. QED
      BY <3>2, <3>3, <3>4
  <2>. QED
    BY <2>1, <2>4, <2>5
<1>. HIDE DEF c
<1>16. PhaseInv'
  <2>1. Quiet'
    BY <1>1, <1>9 DEF Quiet
  <2>2. \E cc \in Cuts(job'.queued, job'.ask.len) : LieFrom(pipe'.fifo, hw'.read, job'.queued, cc)
    BY <1>8, <1>9, <1>14, <1>15
  <2>3. job'.queued \in 1..FifoSize - 1 /\ pipe'.current = Place(hw'.read, job'.queued) /\ pipe'.offset = hw'.read + 1
    BY <1>1, <1>2, <1>8, <1>9, <1>11, <1>12
  <2>. QED
    BY <1>8, <1>9, <2>1, <2>2, <2>3 DEF PhaseInv, BamAt
<1>. QED
  BY <1>8, <1>9, <1>13, <1>16 DEF BamInv

LEMMA GenEventKeeps == ASSUME BamAssumption, BamInv, GenEvent PROVE BamInv'
<1>0. PICK r \in Places : r = hw.read
  BY DEF BamInv, EngineTypes
<1>1. /\ BamAt("queue") /\ job.queued \in 1..FifoSize - 1 /\ pipe.offset = r + 1 /\ hw.status \subseteq {"error"}
      /\ hw.moved = <<>>
  BY <1>0 DEF GenEvent, BamInv, PhaseInv, Quiet
<1>2. PICK n \in 1..FifoSize - 1 : n = job.queued
  BY <1>1
<1>3. PICK cut \in Cuts(n, job.ask.len) : LieFrom(pipe.fifo, r, n, cut)
  BY <1>0, <1>1, <1>2 DEF BamInv, PhaseInv
<1>4. JobTypes' /\ job'.pc = "wait" /\ job'.ask = job.ask /\ job'.queued = 0
  <2>1. job.left \in Int /\ job.left - 1 \in Int
    BY DEF BamInv, JobTypes
  <2>. QED
    BY <2>1 DEF GenEvent, BamInv, JobTypes, BamPCs
<1>5. Notified(pipe, n) = Place(r, n) /\ Place(r, n) \in Places /\ Place(r, 0) = r
  <2>1. n \in 0..FifoSize - 1 /\ n \in 0..FifoSize /\ ~(n >= FifoSize) /\ pipe.offset + n - 1 = r + n
    BY <1>1 DEF BamAssumption, Places
  <2>2. Notified(pipe, n) = InFifo(r + n)
    BY <2>1 DEF Notified
  <2>. QED
    BY <2>1, <2>2, PlacesFollow
<1>6. EngineTypes' /\ hw'.read = r /\ hw'.event = Place(r, n) /\ hw'.status = hw.status /\ hw'.moved = <<>>
  <2>1. hw' = [hw EXCEPT !.event = Place(r, n)]
    BY <1>2, <1>5 DEF GenEvent
  <2>. QED
    BY <1>0, <1>1, <1>5, <2>1 DEF BamInv, EngineTypes
<1>7. cut[0] = 0 /\ n # FifoSize /\ n \in 0..FifoSize /\ 0 \in 0..FifoSize
  BY DEF Cuts, BamAssumption
<1>8. Begun(r, n, 0, cut)'
  BY <1>3, <1>4, <1>5, <1>6, <1>7, EmptyBytes DEF GenEvent, Begun
<1>9. PhaseInv'
  <2>1. cut \in Cuts(n, job'.ask.len)
    BY <1>4
  <2>2. \E rr \in Places, nn \in 0..FifoSize, k \in 0..FifoSize : \E c \in Cuts(nn, job'.ask.len) : Begun(rr, nn, k, c)'
    BY <1>7, <1>8, <2>1
  <2>. QED
    BY <1>4, <2>2 DEF PhaseInv, BamAt
<1>. QED
  BY <1>4, <1>6, <1>9 DEF GenEvent, BamInv, PipeTypes

-----------------------------------------------------------------------------
(* What the engine does, and the wait for it.                               *)

LEMMA MovedTyped ==
  ASSUME NEW moved \in Seq(Nat), NEW desc \in Descs PROVE moved \o BytesOf(desc) \in Seq(Nat)
<1>1. desc.at \in Nat /\ desc.size \in Nat
  BY DEF Descs
<1>2. BytesOf(desc) \in Seq(Nat)
  BY <1>1 DEF BytesOf
<1>. QED
  BY <1>2

LEMMA ProcessKeeps == ASSUME BamAssumption, BamInv, Process PROVE BamInv'
<1>. DEFINE desc == pipe.fifo[hw.read]
            next == (hw.read + 1) % FifoSize
            moved == hw.moved \o BytesOf(desc)
            status == hw.status \cup Raised(desc)
<1>1. /\ hw' = [hw EXCEPT !.read = next, !.status = status, !.moved = moved]
      /\ hw.read # hw.event /\ UNCHANGED <<pipe, job>>
  BY DEF Process
<1>2. desc \in Descs /\ hw.read \in Places /\ hw.moved \in Seq(Nat)
      /\ hw.status \in SUBSET {"end", "processed", "error"}
  BY DEF BamInv, PipeTypes, EngineTypes
<1>3. next \in Places
  <2>1. FifoSize \in Nat \ {0} /\ hw.read + 1 \in Nat
    BY <1>2 DEF BamAssumption, Places
  <2>. QED
    BY <2>1 DEF Places
<1>4. moved \in Seq(Nat) /\ status \in SUBSET {"end", "processed", "error"}
  BY <1>2, MovedTyped DEF Raised
<1>. HIDE DEF desc, next, moved, status
<1>5. EngineTypes' /\ hw'.read = next /\ hw'.event = hw.event /\ hw'.status = status /\ hw'.moved = moved
  <2>1. hw = [on |-> hw.on, read |-> hw.read, event |-> hw.event, status |-> hw.status,
              moved |-> hw.moved, errors |-> hw.errors]
        /\ hw.on \in BOOLEAN /\ hw.event \in Places /\ hw.errors \in Nat
    BY DEF BamInv, EngineTypes
  <2>2. hw' = [on |-> hw.on, read |-> next, event |-> hw.event, status |-> status,
               moved |-> moved, errors |-> hw.errors]
    BY <1>1, <2>1
  <2>. QED
    BY <1>3, <1>4, <2>1, <2>2 DEF EngineTypes
<1>6. job.pc \in {"bam", "failed", "wait", "clear"}
  BY <1>1 DEF BamInv, JobTypes, BamPCs, PhaseInv, BamAt, Quiet
<1>7. CASE BamAt("bam") \/ BamAt("failed")
  BY <1>1, <1>5, <1>7 DEF BamInv, PipeTypes, JobTypes, PhaseInv, BamAt
<1>8. CASE BamAt("wait") \/ BamAt("clear")
  <2>1. PICK r \in Places, n \in 0..FifoSize, k \in 0..FifoSize : \E cut \in Cuts(n, job.ask.len) : Begun(r, n, k, cut)
    BY <1>8 DEF BamInv, PhaseInv
  <2>2. PICK cut \in Cuts(n, job.ask.len) : Begun(r, n, k, cut)
    BY <2>1
  <2>3. Place(r, 0) = r
    BY PlacesFollow
  <2>4. n < FifoSize /\ k < n
    <3>1. n # FifoSize
      BY <1>1, <2>2, <2>3 DEF Begun
    <3>2. k # n
      BY <1>1, <2>2, <3>1 DEF Begun, BamAssumption
    <3>. QED
      BY <2>2, <3>1, <3>2 DEF Begun, BamAssumption
  <2>5. k \in 0..FifoSize - 1 /\ k + 1 \in 0..FifoSize /\ k + 1 \in 1..n /\ (k + 1) - 1 = k
    BY <2>4 DEF BamAssumption
  <2>6. next = Place(r, k + 1)
    BY <2>2, <2>5, PlacesFollow DEF Begun, next
  <2>7. desc.at = cut[k] + 1 /\ desc.size = cut[k + 1] - cut[k]
    <3>1. /\ pipe.fifo[Place(r, (k + 1) - 1)].at = cut[(k + 1) - 1] + 1
          /\ pipe.fifo[Place(r, (k + 1) - 1)].size = cut[k + 1] - cut[(k + 1) - 1]
      BY <2>2, <2>5 DEF Begun, LieFrom
    <3>. QED
      BY <2>2, <2>5, <3>1 DEF Begun, desc
  <2>8. cut[k] \in Nat /\ cut[k + 1] \in Nat /\ cut[k] <= cut[k + 1]
    <3>1. k \in 0..n /\ k + 1 \in 0..n /\ job.ask.len \in Nat
      BY <2>4, <2>5 DEF BamInv, JobTypes
    <3>2. cut \in [0..n -> 0..job.ask.len] /\ cut[(k + 1) - 1] <= cut[k + 1]
      BY <2>5 DEF Cuts
    <3>. QED
      BY <2>5, <3>1, <3>2
  <2>9. moved = UpTo(cut[k + 1])
    <3>. DEFINE a == cut[k]
                b == cut[k + 1]
    <3>1. hw.moved = UpTo(a)
      BY <2>2 DEF Begun
    <3>2. BytesOf(desc) = [i \in 1..(b - a) |-> a + 1 + i - 1]
      BY <2>7 DEF BytesOf
    <3>3. a \in Nat /\ b \in Nat /\ a <= b
      BY <2>8
    <3>. HIDE DEF a, b
    <3>4. UpTo(a) \o [i \in 1..(b - a) |-> a + 1 + i - 1] = UpTo(b)
      BY <3>3, BytesInOrder
    <3>5. moved = UpTo(b)
      BY <3>1, <3>2, <3>4 DEF moved
    <3>. QED
      BY <3>5 DEF b
  <2>10. Begun(r, n, k + 1, cut)'
    <3>1. k + 1 <= n /\ n # FifoSize
      BY <2>4, <2>5 DEF BamAssumption
    <3>2. pipe' = pipe /\ job' = job
      BY <1>1
    <3>. QED
      BY <1>5, <2>2, <2>6, <2>9, <3>1, <3>2 DEF Begun
  <2>11. \E rr \in Places, nn \in 0..FifoSize, kk \in 0..FifoSize : \E c \in Cuts(nn, job'.ask.len) : Begun(rr, nn, kk, c)'
    <3>1. cut \in Cuts(n, job'.ask.len)
      BY <1>1
    <3>. QED
      BY <2>5, <2>10, <3>1
  <2>12. PhaseInv'
    BY <1>1, <1>8, <2>11 DEF BamInv, PhaseInv, BamAt
  <2>. QED
    BY <1>1, <1>5, <2>12 DEF BamInv, PipeTypes, JobTypes
<1>. QED
  BY <1>6, <1>7, <1>8 DEF BamAt

LEMMA ErrorKeeps == ASSUME BamAssumption, BamInv, Error PROVE BamInv'
<1>1. hw.read # hw.event /\ UNCHANGED <<pipe, job>>
  BY DEF Error
<1>2. /\ EngineTypes' /\ hw'.read = hw.read /\ hw'.event = hw.event /\ hw'.moved = hw.moved
      /\ hw'.status \subseteq hw.status \cup {"error"}
  <2>1. hw.errors - 1 \in Nat /\ hw.status \cup {"error"} \in SUBSET {"end", "processed", "error"}
    BY DEF Error, BamInv, EngineTypes
  <2>. QED
    BY <2>1 DEF Error, BamInv, EngineTypes
<1>3. ASSUME NEW r, NEW n, NEW k, NEW cut, Begun(r, n, k, cut) PROVE Begun(r, n, k, cut)'
  BY <1>1, <1>2, <1>3 DEF Begun, BamAt
<1>4. PhaseInv'
  <2>1. job.pc \in {"bam", "failed", "wait", "clear"}
    BY <1>1 DEF BamInv, JobTypes, BamPCs, PhaseInv, BamAt, Quiet
  <2>. QED
    BY <1>1, <1>3, <2>1 DEF BamInv, PhaseInv, BamAt
<1>. QED
  BY <1>1, <1>2, <1>4 DEF BamInv, PipeTypes, JobTypes

LEMMA WaitKeeps == ASSUME BamAssumption, BamInv, Wait PROVE BamInv'
<1>1. BamAt("wait") /\ UNCHANGED <<pipe, hw>>
  BY DEF Wait
<1>2. /\ JobTypes' /\ job'.pc \in {"clear", "failed"} /\ job'.ask = job.ask /\ job'.queued = job.queued
      /\ job'.pc = "clear" => job.awaits \in hw.status
  BY DEF Wait, BamInv, JobTypes, BamPCs
<1>3. job.awaits # "error"
  BY DEF BamInv, JobTypes
<1>4. CASE job'.pc = "failed"
  BY <1>1, <1>2, <1>4 DEF BamInv, PipeTypes, EngineTypes, PhaseInv, BamAt
<1>5. CASE job'.pc = "clear"
  <2>1. ASSUME NEW r, NEW n, NEW k, NEW cut, Begun(r, n, k, cut) PROVE Begun(r, n, k, cut)'
    BY <1>1, <1>2, <1>3, <1>5, <2>1 DEF Begun, BamAt
  <2>2. PhaseInv'
    BY <1>1, <1>2, <1>5, <2>1 DEF BamInv, PhaseInv, BamAt
  <2>. QED
    BY <1>1, <1>2, <2>2 DEF BamInv, PipeTypes, EngineTypes
<1>. QED
  BY <1>2, <1>4, <1>5

LEMMA ClearKeeps == ASSUME BamAssumption, BamInv, ClearInterrupts PROVE BamInv'
<1>1. BamAt("clear") /\ UNCHANGED pipe
  BY DEF ClearInterrupts
<1>2. /\ EngineTypes' /\ hw'.read = hw.read /\ hw'.event = hw.event /\ hw'.moved = hw.moved
      /\ hw'.status = hw.status \ {"end", "processed"} /\ hw'.status \subseteq {"error"}
  BY DEF ClearInterrupts, BamInv, EngineTypes
<1>3. /\ JobTypes' /\ job'.pc \in {"done", "wait"} /\ job'.ask = job.ask /\ job'.queued = job.queued
      /\ job'.pc = "done" => hw.read = hw.event
  BY DEF ClearInterrupts, AllRead, BamInv, JobTypes, BamPCs
<1>4. ASSUME NEW r, NEW n, NEW k, NEW cut, Begun(r, n, k, cut) PROVE Begun(r, n, k, cut)'
  BY <1>1, <1>2, <1>3, <1>4 DEF Begun, BamAt
<1>5. PhaseInv'
  <2>1. job'.pc = "done" => Quiet'
    BY <1>2, <1>3 DEF Quiet
  <2>. QED
    BY <1>1, <1>3, <1>4, <2>1 DEF BamInv, PhaseInv, BamAt
<1>. QED
  BY <1>1, <1>2, <1>3, <1>5 DEF BamInv, PipeTypes

\* When the client has seen the end, all of the transfer has moved.
LEMMA AllMoved ==
  ASSUME BamAssumption, BamInv, BamAt("done") PROVE hw.moved = UpTo(job.ask.len)
<1>1. PICK r \in Places, n \in 0..FifoSize, k \in 0..FifoSize : \E cut \in Cuts(n, job.ask.len) : Begun(r, n, k, cut)
  BY DEF BamInv, PhaseInv
<1>2. PICK cut \in Cuts(n, job.ask.len) : Begun(r, n, k, cut)
  BY <1>1
<1>3. hw.read = hw.event
  BY DEF BamInv, PhaseInv, Quiet
<1>4. n # FifoSize
  BY <1>2 DEF Begun, BamAt
<1>5. n \in 0..FifoSize - 1 /\ k \in 0..FifoSize - 1 /\ n < FifoSize
  BY <1>2, <1>4 DEF Begun, BamAssumption
<1>6. Place(r, k) = Place(r, n)
  BY <1>2, <1>3, <1>5 DEF Begun
<1>7. k = n
  BY <1>5, <1>6, PlacesFollow
<1>. QED
  BY <1>2, <1>7 DEF Begun, Cuts

LEMMA UpdateKeeps == ASSUME BamAssumption, BamInv, ReadOffsetUpdate PROVE BamInv'
<1>1. BamAt("done") /\ UNCHANGED hw
  BY DEF ReadOffsetUpdate
<1>2. JobTypes' /\ job'.pc = "ready" /\ job'.ask = job.ask /\ job'.queued = job.queued
  BY DEF ReadOffsetUpdate, BamInv, JobTypes, BamPCs
<1>3. PipeTypes' /\ pipe'.current = hw.read /\ pipe'.offset = hw.read + 1
  <2>1. hw.read \in Places /\ hw.read + 1 \in 1..FifoSize
    BY DEF BamInv, EngineTypes, Places, BamAssumption
  <2>. QED
    BY <2>1 DEF ReadOffsetUpdate, BamInv, PipeTypes
<1>4. PhaseInv'
  BY <1>1, <1>2, <1>3, AllMoved DEF BamInv, PhaseInv, BamAt, Quiet
<1>. QED
  BY <1>1, <1>2, <1>3, <1>4 DEF BamInv, EngineTypes

LEMMA BamStep == ASSUME BamAssumption, BamInv, [BamNext]_bamVars PROVE BamInv'
<1>1. CASE UNCHANGED bamVars
  BY <1>1 DEF bamVars, BamInv, PipeTypes, EngineTypes, JobTypes, PhaseInv, Begun, BamAt, Quiet
<1>2. CASE InitBam \/ SysPipeInit \/ PipeFifoInit \/ SetUpAgain
  BY <1>2, SetUpKeeps
<1>3. CASE GenEvent
  BY <1>3, GenEventKeeps
<1>4. CASE Process \/ Error
  BY <1>4, ProcessKeeps, ErrorKeeps
<1>5. CASE Wait \/ ClearInterrupts \/ ReadOffsetUpdate
  BY <1>5, WaitKeeps, ClearKeeps, UpdateKeeps
<1>6. ASSUME NEW awaits \in {"end", "processed"}, QueueDesc(awaits) PROVE BamInv'
  BY <1>6, QueueKeeps
<1>7. ASSUME NEW awaits \in {"end", "processed"},
             NEW len \in {1, MaxLen, MaxLen + 1, (FifoSize - 1) * MaxLen, FifoSize * MaxLen, FifoSize * MaxLen + 1},
             AddDesc(len, awaits)
      PROVE  BamInv'
  <2>1. (FifoSize - 1) * MaxLen \in Nat /\ FifoSize * MaxLen \in Nat /\ MaxLen \in Nat
    BY DEF BamAssumption
  <2>2. len \in Nat
    BY <2>1
  <2>. QED
    BY <1>7, <2>2, AddKeeps
<1>. QED
  BY <1>1, <1>2, <1>3, <1>4, <1>5, <1>6, <1>7 DEF BamNext

LEMMA BamPromises == ASSUME BamAssumption, BamInv PROVE TransferMoved
<1>1. job.ask.len \in Nat /\ job.pc \in BamPCs
  BY DEF BamInv, JobTypes
<1>2. ASSUME NEW j \in 0..job.ask.len, hw.moved = UpTo(j) PROVE IsPrefix(hw.moved, UpTo(job.ask.len))
  <2>1. j \in Nat /\ j <= job.ask.len
    BY <1>1
  <2>2. IsPrefix(UpTo(j), UpTo(job.ask.len))
    BY <1>1, <2>1, BytesInOrder
  <2>. QED
    BY <1>2, <2>2
<1>3. ASSUME BamAt("off") \/ BamAt("pipe") \/ BamAt("queue") PROVE IsPrefix(hw.moved, UpTo(job.ask.len))
  <2>1. hw.moved = UpTo(0)
    BY <1>3, EmptyBytes DEF BamInv, PhaseInv
  <2>. QED
    BY <1>1, <1>2, <2>1
<1>4. ASSUME BamAt("ready") PROVE IsPrefix(hw.moved, UpTo(job.ask.len))
  <2>1. hw.moved = UpTo(job.ask.len)
    BY <1>4 DEF BamInv, PhaseInv
  <2>. QED
    BY <1>1, <1>2, <2>1
<1>5. ASSUME BamAt("wait") \/ BamAt("clear") \/ BamAt("done") PROVE IsPrefix(hw.moved, UpTo(job.ask.len))
  <2>1. PICK r \in Places, n \in 0..FifoSize, k \in 0..FifoSize : \E cut \in Cuts(n, job.ask.len) : Begun(r, n, k, cut)
    BY <1>5 DEF BamInv, PhaseInv
  <2>2. PICK cut \in Cuts(n, job.ask.len) : Begun(r, n, k, cut)
    BY <2>1
  <2>3. cut[k] \in 0..job.ask.len
    BY <2>2 DEF Begun, Cuts, BamAssumption
  <2>. QED
    BY <1>2, <2>2, <2>3 DEF Begun
<1>6. ~(BamAt("bam") \/ BamAt("failed")) => IsPrefix(hw.moved, UpTo(job.ask.len))
  BY <1>1, <1>3, <1>4, <1>5 DEF BamAt, BamPCs
<1>7. BamAt("done") => Len(hw.moved) = job.ask.len
  <2>1. Len(UpTo(job.ask.len)) = job.ask.len
    <3>1. \A m \in Nat : Len(UpTo(m)) = m
      BY DEF UpTo
    <3>. QED
      BY <1>1, <3>1
  <2>. QED
    BY <2>1, AllMoved
<1>8. BamAt("ready") => pipe.current = hw.read /\ hw.read = hw.event
  BY DEF BamInv, PhaseInv, Quiet
<1>. QED
  BY <1>6, <1>7, <1>8 DEF TransferMoved, UpTo

\* For every size of the FIFO and of a descriptor, every number of transfers and of errors on the
\* bus: the engine moves the bytes of the transfer in their order and no other, wherever in the
\* FIFO the transfer begins; when the wait succeeds it has moved them all, and driver and hardware
\* agree on where the next descriptor goes (bam_add_desc, bam_add_one_desc, bam_sys_gen_event,
\* bam_wait_for_interrupt, bam_read_offset_update).
THEOREM TransfersMove == ASSUME BamAssumption PROVE BamSpec => []TransferMoved
<1>1. BamInit => BamInv
  BY BamStarts
<1>2. BamInv /\ [BamNext]_bamVars => BamInv'
  BY BamStep
<1>3. BamInv => TransferMoved
  BY BamPromises
<1>. QED
  BY <1>1, <1>2, <1>3, PTL DEF BamSpec
=============================================================================
