------------------------------- MODULE GpioTlmm -------------------------------
(***************************************************************************)
(* Pins and interrupts: the reset of the interrupt controller before DXE   *)
(* (EarlyQGic), the table of handlers (InterruptsLib), the pins            *)
(* (GpioTlmmDxe) and their interrupts behind one summary line              *)
(* (GpioTlmmInterruptDxe).  The registers of a pin are numbers, as every   *)
(* call reads, changes a field and writes back.  An interrupt is taken     *)
(* between any two steps, except at TPL_HIGH_LEVEL.                        *)
(***************************************************************************)
EXTENDS Integers, Sequences

CONSTANTS Pins, GpioCalls,
          SummaryIrq, OtherIrqs     \* the line of the pins, and those of other drivers

VARIABLES gic,      \* the interrupt controller: lines enabled and pending
          lib,      \* InterruptsLib: entries of mHandlers, and the call under way
          pin,      \* registers of the pins, enabled_irqs and pindata
          want      \* ghost: what the callers asked for
gpioVars == <<gic, lib, pin, want>>

Irqs == {SummaryIrq} \cup OtherIrqs

(***************************************************************************)
(* Fields of the registers (the PCDs of the board).                        *)
(***************************************************************************)
NumFunctions == 12
OrderBase2(n) == CHOOSE k \in 0..31 : 2^k >= n /\ (k = 0 \/ 2^(k - 1) < n)
Fld(off, width) == [off |-> off, width |-> width]
Pull == Fld(0, 2)
MuxBaseMutant(n) == Fld(2, n)
MuxField(n) == Fld(2, OrderBase2(n))
Mux == MuxField(NumFunctions)
Drv == Fld(6, 3)
Oe == Fld(9, 1)
OutBit == Fld(1, 1)
Enable == Fld(0, 1)
Polarity == Fld(1, 1)
Detection == Fld(2, 2)
RawStatus == Fld(4, 1)
Target == Fld(5, 3)

Get(reg, f) == (reg \div 2^f.off) % 2^f.width
Put(reg, f, v) == reg - Get(reg, f) * 2^f.off + v * 2^f.off

(* msm_gpio_irq_set_type.                                                  *)
Types == {"rising", "falling", "both", "low", "high"}
DetectionOf == [rising |-> 1, falling |-> 2, both |-> 3, low |-> 0, high |-> 0]
PolarityOf == [rising |-> 1, falling |-> 1, both |-> 1, low |-> 0, high |-> 1]
ToApps(cfg) == Put(cfg, Target, 4)
Typed(cfg, type) ==
    Put(Put(Put(ToApps(cfg), RawStatus, 1), Detection, DetectionOf[type]), Polarity, PolarityOf[type])

----------------------------------------------------------------------------
(* The boot stage before left any line enabled or pending, the pins in     *)
(* their reset state.                                                      *)
PinReset == [ctl |-> 1, io |-> 0, cfg |-> 0, status |-> FALSE, enabled |-> FALSE, custom |-> FALSE, handler |-> "none"]
WantReset == [fn |-> 0, drv |-> 0, pull |-> 1, oe |-> 0, out |-> {0}, type |-> "low", on |-> 0, typed |-> FALSE]
GpioInit ==
    /\ \E left, raised \in SUBSET Irqs : gic = [on |-> TRUE, enabled |-> left, pending |-> raised]
    /\ lib = [entries |-> {}, sources |-> {}, pc |-> "boot", irq |-> SummaryIrq, todo |-> OtherIrqs, tpl |-> "high",
              unmasked |-> {}, out |-> <<>>, calls |-> GpioCalls]
    /\ pin = [p \in Pins |-> PinReset]
    /\ want = [p \in Pins |-> WantReset]

At(pc) == lib.pc = pc
Goto(pc) == lib' = [lib EXCEPT !.pc = pc]
OnlyGic == UNCHANGED <<pin, want>>

(***************************************************************************)
(* QGicPeim: the controller off, every line disabled and not pending, then *)
(* on again.                                                               *)
(***************************************************************************)
QGicHardwareReset == At("boot") /\ gic' = [gic EXCEPT !.on = FALSE, !.enabled = {}, !.pending = {}] /\ Goto("dist") /\ OnlyGic
QGicDistInit ==
    /\ At("dist")
    /\ gic' = [gic EXCEPT !.on = TRUE, !.enabled = {}]
    /\ lib' = [lib EXCEPT !.pc = "init", !.tpl = "low"]
    /\ OnlyGic

(***************************************************************************)
(* register_int_handler; the controller enables a source that is given a   *)
(* handler.                                                                *)
(***************************************************************************)
(* msm_gpio_irq_init forgets the handlers of the pins first.               *)
IrqInit ==
    /\ At("init")
    /\ pin' = [p \in Pins |-> [pin[p] EXCEPT !.handler = "none", !.custom = FALSE]]
    /\ Goto("find") /\ UNCHANGED <<gic, want>>
FindEntry == At("find") /\ lib.irq \notin lib.entries /\ Goto("insert") /\ UNCHANGED gic /\ OnlyGic
InsertEntry == At("insert") /\ lib' = [lib EXCEPT !.entries = @ \cup {lib.irq}, !.pc = "raise"] /\ UNCHANGED gic /\ OnlyGic
RaiseTpl == At("raise") /\ lib' = [lib EXCEPT !.tpl = "high", !.pc = "source"] /\ UNCHANGED gic /\ OnlyGic
RegisterSource ==
    /\ At("source")
    /\ gic' = [gic EXCEPT !.enabled = @ \cup {lib.irq}]
    /\ lib' = [lib EXCEPT !.sources = @ \cup {lib.irq}, !.pc = "mask"]
    /\ OnlyGic
LeaveEnabledMutant(enabled, i) == enabled
Masked(enabled, i) == enabled \ {i}
MaskSource == At("mask") /\ gic' = [gic EXCEPT !.enabled = Masked(@, lib.irq)] /\ Goto("restore") /\ OnlyGic
RestoreTpl == At("restore") /\ lib' = [lib EXCEPT !.tpl = "low", !.pc = "unmask"] /\ UNCHANGED gic /\ OnlyGic

(* The pins' line is unmasked at once (msm_gpio_irq_set_wake); the other   *)
(* drivers unmask theirs, or never do.                                     *)
Unmask ==
    /\ At("unmask")
    /\ gic' = [gic EXCEPT !.enabled = @ \cup {lib.irq}]
    /\ lib' = [lib EXCEPT !.unmasked = @ \cup {lib.irq}, !.pc = "ready"]
    /\ OnlyGic
LeaveMasked == At("unmask") /\ lib.irq # SummaryIrq /\ Goto("ready") /\ UNCHANGED gic /\ OnlyGic
NextDriver(i) ==
    /\ At("ready") /\ i \in lib.todo
    /\ lib' = [lib EXCEPT !.todo = @ \ {i}, !.irq = i, !.pc = "find"]
    /\ UNCHANGED gic /\ OnlyGic
MaskInterrupt(i) ==
    /\ At("ready") /\ i \in lib.unmasked
    /\ gic' = [gic EXCEPT !.enabled = Masked(@, i)]
    /\ lib' = [lib EXCEPT !.unmasked = @ \ {i}]
    /\ OnlyGic

(***************************************************************************)
(* Interrupts.  The handler of the pins calls that of every enabled pin    *)
(* with a status; acknowledging is the client's.                           *)
(***************************************************************************)
Flagged(p) == pin[p].enabled /\ pin[p].status
Asserted == \E p \in Pins : Get(pin[p].cfg, Enable) = 1 /\ pin[p].status
DeviceRaises(i) == i \in OtherIrqs /\ gic' = [gic EXCEPT !.pending = @ \cup {i}] /\ UNCHANGED <<lib, pin, want>>
PinEvent(p) ==
    /\ ~pin[p].status /\ pin' = [pin EXCEPT ![p].status = TRUE]
    /\ UNCHANGED <<gic, lib, want>>
SummaryRaised == Asserted /\ SummaryIrq \notin gic.pending /\ gic' = [gic EXCEPT !.pending = @ \cup {SummaryIrq}] /\ UNCHANGED <<lib, pin, want>>
TakeInterrupt(i) ==
    /\ gic.on /\ lib.tpl = "low" /\ i \in gic.enabled \cap gic.pending
    /\ i \in lib.entries            \* ASSERT (Entry)
    /\ gic' = [gic EXCEPT !.pending = @ \ {i}]
    /\ pin' = [p \in Pins |-> IF i = SummaryIrq /\ Flagged(p) /\ pin[p].custom THEN [pin[p] EXCEPT !.status = FALSE] ELSE pin[p]]
    /\ UNCHANGED <<lib, want>>

(***************************************************************************)
(* Calls on a pin.                                                         *)
(***************************************************************************)
Calling == At("ready") /\ lib.calls > 0
Called == lib' = [lib EXCEPT !.calls = @ - 1] /\ UNCHANGED gic
Change(p, new, asked) == pin' = [pin EXCEPT ![p] = new] /\ want' = [want EXCEPT ![p] = asked]

SetFunction(p, fn) == Calling /\ Called /\ Change(p, [pin[p] EXCEPT !.ctl = Put(@, Mux, fn)], [want[p] EXCEPT !.fn = fn])
ValidStrength(ma) == ma <= 16 /\ ma >= 2 /\ ma % 2 = 0
SetDriveStrength(p, ma) ==
    /\ Calling /\ Called
    /\ IF ValidStrength(ma) THEN Change(p, [pin[p] EXCEPT !.ctl = Put(@, Drv, (ma \div 2) - 1)], [want[p] EXCEPT !.drv = (ma \div 2) - 1])
       ELSE UNCHANGED <<pin, want>>
SetPull(p, pull) ==
    /\ Calling /\ Called
    /\ IF pull < 4 THEN Change(p, [pin[p] EXCEPT !.ctl = Put(@, Pull, pull)], [want[p] EXCEPT !.pull = pull]) ELSE UNCHANGED <<pin, want>>
DirectionInput(p) == Calling /\ Called /\ Change(p, [pin[p] EXCEPT !.ctl = Put(@, Oe, 0)], [want[p] EXCEPT !.oe = 0])
SetValue(p, v) == Calling /\ Called /\ Change(p, [pin[p] EXCEPT !.io = Put(@, OutBit, v)], [want[p] EXCEPT !.out = {v}])

(* The value is written before the pin becomes an output; until then an    *)
(* output may still drive the value before.                                *)
DirectionOutput(p, v) ==
    /\ Calling
    /\ lib' = [lib EXCEPT !.calls = @ - 1, !.pc = "output", !.out = <<p, v>>]
    /\ Change(p, [pin[p] EXCEPT !.io = Put(@, OutBit, v)], [want[p] EXCEPT !.out = IF want[p].oe = 1 THEN @ \cup {v} ELSE {v}])
    /\ UNCHANGED gic
EnableOutput ==
    /\ At("output")
    /\ LET p == lib.out[1] IN Change(p, [pin[p] EXCEPT !.ctl = Put(@, Oe, 1)], [want[p] EXCEPT !.oe = 1, !.out = {lib.out[2]}])
    /\ lib' = [lib EXCEPT !.pc = "ready", !.out = <<>>] /\ UNCHANGED gic

(* tlmm_set_hdrive_ctrl and tlmm_set_pull_ctrl: fields one after another.  *)
TlmmSetPins(p, drv, pull) ==
    /\ Calling /\ Called
    /\ Change(p, [pin[p] EXCEPT !.ctl = Put(Put(@, Drv, drv), Pull, pull)], [want[p] EXCEPT !.drv = drv, !.pull = pull])

IrqMask(p) == Calling /\ Called /\ Change(p, [pin[p] EXCEPT !.cfg = Put(@, Enable, 0), !.enabled = FALSE], [want[p] EXCEPT !.on = 0])
IrqUnmask(p) ==
    /\ Calling /\ Called /\ pin[p].custom
    /\ Change(p, [pin[p] EXCEPT !.cfg = Put(@, Enable, 1), !.enabled = TRUE], [want[p] EXCEPT !.on = 1])
IrqAck(p) == Calling /\ Called /\ Change(p, [pin[p] EXCEPT !.status = FALSE], want[p])
SetType(p, type) ==
    /\ Calling /\ Called
    /\ Change(p, [pin[p] EXCEPT !.cfg = Typed(@, type), !.handler = IF type \in {"low", "high"} THEN "level" ELSE "edge"],
              [want[p] EXCEPT !.type = type, !.typed = TRUE])
SetCustomHandler(p) == Calling /\ Called /\ Change(p, [pin[p] EXCEPT !.custom = TRUE], want[p])

GpioNext ==
    \/ QGicHardwareReset \/ QGicDistInit \/ IrqInit \/ FindEntry \/ InsertEntry \/ RaiseTpl \/ RegisterSource \/ MaskSource
    \/ RestoreTpl \/ Unmask \/ LeaveMasked \/ SummaryRaised \/ EnableOutput
    \/ \E i \in Irqs : NextDriver(i) \/ MaskInterrupt(i) \/ DeviceRaises(i) \/ TakeInterrupt(i)
    \/ \E p \in Pins :
        \/ PinEvent(p) \/ DirectionInput(p) \/ IrqMask(p) \/ IrqUnmask(p) \/ IrqAck(p) \/ SetCustomHandler(p)
        \/ \E fn \in {0, 2, 11} : SetFunction(p, fn)
        \/ \E ma \in {0, 3, 2, 16} : SetDriveStrength(p, ma)
        \/ \E pull \in {0, 3, 4} : SetPull(p, pull)
        \/ \E v \in {0, 1} : SetValue(p, v) \/ DirectionOutput(p, v)
        \/ \E type \in Types : SetType(p, type)
        \/ TlmmSetPins(p, 5, 2)
GpioSpec == GpioInit /\ [][GpioNext]_gpioVars

----------------------------------------------------------------------------
(* Below TPL_HIGH_LEVEL a line is enabled only while it has a handler and  *)
(* its driver wants it, whatever the boot stage before left enabled, so    *)
(* the assertion of InterruptsLibIrqHandler holds (Interrupts.c:53).       *)
OnlyWantedInterrupts ==
    /\ lib.tpl = "low" => gic.enabled \subseteq lib.unmasked \cap lib.entries
    /\ lib.sources \subseteq lib.entries

(* After any calls in any order, every field of a pin's registers holds    *)
(* what was last asked for it; an output never drives a value that nobody  *)
(* asked for; and the pins scanned by the handler are those enabled.       *)
PinAsConfigured ==
    \A p \in Pins :
        LET r == pin[p]
            w == want[p]
        IN /\ Get(r.ctl, Mux) = w.fn /\ Get(r.ctl, Drv) = w.drv /\ Get(r.ctl, Pull) = w.pull /\ Get(r.ctl, Oe) = w.oe
           /\ (w.oe = 1 \/ Get(r.ctl, Oe) = 1) => Get(r.io, OutBit) \in w.out
           /\ Get(r.cfg, Enable) = w.on /\ (r.enabled <=> w.on = 1)
           /\ w.typed => /\ Get(r.cfg, Detection) = DetectionOf[w.type] /\ Get(r.cfg, Polarity) = PolarityOf[w.type]
                         /\ Get(r.cfg, Target) = 4 /\ Get(r.cfg, RawStatus) = 1
           /\ r.ctl < 2^10 /\ r.cfg < 2^8
=============================================================================
