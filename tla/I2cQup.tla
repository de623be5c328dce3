------------------------------- MODULE I2cQup --------------------------------
(***************************************************************************)
(* The I2C controller (QUP) as I2cQupDxe drives it, and the bring-up of    *)
(* the HDMI bridge over it.  qup_i2c_xfer builds a stream of tags from one *)
(* write, one read, or a write and a read; resets the controller; passes   *)
(* through RUN and PAUSE, where the stream is put into the output FIFO;    *)
(* and polls until the controller has emptied the stream, and for a read   *)
(* filled the input FIFO.  The controller works on the stream in the       *)
(* meantime, byte by byte.  (What follows the polled block in the source   *)
(* is never reached.)                                                      *)
(*                                                                         *)
(* The bridge is a file of registers; a write sends a register and its     *)
(* value, a read sends the register and takes the value.                   *)
(***************************************************************************)
EXTENDS Integers, Sequences

CONSTANTS I2cFaults     \* bound on the refusals and time-outs of a behaviour

I2cFaultsAssumption == I2cFaults \in Nat

VARIABLES i2c,      \* the driver: its place in the bring-up and in a transfer, the transfer's data
          qup,      \* the controller: state, FIFOs, flags
          bridge    \* the HDMI bridge: registers, and what it took and sent in this transfer

i2cVars == <<i2c, qup, bridge>>

(* The bytes: registers and values by name.  val & ~0x40 powers up.        *)
PoweredUp(v) == IF v = "off" THEN "on" ELSE v

(* Messages, and the calls of the bring-up: I2cQupReadReg and              *)
(* I2cQupWriteReg of I2cQupDxe, then those of DisplayDxe, whose results    *)
(* are dropped, and a pattern that qup_i2c_xfer does not know.             *)
WriteMsg(bytes) == [rd |-> FALSE, bytes |-> bytes]
ReadMsg(n) == [rd |-> TRUE, n |-> n]
ReadReg(r) == <<WriteMsg(<<r>>), ReadMsg(1)>>
WriteReg(r, v) == <<WriteMsg(<<r, v>>)>>
BringUp(val) == <<ReadReg("rev"), WriteReg("hpd", "c0"), ReadReg("power"), WriteReg("power", PoweredUp(val)), ReadReg("power")>>
DisplayCalls == <<WriteReg("power", "10"), WriteReg("hpd", "c0"), <<ReadMsg(2)>>, WriteReg("a", "b") \o WriteReg("a", "b")>>
JobsOf(val) == BringUp(val) \o DisplayCalls

(* The tag stream of the messages.                                         *)
Start(m) == <<[tag |-> "start", rd |-> m.rd]>>
DataWr(m, stop) == Start(m) \o <<[tag |-> "wr", stop |-> stop]>> \o [i \in 1..Len(m.bytes) |-> [tag |-> "byte", v |-> m.bytes[i]]]
DataRd(m) == Start(m) \o <<[tag |-> "rd", n |-> m.n]>>
Known(ms) == \/ Len(ms) = 1
             \/ Len(ms) = 2 /\ ~ms[1].rd /\ ms[2].rd
Stream(ms) == IF Len(ms) = 2 THEN DataWr(ms[1], FALSE) \o DataRd(ms[2])
              ELSE IF ms[1].rd THEN DataRd(ms[1]) ELSE DataWr(ms[1], TRUE)
ReadLimit == 60
RdLen(ms) == IF ~ms[Len(ms)].rd THEN 0 ELSE IF ms[Len(ms)].n > ReadLimit THEN ReadLimit ELSE ms[Len(ms)].n

IdleQup == [state |-> "reset", gen |-> FALSE, out |-> <<>>, in |-> <<>>, want |-> 0, due |-> 0, error |-> FALSE]

I2cInit ==
    /\ i2c = [pc |-> "init", job |-> 0, msgs |-> <<>>, rc |-> "ok", op |-> [out |-> FALSE, in |-> FALSE], buf |-> <<>>,
              val |-> "0", progress |-> 0, faults |-> I2cFaults, allOk |-> TRUE]
    /\ qup = IdleQup
    /\ bridge = [regs |-> [r \in {"rev", "hpd", "power", "a"} |-> CASE r = "rev" -> "rev" [] r = "power" -> "off" [] OTHER -> "boot"],
                 ptr |-> "rev", count |-> 0, taken |-> <<>>, sent |-> <<>>]

At(pc) == i2c.pc = pc
Jump(pc) == i2c' = [i2c EXCEPT !.pc = pc]
(* One of the limited waits runs out.                                      *)
TimesOut(to) == i2c.faults > 0 /\ i2c' = [i2c EXCEPT !.pc = to, !.rc = "error", !.faults = @ - 1]

(* I2cQupDxeInitialize up to the registration of the bus: supplies, clocks,*)
(* pins and the bridge's enable, with their waits.                         *)
InitBus == At("init") /\ Jump("idle") /\ UNCHANGED <<qup, bridge>>

Xfer ==
    /\ At("idle") /\ i2c.job < Len(JobsOf(i2c.val))
    /\ LET ms == JobsOf(i2c.val)[i2c.job + 1]
       IN i2c' = [i2c EXCEPT !.job = @ + 1, !.msgs = ms, !.rc = IF Known(ms) THEN "ok" ELSE "error",
                             !.progress = 1, !.buf = <<>>, !.pc = IF Known(ms) THEN "sw_reset" ELSE "done"]
    /\ UNCHANGED <<qup, bridge>>

(* A transfer given up in the middle may still run on the bus until here.  *)
SwReset ==
    /\ At("sw_reset")
    /\ \/ /\ qup' = IdleQup /\ Jump("gen")
          /\ bridge' = [bridge EXCEPT !.taken = <<>>, !.sent = <<>>, !.count = 0]
       \/ qup' = [qup EXCEPT !.state = "reset"] /\ TimesOut("done") /\ UNCHANGED bridge

MasterGen ==
    /\ At("gen")
    /\ \/ qup' = [qup EXCEPT !.gen = TRUE, !.want = IF RdLen(i2c.msgs) > 0 THEN RdLen(i2c.msgs) + 2 ELSE 0] /\ Jump("run")
       \/ TimesOut("done") /\ UNCHANGED qup
    /\ UNCHANGED bridge

(* qup_update_state: on a time-out the state was written or not.           *)
UpdateState(s, to, failed) ==
    \/ qup' = [qup EXCEPT !.state = s] /\ Jump(to)
    \/ qup' \in {qup, [qup EXCEPT !.state = s]} /\ TimesOut(failed)

FirstRun == At("run") /\ UpdateState("run", "pause", "done") /\ UNCHANGED bridge
Pause == At("pause") /\ UpdateState("pause", "push", "done") /\ UNCHANGED bridge
Push == At("push") /\ qup' = [qup EXCEPT !.out = Stream(i2c.msgs)] /\ Jump("start") /\ UNCHANGED bridge
SecondRun == At("start") /\ UpdateState("run", "poll", "done") /\ UNCHANGED bridge

(* One round of the loop: QUP_OPERATIONAL is read first. Its bit for a     *)
(* NACK is tested before the transfer's end, the error flags of            *)
(* QUP_I2C_STATUS only after it: a refusal with everything out is noticed  *)
(* if the controller shows it in that bit.                                 *)
ReadOperational ==
    /\ At("poll")
    /\ i2c' = [i2c EXCEPT !.pc = "polled", !.op = [out |-> qup.out = <<>>, in |-> Len(qup.in) >= qup.want]]
    /\ UNCHANGED <<qup, bridge>>
OutputOnlyMutant == i2c.op.out
TransferDone == i2c.op.out /\ (RdLen(i2c.msgs) > 0 => i2c.op.in)
CheckOperational ==
    /\ At("polled")
    /\ \/ TransferDone /\ Jump("drain")
       \/ qup.error /\ i2c' = [i2c EXCEPT !.pc = "teardown", !.rc = "error"]
       \/ ~TransferDone /\ ~qup.error /\ (Jump("poll") \/ TimesOut("teardown"))
    /\ UNCHANGED <<qup, bridge>>

(* The input FIFO holds a tag and a length before the data; past its end   *)
(* it yields what was there before.                                        *)
HeaderLen == 2
FromFifo(i) == IF i <= Len(qup.in) THEN qup.in[i] ELSE "junk"
Drain ==
    /\ At("drain")
    /\ i2c' = [i2c EXCEPT !.pc = "teardown", !.buf = [i \in 1..RdLen(i2c.msgs) |-> FromFifo(HeaderLen + i)]]
    /\ UNCHANGED <<qup, bridge>>

Teardown ==
    /\ At("teardown")
    /\ Jump("done")
    /\ \/ qup' = [qup EXCEPT !.state = "reset"]
       \/ UNCHANGED qup
    /\ UNCHANGED bridge

(* The caller takes the byte it read only if the call succeeded.           *)
Return ==
    /\ At("done")
    /\ i2c' = [i2c EXCEPT !.pc = "idle", !.progress = 0, !.allOk = @ /\ i2c.rc = "ok",
                          !.val = IF i2c.rc = "ok" /\ RdLen(i2c.msgs) = 1 THEN i2c.buf[1] ELSE @]
    /\ UNCHANGED <<qup, bridge>>

DriverStep ==
    \/ InitBus \/ Xfer \/ SwReset \/ MasterGen \/ FirstRun \/ Pause \/ Push \/ SecondRun
    \/ ReadOperational \/ CheckOperational \/ Drain \/ Teardown \/ Return

----------------------------------------------------------------------------
Working == qup.state = "run" /\ qup.out # <<>> /\ qup.due = 0 /\ ~qup.error
Next1 == Head(qup.out)
Taken == [qup EXCEPT !.out = Tail(@)]

StartOnBus ==
    /\ Working /\ Next1.tag \in {"start", "wr"}
    /\ qup' = Taken
    /\ bridge' = IF Next1.tag = "start" THEN [bridge EXCEPT !.count = 0] ELSE bridge
    /\ UNCHANGED i2c

ByteOnBus ==
    /\ Working /\ Next1.tag = "byte"
    /\ qup' = Taken
    /\ bridge' = [bridge EXCEPT !.count = @ + 1, !.taken = Append(@, Next1.v),
                                !.ptr = IF bridge.count = 0 THEN Next1.v ELSE @,
                                !.regs = IF bridge.count = 0 THEN @ ELSE [@ EXCEPT ![bridge.ptr] = Next1.v]]
    /\ UNCHANGED i2c

(* The order to read leaves the output FIFO before its bytes come; a tag   *)
(* and the length precede them in the input FIFO.                          *)
ReadOrder ==
    /\ Working /\ Next1.tag = "rd"
    /\ qup' = [Taken EXCEPT !.due = Next1.n, !.in = <<"tag", "len">>]
    /\ UNCHANGED <<i2c, bridge>>
ReadOnBus ==
    /\ qup.state = "run" /\ qup.due > 0
    /\ qup' = [qup EXCEPT !.due = @ - 1, !.in = Append(@, bridge.regs[bridge.ptr])]
    /\ bridge' = [bridge EXCEPT !.sent = Append(@, bridge.regs[bridge.ptr])]
    /\ UNCHANGED i2c

(* An address or a byte is not acknowledged: the controller stops there,   *)
(* with the error flag; the refused byte has left the FIFO.                *)
Refused ==
    /\ Working /\ Next1.tag \in {"start", "byte"} /\ i2c.faults > 0
    /\ qup' = [Taken EXCEPT !.error = TRUE]
    /\ i2c' = [i2c EXCEPT !.faults = @ - 1]
    /\ UNCHANGED bridge

I2cNext == DriverStep \/ StartOnBus \/ ByteOnBus \/ ReadOrder \/ ReadOnBus \/ Refused
I2cSpec == I2cInit /\ [][I2cNext]_i2cVars

----------------------------------------------------------------------------
Returned == At("done") /\ i2c.rc = "ok"
BytesOf(ms) == IF ms[1].rd THEN <<>> ELSE ms[1].bytes

(* A transfer that returns its number of messages took place: the bridge   *)
(* took every byte written to it, except that a refusal of the last byte   *)
(* of a write may go unnoticed, because it also empties the FIFO; and the  *)
(* caller has the bytes the bridge sent.  If every transfer of the bring-up*)
(* succeeded and none was refused, the bridge is powered up and the value  *)
(* read back is the one written (qup_i2c_xfer, I2cQupDxeInitialize).       *)
TransferReal ==
    /\ Returned =>
          /\ \/ bridge.taken = BytesOf(i2c.msgs)
             \/ qup.error /\ Len(i2c.msgs) = 1 /\ Append(bridge.taken, i2c.msgs[1].bytes[Len(i2c.msgs[1].bytes)]) = i2c.msgs[1].bytes
          /\ i2c.buf = bridge.sent
    /\ At("idle") => i2c.progress = 0
    /\ (At("idle") /\ i2c.job = 5 /\ i2c.allOk /\ i2c.faults = I2cFaults) =>
          bridge.regs["power"] = "on" /\ bridge.regs["hpd"] = "c0" /\ i2c.val = "on"
=============================================================================
