---------------------------- MODULE SpmiArbiter ----------------------------
(***************************************************************************)
(* The PMIC arbiter of SpmiDxe/spmi.c: how one read or write command is    *)
(* carried by a channel of the arbiter.  The channel is kept in a global   *)
(* (pmic_arb_chnl_num), data goes through registers of four bytes, and the *)
(* driver spins on the status register without a limit.                    *)
(*                                                                         *)
(* Arbiters of version 2 have one channel for each peripheral, found in a  *)
(* table that spmi_init fills; a command to version 1 names the peripheral *)
(* itself.  spmi_version selects the register layout, pmic_arb_ver the     *)
(* look-up, and the two come from different places (a PCD and a register). *)
(***************************************************************************)
EXTENDS Integers, Sequences

CONSTANTS Peripherals,     \* the <<slave id, peripheral id>> pairs of the PMIC
          Channels,        \* the channels that exist, 0 .. max_peripherals - 1
          ChannelOwner,    \* what version 2's REG_CHLN holds: a peripheral or NoPeripheral
          NoPeripheral,
          Offsets,         \* offsets commands start at
          Sizes,           \* sizes of a command's buffer
          SpmiCommands     \* bound on the commands of a behaviour

Unmapped == 255
DefaultChannel == 0        \* PcdPmicArbChannelNum
NoTable == [p \in Peripherals |-> Unmapped]

Bytes == 0..15             \* offsets that hold a byte

SpmiAssumption ==
    /\ \E n \in 1..Unmapped : Channels = 0..(n - 1)
    /\ ChannelOwner \in [Channels -> Peripherals \cup {NoPeripheral}]
    /\ Offsets \subseteq Nat /\ Sizes \subseteq 1..8
    /\ \A o \in Offsets, n \in Sizes : o..(o + n - 1) \subseteq Bytes
    /\ SpmiCommands \in Nat

VARIABLES spmi,     \* the driver: its globals, and the command it carries out
          arb,      \* the arbiter's registers, for each channel
          pmicMem,  \* the PMIC: a byte for each peripheral and offset
          memAtCall \* what pmicMem was when the command began

spmiVars == <<spmi, arb, pmicMem, memAtCall>>

NoCommand == [kind |-> "none"]
IdleChannel == [wdata |-> [n \in 0..1 |-> <<0, 0, 0, 0>>], rdata |-> [n \in 0..1 |-> <<0, 0, 0, 0>>],
                cmd |-> NoCommand, status |-> {}]

SpmiInitState ==
    /\ spmi = [pc |-> "off", version |-> 1, hwV2 |-> FALSE, chnl |-> DefaultChannel, tbl |-> NoTable,
               cmd |-> NoCommand, done |-> 0, buf |-> <<>>, ret |-> 0, left |-> SpmiCommands]
    /\ arb = [c \in Channels |-> IdleChannel]
    /\ pmicMem = [p \in Peripherals |-> [o \in Bytes |-> 0]]
    /\ memAtCall = pmicMem

(* spmi_lookup_chnl_number: the last channel of a peripheral wins. *)
LookupTable ==
    [p \in Peripherals |->
        LET own == {c \in Channels : ChannelOwner[c] = p}
        IN IF own = {} THEN Unmapped ELSE CHOOSE c \in own : \A d \in own : d <= c]

(* spmi_init.  On an arbiter of version 2 that is used with the layout of  *)
(* version 1 no channel register is read and every entry but one that no   *)
(* peripheral of this PMIC has stays unmapped.                             *)
SpmiInit(version, hwV2) ==
    /\ spmi.pc = "off"
    /\ spmi' = [spmi EXCEPT !.pc = "idle", !.version = version, !.hwV2 = hwV2,
                            !.tbl = IF hwV2 /\ version = 2 THEN LookupTable ELSE NoTable]
    /\ UNCHANGED <<arb, pmicMem, memAtCall>>

(* A caller's pmic_arb_write_cmd or pmic_arb_read_cmd; the buffer of a     *)
(* write holds bytes no earlier command wrote.                             *)
SpmiCall(kind, p, off, n) ==
    /\ spmi.pc = "idle" /\ spmi.left > 0
    /\ spmi' = [spmi EXCEPT !.pc = "lookup", !.left = @ - 1, !.done = 0,
                            !.cmd = [kind |-> kind, target |-> p, off |-> off, size |-> n],
                            !.buf = [i \in 1..n |-> IF kind = "write" THEN 10 * spmi.left + i ELSE 0]]
    /\ memAtCall' = pmicMem
    /\ UNCHANGED <<arb, pmicMem>>

SpmiReturn(r) == spmi' = [spmi EXCEPT !.pc = "idle", !.ret = r]

LookupChannel ==
    /\ spmi.pc = "lookup"
    /\ LET c == IF spmi.hwV2 THEN spmi.tbl[spmi.cmd.target] ELSE spmi.chnl
       IN spmi' = [spmi EXCEPT !.chnl = c,
                               !.pc = IF c = Unmapped THEN "idle"
                                      ELSE IF spmi.cmd.kind = "write" THEN "wdata" ELSE "cmd",
                               !.ret = IF c = Unmapped THEN 1 ELSE @]
    /\ UNCHANGED <<arb, pmicMem, memAtCall>>

(* write_wdata_from_array: the next four bytes of the buffer, low byte first. *)
NextData(s) == [i \in 1..4 |-> IF s.done + i <= s.cmd.size THEN s.buf[s.done + i] ELSE 0]
Advanced(s) == IF s.done + 4 < s.cmd.size THEN s.done + 4 ELSE s.cmd.size

MoreData(s) == s.done < s.cmd.size

WriteData ==
    /\ spmi.pc = "wdata"
    /\ arb' = [arb EXCEPT ![spmi.chnl].wdata[spmi.done \div 4] = NextData(spmi)]
    /\ LET s == [spmi EXCEPT !.done = Advanced(spmi)]
       IN spmi' = [s EXCEPT !.pc = IF s.done = 4 /\ MoreData(s) THEN "wdata" ELSE "cmd"]
    /\ UNCHANGED <<pmicMem, memAtCall>>

(* The command word: byte_cnt is one less than the size; only the layout   *)
(* of version 1 has fields for the slave and the peripheral.               *)
CommandWord(s) == [kind |-> s.cmd.kind, off |-> s.cmd.off, cnt |-> s.cmd.size - 1,
                   target |-> IF s.version = 2 THEN ChannelOwner[s.chnl] ELSE s.cmd.target]

WriteCommand ==
    /\ spmi.pc = "cmd"
    /\ arb' = [arb EXCEPT ![spmi.chnl].cmd = CommandWord(spmi), ![spmi.chnl].status = {}]
    /\ spmi' = [spmi EXCEPT !.pc = "wait"]
    /\ UNCHANGED <<pmicMem, memAtCall>>

(* The arbiter carries out a pending command, or fails it: modelled from   *)
(* the driver's use of its registers.                                      *)
DataByte(regs, i) == regs[i \div 4][1 + (i % 4)]
ArbiterDone(c) ==
    LET w == arb[c].cmd
        span == w.off..(w.off + w.cnt)
    IN /\ w # NoCommand
       /\ IF w.kind = "write"
          THEN /\ pmicMem' = [pmicMem EXCEPT ![w.target] =
                                 [o \in Bytes |-> IF o \in span THEN DataByte(arb[c].wdata, o - w.off) ELSE @[o]]]
               /\ arb' = [arb EXCEPT ![c].cmd = NoCommand, ![c].status = {"done"}]
          ELSE /\ arb' = [arb EXCEPT ![c].cmd = NoCommand, ![c].status = {"done"},
                             ![c].rdata = [n \in 0..1 |-> [i \in 1..4 |->
                                 LET o == w.off + 4 * n + i - 1 IN IF o \in span THEN pmicMem[w.target][o] ELSE 0]]]
               /\ UNCHANGED pmicMem
       /\ UNCHANGED <<spmi, memAtCall>>
ArbiterFails(c) ==
    /\ arb[c].cmd # NoCommand
    /\ \E s \in {{"failure"}, {"done", "failure"}} :
          arb' = [arb EXCEPT ![c].cmd = NoCommand, ![c].status = s]
    /\ UNCHANGED <<spmi, pmicMem, memAtCall>>

(* The spin on the status register, and what is made of it: the error is   *)
(* whatever differs from the done bit alone.                               *)
IgnoreErrorMutant(status) == "done" \in status
CommandDone(status) == status = {"done"}
AwaitStatus ==
    /\ spmi.pc = "wait" /\ arb[spmi.chnl].status # {}
    /\ IF ~CommandDone(arb[spmi.chnl].status) THEN SpmiReturn(1)
       ELSE IF spmi.cmd.kind = "write" THEN SpmiReturn(0)
       ELSE spmi' = [spmi EXCEPT !.pc = "rdata"]
    /\ UNCHANGED <<arb, pmicMem, memAtCall>>

(* read_rdata_into_array *)
Filled(s, got) == [i \in 1..s.cmd.size |-> IF i \in s.done + 1..s.done + 4 THEN got[i - s.done] ELSE s.buf[i]]
ReadData ==
    /\ spmi.pc = "rdata"
    /\ LET s == [spmi EXCEPT !.done = Advanced(spmi), !.buf = Filled(spmi, arb[spmi.chnl].rdata[spmi.done \div 4])]
       IN spmi' = IF MoreData(s) THEN s ELSE [s EXCEPT !.pc = "idle", !.ret = 0]
    /\ UNCHANGED <<arb, pmicMem, memAtCall>>

DriverStep == LookupChannel \/ WriteData \/ WriteCommand \/ AwaitStatus \/ ReadData
ArbiterStep == \E c \in Channels : ArbiterDone(c) \/ ArbiterFails(c)
SpmiNext ==
    \/ \E conf \in {<<1, FALSE>>, <<2, TRUE>>, <<1, TRUE>>} : SpmiInit(conf[1], conf[2])
    \/ \E kind \in {"write", "read"}, p \in Peripherals, o \in Offsets, n \in Sizes : SpmiCall(kind, p, o, n)
    \/ DriverStep
    \/ ArbiterStep
SpmiSpec == SpmiInitState /\ [][SpmiNext]_spmiVars

----------------------------------------------------------------------------
(* A command that reports success has moved exactly the caller's bytes     *)
(* between the buffer and the peripheral it named, whatever channel the    *)
(* last command used and in however many data registers; one that reports  *)
(* an error has changed nothing (pmic_arb_write_cmd, pmic_arb_read_cmd).   *)
SpmiTransfer ==
    (spmi.pc = "idle" /\ spmi.cmd # NoCommand) =>
        LET k == spmi.cmd
            span == k.off..(k.off + k.size - 1)
        IN IF spmi.ret = 0 /\ k.kind = "write"
           THEN pmicMem = [memAtCall EXCEPT ![k.target] =
                              [o \in Bytes |-> IF o \in span THEN spmi.buf[o - k.off + 1] ELSE @[o]]]
           ELSE /\ pmicMem = memAtCall
                /\ spmi.ret = 0 => \A o \in span : spmi.buf[o - k.off + 1] = pmicMem[k.target][o]
=============================================================================
