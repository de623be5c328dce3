--------------------------- MODULE MmcMaintenance ---------------------------
(***************************************************************************)
(* The calls of mmc_sdhci.c beside reading and writing: erasing, write     *)
(* protection of the user area and its status, access to the RPMB          *)
(* partition, sleep.  One thread; a command may be lost before or after    *)
(* the card acted on it, and the card may be busy after it.                *)
(***************************************************************************)
EXTENDS Integers

CONSTANTS CardKinds,        \* [mmc, hc, bytes : BOOLEAN, size, mult, wp : Nat]: addressing and group sizes
          CardBlocks,       \* blocks of the card
          HcUnit,           \* MMC_HC_ERASE_MULT in blocks
          SectorSize,       \* MMC_BLK_SZ
          MaxStat,          \* MMC_MAX_CARD_STAT_RETRY
          RpmbPolls,        \* the 5 of mmc_sdhci_rpmb_send
          Ranges,           \* [addr, len]: what is asked to be erased or protected
          BufferBytes,      \* what a buffer never written may hold for HC_ERASE_GRP_SIZE
          MaintenanceCalls, CommandFaults

VARIABLES chip,     \* the card: kind, partition, locked and erased blocks, what it is doing
          cached,   \* card->ext_csd: ERASE_GRP_DEF, HC_ERASE_GRP_SIZE and the two fields of
                    \* PARTITION_CONFIG; known (of no code), whether a read filled the buffer
          task      \* the call that runs, and the result of the last
mntVars == <<chip, cached, task>>

Blocks == 0..CardBlocks - 1
MntInit ==
    /\ \E kind \in CardKinds, wpDisabled \in BOOLEAN :
        /\ chip = [kind |-> kind, wpDisabled |-> wpDisabled, part |-> "default", boot |-> "own", locked |-> {}, erased |-> {},
                   range |-> <<0, 0>>, busy |-> FALSE, state |-> "tran", faults |-> CommandFaults, unsure |-> FALSE]
        /\ cached = [hc |-> kind.hc, size |-> kind.size, part |-> "default", boot |-> "own", known |-> TRUE]
    /\ task = [op |-> "none", pc |-> "idle", addr |-> 0, len |-> 0, end |-> 0, i |-> 0, retry |-> 0, lock |-> FALSE,
               frames |-> 0, ret |-> 0, read |-> FALSE, unit |-> 0, left |-> MaintenanceCalls]

InTask(pc) == task.pc = pc
kind == chip.kind

(* The card's erase group, and the driver's idea of it; a write protection *)
(* group as mmc_decode_and_save_csd leaves it to the driver.  The card's   *)
(* own protection group is HC_WP_GRP_SIZE erase groups when the            *)
(* high-capacity sizes are in use.                                         *)
EraseUnit == IF kind.mmc /\ kind.hc THEN HcUnit * kind.size ELSE kind.size * kind.mult
DriverUnit == IF kind.mmc /\ cached.hc THEN HcUnit * cached.size ELSE kind.size * kind.mult
WpGroup == IF kind.hc THEN HcUnit * kind.size ELSE kind.wp * kind.size * kind.mult
CardWpGroup == EraseUnit * kind.wp
BlocksOfGroup(b, size) == {c \in Blocks : c \div size = b \div size}

(* Standard cards are addressed by bytes.                                  *)
Argument(b) == IF kind.bytes THEN b * SectorSize ELSE b
BlockAt(argument) == IF kind.bytes THEN argument \div SectorSize ELSE argument

(***************************************************************************)
(* A command is carried out and answered, or lost before or after the card *)
(* carried it out; every loss ends the call but in mmc_sdhci_rpmb_send,    *)
(* which first goes back to the default partition.                         *)
(***************************************************************************)
Step(pc) == [task EXCEPT !.pc = pc]
Return(r) == [task EXCEPT !.pc = "idle", !.ret = r]
ReturnAtOnceMutant == Return(1)
OnError == IF InTask("setcount") \/ InTask("frame") \/ (InTask("poll") /\ task.op = "rpmb") THEN [task EXCEPT !.pc = "back", !.ret = 1] ELSE Return(1)
Command(after, next) ==
    \/ chip' = after /\ task' = next
    \/ /\ chip.faults > 0
       /\ \E then \in {chip, after} : chip' = [then EXCEPT !.faults = @ - 1, !.unsure = @ \/ then.part # chip.part \/ InTask("torpmb") \/ InTask("back")]
       /\ task' = OnError
Call(op, pc, addr, len) ==
    [task EXCEPT !.op = op, !.pc = pc, !.addr = addr, !.len = len, !.left = @ - 1, !.i = 0, !.retry = 0, !.ret = 0, !.frames = 0]
Idle == InTask("idle") /\ task.left > 0 /\ chip.state = "tran"

(***************************************************************************)
(* mmc_sdhci_erase: only whole groups, from the first to the one that the  *)
(* last group's first block is in.  AArch64 divides by zero to zero.       *)
(***************************************************************************)
GroupsIn(len) == IF DriverUnit = 0 THEN 0 ELSE len \div DriverUnit
OneMoreMutant(addr, len) == addr + GroupsIn(len) * DriverUnit
LastGroup(addr, len) == addr + (GroupsIn(len) - 1) * DriverUnit
EraseEnd(addr, len) == IF LastGroup(addr, len) > addr + len THEN LastGroup(addr, len) - DriverUnit ELSE LastGroup(addr, len)
Erase(addr, len) ==
    /\ Idle
    /\ LET call == [Call("erase", "start", addr, len) EXCEPT !.unit = DriverUnit]
       IN task' = IF len < DriverUnit THEN [call EXCEPT !.pc = "idle", !.ret = 1] ELSE [call EXCEPT !.end = EraseEnd(addr, len)]
    /\ chip' = [chip EXCEPT !.erased = {}]
    /\ UNCHANGED cached

(* CMD35 and CMD36, CMD32 and CMD33 on SD cards: the card may answer that  *)
(* the address is not its own.  CMD38: an SD card erases block by block,   *)
(* and locked blocks stay.                                                 *)
SendGroup(pc, b, after, next) ==
    /\ InTask(pc)
    /\ IF BlockAt(Argument(b)) \in Blocks THEN Command(after, Step(next)) ELSE Command(chip, Return(1))
    /\ UNCHANGED cached
EraseGrpStart == SendGroup("start", task.addr, [chip EXCEPT !.range[1] = BlockAt(Argument(task.addr))], "end")
EraseGrpEnd == SendGroup("end", task.end, [chip EXCEPT !.range[2] = BlockAt(Argument(task.end))], "erase")
InRange == IF kind.mmc THEN {b \in Blocks : b \div EraseUnit \in (chip.range[1] \div EraseUnit)..(chip.range[2] \div EraseUnit)}
           ELSE chip.range[1]..chip.range[2]
SendErase ==
    /\ InTask("erase")
    /\ Command([chip EXCEPT !.erased = InRange \ chip.locked, !.busy = TRUE], Step("poll"))
    /\ UNCHANGED cached

(* The loops of mmc_get_card_status: the last try counts as a failure even *)
(* if the card is ready.  CardReady is the card's.                         *)
Tries == IF task.op = "rpmb" THEN RpmbPolls ELSE MaxStat
AfterPoll ==
    CASE task.op = "erase" -> Return(0)
      [] task.op = "wp" -> IF task.i + 1 < task.end THEN [task EXCEPT !.pc = "wp", !.i = @ + 1] ELSE Return(0)
      [] task.op = "rpmb" -> IF task.i + 1 < task.frames THEN [task EXCEPT !.pc = "setcount", !.i = @ + 1] ELSE Step("back")
PollStatus ==
    /\ InTask("poll")
    /\ LET tried == task.retry + 1
           next == IF tried = Tries THEN OnError ELSE IF chip.busy THEN task ELSE AfterPoll
       IN Command(chip, [next EXCEPT !.retry = tried])
    /\ UNCHANGED cached
CardReady == chip.busy /\ chip' = [chip EXCEPT !.busy = FALSE] /\ UNCHANGED <<cached, task>>

(***************************************************************************)
(* mmc_set_clr_power_on_wp_user, whose tries are not counted anew for each *)
(* group, and mmc_get_wp_status, which does not convert the address.       *)
(* mmc_get_ext_csd puts a buffer never written in the place of the old one *)
(* before it reads: a failed CMD8 may leave anything there.                *)
(***************************************************************************)
SetClrPowerOnWpUser(addr, len, lock) ==
    /\ Idle /\ kind.mmc
    /\ task' = [Call("wp", "permdis", addr, len) EXCEPT !.lock = lock]
    /\ UNCHANGED <<chip, cached>>
DisablePermWp == InTask("permdis") /\ Command(chip, Step("extcsd")) /\ UNCHANGED cached
Groups(len, size) == (len + size - 1) \div size
Unwritten == [hc : BOOLEAN, size : BufferBytes, part : {"default", "rpmb"}, boot : {"own", "other"}, known : {FALSE}]
ReadExtCsd ==
    /\ InTask("extcsd")
    /\ Command(chip, IF chip.wpDisabled \/ task.len < WpGroup THEN Return(1) ELSE Step("pwren"))
    /\ cached' \in IF chip'.faults = chip.faults
                   THEN {[hc |-> kind.hc, size |-> kind.size, part |-> chip.part, boot |-> chip.boot, known |-> TRUE]}
                   ELSE Unwritten
EnablePowerOnWp == InTask("pwren") /\ Command(chip, [task EXCEPT !.pc = "wp", !.end = Groups(task.len, WpGroup)]) /\ UNCHANGED cached
SendWp ==
    LET b == task.addr + task.i * WpGroup
        group == BlocksOfGroup(BlockAt(Argument(b)), CardWpGroup)
    IN SendGroup("wp", b, [chip EXCEPT !.locked = IF task.lock THEN @ \cup group ELSE @ \ group, !.busy = TRUE], "poll")
GetWpStatus(addr) ==
    /\ Idle /\ kind.mmc
    /\ Command(chip, [Call("status", "idle", addr, 1) EXCEPT !.read = BlockAt(addr) \in chip.locked])
    /\ UNCHANGED cached

(***************************************************************************)
(* mmc_sdhci_rpmb_send: to the partition, up to three frames each with its *)
(* block count, and back whatever happened on the way.  The byte written   *)
(* holds the boot configuration too, as the buffer has it.                 *)
(***************************************************************************)
RpmbSend(frames) ==
    /\ Idle /\ kind.mmc
    /\ task' = [Call("rpmb", "torpmb", 0, 0) EXCEPT !.frames = frames]
    /\ UNCHANGED <<chip, cached>>
SwitchPart(pc, part, next) ==
    /\ InTask(pc)
    /\ Command([chip EXCEPT !.part = part, !.boot = cached.boot], next)
    /\ cached' = IF task' = next /\ chip.faults = chip'.faults THEN [cached EXCEPT !.part = part] ELSE cached
SwitchToRpmb == SwitchPart("torpmb", "rpmb", Step("setcount"))
SetBlkCnt == InTask("setcount") /\ Command(chip, Step("frame")) /\ UNCHANGED cached
SendFrame == InTask("frame") /\ Command([chip EXCEPT !.busy = TRUE], Step("poll")) /\ UNCHANGED cached
SwitchBack == SwitchPart("back", "default", Return(task.ret))

(* mmc_put_card_to_sleep.                                                  *)
PutCardToSleep == Idle /\ task' = Call("sleep", "deselect", 0, 0) /\ UNCHANGED <<chip, cached>>
Deselect == InTask("deselect") /\ Command([chip EXCEPT !.state = "stby"], Step("sleep")) /\ UNCHANGED cached
Sleep == InTask("sleep") /\ Command([chip EXCEPT !.state = "slp"], Return(0)) /\ UNCHANGED cached

MntNext ==
    \/ \E r \in Ranges : Erase(r.addr, r.len) \/ \E lock \in BOOLEAN : SetClrPowerOnWpUser(r.addr, r.len, lock)
    \/ \E addr \in Blocks : GetWpStatus(addr)
    \/ \E frames \in 1..3 : RpmbSend(frames)
    \/ PutCardToSleep
    \/ EraseGrpStart \/ EraseGrpEnd \/ SendErase \/ PollStatus \/ CardReady
    \/ DisablePermWp \/ ReadExtCsd \/ EnablePowerOnWp \/ SendWp
    \/ SwitchToRpmb \/ SetBlkCnt \/ SendFrame \/ SwitchBack \/ Deselect \/ Sleep
MntSpec == MntInit /\ [][MntNext]_mntVars

----------------------------------------------------------------------------
Asked == Blocks \cap (task.addr..task.addr + task.len - 1)
GroupStart(b) == (b \div EraseUnit) * EraseUnit
WholeGroups == {b \in Asked : task.addr <= GroupStart(b) /\ GroupStart(b) + EraseUnit <= task.addr + task.len}
Succeeded(op) == InTask("idle") /\ task.op = op /\ task.ret = 0

(* However an erase ends, it touches only erase groups in which the        *)
(* request has a block; and with the card's own erase unit, which the      *)
(* driver has unless its last read of the registers failed, nothing behind *)
(* the request and nothing before the group it starts in.                  *)
EraseInside ==
    task.op = "erase" =>
        /\ \A b \in chip.erased : \E a \in Asked : a \div EraseUnit = b \div EraseUnit
        /\ task.unit = EraseUnit =>
             chip.erased \subseteq {b \in BlocksOfGroup(task.addr, EraseUnit) \cup Asked : b < task.addr + task.len}

(* An erase with the card's own unit that starts with a group and succeeds *)
(* on an eMMC has erased every whole group of the request but the locked   *)
(* ones; protecting or releasing blocks from the start of a group on has   *)
(* done so to all of them, though the driver's groups are smaller than the *)
(* card's; the status read is that of the block.                           *)
MaintenanceExact ==
    /\ EraseInside
    /\ Succeeded("erase") /\ kind.mmc /\ task.unit = EraseUnit /\ task.addr % EraseUnit = 0
         => WholeGroups \subseteq chip.erased \cup chip.locked
    /\ Succeeded("wp") /\ task.addr % WpGroup = 0 => IF task.lock THEN Asked \subseteq chip.locked ELSE Asked \cap chip.locked = {}
    /\ Succeeded("status") /\ ~kind.bytes => (task.read <=> task.addr \in chip.locked)

(* Frames go to the RPMB partition and every other call to the default     *)
(* one, after a failed read of the registers too: an error anywhere        *)
(* between the two switches does not leave the card in the RPMB partition; *)
(* only a lost answer to a switch itself may.  The driver's idea of the    *)
(* unit, of the partition and of the boot configuration, which each switch *)
(* writes back, is the card's unless the last read of them failed.         *)
PartitionRestored ==
    /\ cached.known => cached.boot = chip.boot /\ DriverUnit = EraseUnit
    /\ ~chip.unsure => /\ cached.known => chip.part = cached.part
                       /\ InTask("frame") => chip.part = "rpmb"
                       /\ task.op # "rpmb" \/ InTask("idle") => chip.part = "default"
=============================================================================
