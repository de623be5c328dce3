---------------------------- MODULE SdhciCommand ----------------------------
(***************************************************************************)
(* The command engine of the SD host controller driver                     *)
(* (SdhciMMCHSDxe/sdhci.c): sdhci_send_command waits for the CMD and DAT   *)
(* lines, builds the ADMA table, issues the command and polls the status   *)
(* register in sdhci_cmd_complete; the controller and the card run beside  *)
(* it and answer when they like.                                           *)
(*                                                                         *)
(* CommandRecords are numbered from 1.  Every status bit and the response        *)
(* register remember the number of the command they belong to: the         *)
(* hardware knows it, the driver cannot see it, and the properties ask     *)
(* whether what the driver took was its own.                               *)
(***************************************************************************)
EXTENDS Integers, AdmaTable

CONSTANTS
  Kinds,          \* kinds of command the callers issue
  TuningFlags,    \* values of host->tuning_in_progress when they do
  CmdErrors,      \* error bits the controller raises on the CMD line
  DatErrors,      \* error bits the controller raises on the DAT lines
  LineRetry,      \* 10 in sdhci_send_command
  CmdRetry,       \* SDHCI_MAX_CMD_RETRY
  TransRetry,     \* cmd_timeout or SDHCI_MAX_TRANS_RETRY
  MaxCommands     \* bound on the commands of a behaviour

\* "plain": R1, no data; "busy": R1B; "data": a transfer by ADMA.
AllKinds == {"plain", "busy", "data"}

\* The bits sdhci_cmd_err_status names; "vendor" stands for bits 10 to 15,
\* which SDHCI_ERR_INT_STS_EN enables and no branch decodes.
Decoded == {"cmdTimeout", "cmdCrc", "datTimeout", "datCrc"}
AllErrors == Decoded \cup {"vendor"}

ASSUME ParametersAssumption ==
  /\ Kinds \subseteq AllKinds /\ TuningFlags \subseteq BOOLEAN
  /\ CmdErrors \subseteq AllErrors /\ DatErrors \subseteq AllErrors
  /\ LineRetry \in Nat \ {0} /\ CmdRetry \in Nat \ {0} /\ TransRetry \in Nat \ {0}
  /\ MaxCommands \in Nat

VARIABLES
  pc, cmd, retry, ret,      \* the driver: where it is, the command, its counters
  resp,                     \* number of the command whose response was copied
  taken,                    \* number of the command whose TRANS_COMPLETE was taken
  table,                    \* number of the command whose ADMA table is allocated
  done,                     \* the last command that returned
  line, xfer,               \* the controller: command on the CMD line, on DAT
  stsCmd, stsTrans, err,    \* its status: CMD_COMPLETE, TRANS_COMPLETE, errors
  respReg,                  \* its response register
  resetting,                \* its reset register
  faults,                   \* the errors it raised that the running command cannot survive
  timely                    \* it acts before any of the polling bounds runs out

driver == <<pc, cmd, retry, ret, resp, taken, table, done>>
controller == <<line, xfer, stsCmd, stsTrans, err, respReg, resetting, faults, timely>>
commandVars == <<driver, controller>>

None == [id |-> 0, kind |-> "plain", active |-> FALSE]
NoCommand == [id |-> 0, kind |-> "plain", tuning |-> FALSE]
UsesDat(k) == k # "plain"

CommandInit ==
  /\ pc = "idle" /\ cmd = NoCommand /\ retry = 0 /\ ret = 0
  /\ resp = 0 /\ taken = 0 /\ table = 0
  /\ done = [cmd |-> NoCommand, ok |-> TRUE, resp |-> 0, taken |-> 0, faults |-> {}]
  /\ line = None /\ xfer = None
  /\ stsCmd = 0 /\ stsTrans = 0 /\ err = {} /\ respReg = 0
  /\ resetting = FALSE /\ faults = {}
  /\ timely \in BOOLEAN

\* The controller still has something to do for a command or a reset.
Pending == line.active \/ xfer.active \/ resetting

\* A poll that saw nothing is followed by another, up to the bound of its
\* loop; it is the last one only if the controller is late.
PollMore(bound) == retry + 1 < bound /\ retry' = retry + 1

LastPollMutant(bound) == FALSE                \* an endless loop
LastPoll(bound) == retry + 1 = bound
InTime(bound) == timely /\ Pending => ~LastPoll(bound)

-----------------------------------------------------------------------------
(* sdhci_send_command *)

SendCommand(k, tuning) ==
  /\ pc = "idle" /\ cmd.id < MaxCommands
  /\ pc' = "lines" /\ cmd' = [id |-> cmd.id + 1, kind |-> k, tuning |-> tuning]
  /\ retry' = 0 /\ ret' = 0 /\ resp' = 0 /\ taken' = 0
  /\ faults' = {}
  /\ UNCHANGED <<table, done, line, xfer, stsCmd, stsTrans, err, respReg, resetting, timely>>

\* The result goes to the caller and the ADMA table back to the pool.
Return(r) ==
  /\ pc' = "idle" /\ table' = 0 /\ ret' = r /\ retry' = 0
  /\ done' = [cmd |-> cmd, ok |-> r = 0, resp |-> resp, taken |-> taken, faults |-> faults]

\* Up to ten looks at the present state for both inhibit bits to be clear.
LinesPoll ==
  /\ pc = "lines"
  /\ IF line.id = 0 /\ xfer.id = 0
     THEN pc' = "issue" /\ UNCHANGED <<retry, ret, table, done>>
     ELSE /\ InTime(LineRetry)
          /\ \/ PollMore(LineRetry) /\ UNCHANGED <<pc, ret, table, done>>
             \/ LastPoll(LineRetry) /\ Return(1)
  /\ UNCHANGED <<cmd, resp, taken, controller>>

\* The table is built and its address written, then the command register.
Issue ==
  /\ pc = "issue"
  /\ table' = IF cmd.kind = "data" THEN cmd.id ELSE 0
  /\ line' = [id |-> cmd.id, kind |-> cmd.kind, active |-> TRUE]
  /\ xfer' = IF UsesDat(cmd.kind)
             THEN [id |-> cmd.id, kind |-> cmd.kind, active |-> TRUE] ELSE None
  /\ pc' = "cmd" /\ retry' = 0
  /\ UNCHANGED <<cmd, ret, resp, taken, done, stsCmd, stsTrans, err, respReg, resetting, faults, timely>>

-----------------------------------------------------------------------------
(* sdhci_cmd_complete *)

\* Back to the loop at "loop", or out of it with a failure.
PollAgain(bound, loop) ==
  \/ PollMore(bound) /\ pc' = loop /\ UNCHANGED ret
  \/ LastPoll(bound) /\ pc' = "check" /\ ret' = 1 /\ UNCHANGED retry

CmdPoll ==
  /\ pc = "cmd"
  /\ \/ /\ stsCmd # 0
        /\ pc' = "cmdDone" /\ UNCHANGED <<retry, ret>>
     \/ /\ stsCmd = 0 /\ err # {} /\ ~cmd.tuning
        /\ pc' = "check" /\ UNCHANGED <<retry, ret>>
     \/ /\ stsCmd = 0 /\ cmd.tuning /\ InTime(CmdRetry)
        /\ pc' = "cmdTune" /\ UNCHANGED <<retry, ret>>
     \/ /\ stsCmd = 0 /\ err = {} /\ ~cmd.tuning /\ InTime(CmdRetry)
        /\ PollAgain(CmdRetry, pc)
  /\ UNCHANGED <<cmd, resp, taken, table, done, controller>>

\* While tuning, a command error ends the command with a reset and success.
CmdTune ==
  /\ pc = "cmdTune"
  /\ IF err \cap {"cmdTimeout", "cmdCrc"} # {}
     THEN pc' = "reset" /\ ret' = 0 /\ UNCHANGED retry
     ELSE PollAgain(CmdRetry, "cmd")
  /\ UNCHANGED <<cmd, resp, taken, table, done, controller>>

\* data_present or R1B: the command ends with TRANS_COMPLETE.
WaitsForTransferMutant(k) == k = "busy"        \* data_present forgotten
WaitsForTransfer(k) == k \in {"data", "busy"}

\* CMD_COMPLETE is cleared and the response register read.
CmdDone ==
  /\ pc = "cmdDone"
  /\ stsCmd' = 0 /\ resp' = respReg /\ retry' = 0
  /\ pc' = IF WaitsForTransfer(cmd.kind) THEN "trans" ELSE "check"
  /\ UNCHANGED <<cmd, ret, taken, table, done, line, xfer, stsTrans, err, respReg, resetting, faults, timely>>

\* An error without DAT_TIMEOUT ends the wait; with it, the driver waits on
\* for a transfer that may still complete.
FatalMutant == err # {}                        \* no patience with a data timeout
Fatal == err # {} /\ "datTimeout" \notin err

TransPoll ==
  /\ pc = "trans"
  /\ \/ /\ stsTrans # 0
        /\ pc' = "transDone" /\ UNCHANGED <<retry, ret>>
     \/ /\ stsTrans = 0 /\ Fatal /\ ~cmd.tuning
        /\ pc' = "check" /\ UNCHANGED <<retry, ret>>
     \/ /\ stsTrans = 0 /\ cmd.tuning /\ InTime(TransRetry)
        /\ pc' = "transTune" /\ UNCHANGED <<retry, ret>>
     \/ /\ stsTrans = 0 /\ ~Fatal /\ ~cmd.tuning /\ InTime(TransRetry)
        /\ PollAgain(TransRetry, pc)
  /\ UNCHANGED <<cmd, resp, taken, table, done, controller>>

TransTune ==
  /\ pc = "transTune"
  /\ IF err \cap {"datTimeout", "datCrc"} # {}
     THEN pc' = "reset" /\ ret' = 0 /\ UNCHANGED retry
     ELSE PollAgain(TransRetry, "trans")
  /\ UNCHANGED <<cmd, resp, taken, table, done, controller>>

TransDone ==
  /\ pc = "transDone"
  /\ stsTrans' = 0 /\ taken' = stsTrans /\ pc' = "check"
  /\ UNCHANGED <<cmd, retry, ret, resp, table, done, line, xfer, stsCmd, err, respReg, resetting, faults, timely>>

\* A completed transfer outranks a data timeout; any other named error is a
\* failure; every error leads to the reset of both lines.
VerdictMutant == ret                           \* the error status is not looked at
Verdict == IF "datTimeout" \in err /\ taken # 0 THEN 0
           ELSE IF err \cap Decoded # {} THEN 1 ELSE ret

NeedsResetMutant == "datTimeout" \notin err /\ err # {}   \* none after a late completion
NeedsReset == err # {}

Check ==
  /\ pc = "check"
  /\ IF NeedsReset
     THEN pc' = "reset" /\ ret' = Verdict /\ UNCHANGED <<retry, table, done>>
     ELSE Return(Verdict)
  /\ UNCHANGED <<cmd, resp, taken, controller>>

(* sdhci_reset *)

Reset ==
  /\ pc = "reset"
  /\ resetting' = TRUE /\ pc' = "resetWait"
  /\ UNCHANGED <<cmd, retry, ret, resp, taken, table, done, line, xfer, stsCmd, stsTrans, err, respReg, faults, timely>>

\* The wait is bounded, and a reset that never ends is only reported.
ResetPoll ==
  /\ pc = "resetWait"
  /\ ~(timely /\ resetting)
  /\ Return(ret)
  /\ UNCHANGED <<cmd, resp, taken, controller>>

-----------------------------------------------------------------------------
(* The controller and the card *)

\* The response of the command on the CMD line arrives.
HwResponds ==
  /\ line.active /\ ~resetting
  /\ stsCmd' = line.id /\ respReg' = line.id /\ line' = None
  /\ UNCHANGED <<driver, xfer, stsTrans, err, resetting, faults, timely>>

\* The response is missing or damaged.  A damaged one may set CMD_COMPLETE as
\* well; the lines stay taken until they are reset.
HwCmdError(e) ==
  /\ line.active /\ ~resetting
  /\ err' = err \cup {e} /\ faults' = faults \cup {e}
  /\ line' = [line EXCEPT !.active = FALSE]
  /\ xfer' = [xfer EXCEPT !.active = FALSE]
  /\ IF e = "cmdCrc"
     THEN /\ stsCmd' \in {stsCmd, line.id}
          /\ respReg' = IF stsCmd' = line.id THEN line.id ELSE respReg
     ELSE UNCHANGED <<stsCmd, respReg>>
  /\ UNCHANGED <<driver, stsTrans, resetting, timely>>

\* The card has stopped being busy, or the last block is in memory.
HwTransCompletes ==
  /\ xfer.active /\ line.id # xfer.id /\ ~resetting
  /\ stsTrans' = xfer.id /\ xfer' = None
  /\ UNCHANGED <<driver, line, stsCmd, err, respReg, resetting, faults, timely>>

\* The transfer fails, or its timeout strikes while it goes on.
HwDatError(e) ==
  /\ xfer.active /\ line.id # xfer.id /\ ~resetting
  /\ err' = err \cup {e}
  /\ \/ xfer' = [xfer EXCEPT !.active = FALSE] /\ faults' = faults \cup {e}
     \/ e = "datTimeout" /\ e \notin err /\ UNCHANGED <<xfer, faults>>
  /\ UNCHANGED <<driver, line, stsCmd, stsTrans, respReg, resetting, timely>>

\* The reset of the CMD and DAT lines stops them and clears the status.  The
\* driver never writes the error register, so the errors must go with it.
HwResets ==
  /\ resetting
  /\ resetting' = FALSE /\ line' = None /\ xfer' = None
  /\ stsCmd' = 0 /\ stsTrans' = 0 /\ err' = {}
  /\ UNCHANGED <<driver, respReg, faults, timely>>

-----------------------------------------------------------------------------
Engine ==
  \/ LinesPoll \/ Issue \/ CmdPoll \/ CmdTune \/ CmdDone
  \/ TransPoll \/ TransTune \/ TransDone \/ Check \/ Reset \/ ResetPoll

Controller ==
  \/ HwResponds \/ HwTransCompletes \/ HwResets
  \/ \E e \in CmdErrors : HwCmdError(e)
  \/ \E e \in DatErrors : HwDatError(e)

CommandNext == (\E k \in Kinds, t \in TuningFlags : SendCommand(k, t)) \/ Engine \/ Controller

CommandSpec == CommandInit /\ [][CommandNext]_commandVars

\* The polling loop runs; nothing is assumed of the controller.
FairCommandSpec == CommandSpec /\ WF_commandVars(Engine)

-----------------------------------------------------------------------------

\* A command reported as done has its own response in cmd->resp, and if it
\* uses the DAT lines the completion it saw was of its own transfer: no
\* status left by an earlier command was taken for this one's.  (Errors that
\* no branch of sdhci_cmd_err_status names are left out.)
ResultIsOwn ==
  pc = "idle" /\ done.ok /\ ~done.cmd.tuning /\ done.faults \subseteq Decoded
    => done.resp = done.cmd.id /\ (UsesDat(done.cmd.kind) => done.taken = done.cmd.id)

\* It is so with a controller that acts within the polling bounds.
OwnResult == timely => ResultIsOwn

\* With such a controller, it walks an ADMA table only while sdhci_send_command
\* holds it: free(sg_list) at its end never pulls it from under a running transfer.
TableOutlivesTransfer == timely /\ xfer.active /\ xfer.kind = "data" => table = xfer.id

\* Together: no command meets what an earlier one left under way.
CommandsApart == OwnResult /\ TableOutlivesTransfer

\* The table it holds meanwhile describes the transfer exactly, whatever its
\* address and length.
TableDescribes == table # 0 => TableTiles

\* A data timeout is not a failure of its own: with such a controller a command
\* fails only if there was an error it could not go on from.
NoFalseFailure == timely /\ pc = "idle" /\ ~done.ok => done.faults # {}

\* Every call of sdhci_send_command returns, whatever a controller does of which
\* nothing is assumed.
Returns == pc # "idle" /\ ~timely ~> pc = "idle"
=============================================================================
