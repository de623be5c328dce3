------------------------------- MODULE MmcProofs -------------------------------
(***************************************************************************)
(* The MMC driver as MCMmc puts it together: what MmcStageProofs shows of  *)
(* block I/O and of the tuning for every size holds of the parts of them   *)
(* that MCMmc runs.  Then the command engine below it, which shares no     *)
(* name with them.                                                         *)
(***************************************************************************)
EXTENDS MCMmc, SdhciCommand, TLAPS

-----------------------------------------------------------------------------
(* The stages, with the parameters that MCMmc gives them.                   *)
Stage == INSTANCE MmcStageProofs WITH
    LastBlock <- 4, LastProtected <- 0, Protects <- TRUE, CardTypes <- {"stdMMC", "MMCHC", "SDHC"},
    BlockSize <- 2, CountMod <- 3, LenMod <- 16, ArgMod <- 32, MaxBlocks <- 3, MaxRequests <- 2,
    SingleDataErrors <- FALSE,
    type <- slot1, medium <- slot2, buffer <- slot3, req <- slot4, status <- slot5, pc <- slot6,
    rc <- slot7, addr <- slot8, left <- slot9, sptr <- slot10, card <- slot11,
    MaxPhases <- 4, MaxDrvType <- 3, Supported <- {1, 3},
    ErrorsIgnored <- BOOLEAN, DllFails <- BOOLEAN, SwitchFails <- BOOLEAN,
    setting <- slot1, at <- slot2, timing <- slot3, ret <- slot4, phase <- slot5, tuned <- slot6,
    data <- slot7, drv <- slot8, changed <- slot9, dll <- slot10, saved <- slot11,
    tuning_done <- slot12, calibration_done <- slot13, attempt_cdr_unlock <- slot14,
    strength <- slot15, delivered <- slot16

LEMMA BlocksSound == Stage!Sound
  BY DEF Stage!Sound, Stage!ParametersAssumption, Stage!AllTypes

\* The two instances are the same model.
LEMMA SameBlocks ==
  /\ Io!Init => Stage!Init
  /\ Io!Next => Stage!Next
  /\ Stage!ProtectedKept => Io!ProtectedKept
  BY DEF
    Io!Blocks, Io!ReadOnly, Io!Faults, Io!Requests, Io!Payload, Io!Fresh, Io!Junk, Io!Init,
    Io!Submit, Io!Beyond, Io!Shielded, Io!Checked, Io!Checks, Io!MaxTrans, Io!Chunk, Io!Advanced,
    Io!More, Io!ChunkEnds, Io!Return, Io!R1, Io!NoResponse, Io!Parses, Io!ParseResponse,
    Io!ByteMode, Io!Argument, Io!CountsBytes, Io!Start, Io!Accepted, Io!Moved, Io!Busy,
    Io!CommandFails, Io!SendLost, Io!SendResponseLost, Io!SendRefused, Io!SendBreaksOff,
    Io!SendCompletes, Io!StopAnswered, Io!StopLost, Io!CardSettles, Io!Send, Io!Stop, Io!Next,
    Io!ProtectedKept,
    Stage!Blocks, Stage!ReadOnly, Stage!Faults, Stage!Requests, Stage!Payload, Stage!Fresh,
    Stage!Junk, Stage!Init, Stage!Submit, Stage!Beyond, Stage!Shielded, Stage!Checked,
    Stage!Checks, Stage!MaxTrans, Stage!Chunk, Stage!Advanced, Stage!More, Stage!ChunkEnds,
    Stage!Return, Stage!R1, Stage!NoResponse, Stage!Parses, Stage!ParseResponse,
    Stage!ByteMode, Stage!Argument, Stage!CountsBytes, Stage!Start, Stage!Accepted,
    Stage!Moved, Stage!Busy, Stage!CommandFails, Stage!SendLost, Stage!SendResponseLost,
    Stage!SendRefused, Stage!SendBreaksOff, Stage!SendCompletes, Stage!StopAnswered,
    Stage!StopLost, Stage!CardSettles, Stage!Send, Stage!Stop, Stage!Next,
    Stage!ProtectedKept

LEMMA SameDevice ==
  /\ Stage!Device!Init => Io!Device!Init
  /\ Stage!Device!Next => Io!Device!Next
  BY DEF
    Io!Device!Payload, Io!Device!Fresh, Io!Device!Buffer, Io!Device!Init, Io!Device!Submit,
    Io!Device!Inside, Io!Device!Move, Io!Device!Transferred, Io!Device!Finish, Io!Device!Next,
    Stage!Device!Payload, Stage!Device!Fresh, Stage!Device!Buffer, Stage!Device!Init,
    Stage!Device!Submit, Stage!Device!Inside, Stage!Device!Move, Stage!Device!Transferred,
    Stage!Device!Finish, Stage!Device!Next,
    Io!Blocks, Io!ReadOnly, Io!Requests, Io!Faults, Io!Values, Io!Fresh, Io!Junk,
    Stage!Blocks, Stage!ReadOnly, Stage!Requests, Stage!Faults, Stage!Values, Stage!Fresh,
    Stage!Junk

BlocksInv == part = "io" => Stage!IInv

LEMMA BlocksInvInit == ASSUME MCInit PROVE BlocksInv /\ (part = "io" => Io!Device!Init)
<1>. SUFFICES ASSUME part = "io" PROVE Stage!IInv /\ Io!Device!Init
  BY DEF BlocksInv
<1>1. Stage!Init
  BY SameBlocks DEF MCInit
<1>2. Stage!Device!Init
  BY <1>1 DEF Stage!Init, Stage!Device!Init, Stage!Blocks
<1>. QED
  BY <1>1, <1>2, SameDevice, BlocksSound, Stage!InvInit

LEMMA BlocksInvStep ==
  ASSUME BlocksInv, [MCNext]_allVars
  PROVE  BlocksInv' /\ [part = "io" => Io!Device!Next]_DeviceVars
<1>1. part' = part
  BY DEF MCNext, MCDriver, MCSdhciIntHandler, allVars
<1>2. SUFFICES ASSUME part = "io" PROVE Stage!IInv' /\ [Io!Device!Next]_DeviceVars
  BY <1>1 DEF BlocksInv
<1>3. [Stage!Next]_(Stage!vars)
  BY <1>2, SameBlocks DEF MCNext, MCDriver, MCSdhciIntHandler, allVars, slots, Stage!vars
<1>4. Stage!IInv' /\ Stage!Moves
  BY <1>2, <1>3, BlocksSound, Stage!Steps DEF BlocksInv
<1>. QED
  BY <1>4, SameDevice DEF Stage!Moves, Stage!Device!vars, DeviceVars

LEMMA BlocksInvariance == MCSpec => []BlocksInv
<1>1. MCInit => BlocksInv
  BY BlocksInvInit
<1>2. BlocksInv /\ [MCNext]_allVars => BlocksInv'
  BY BlocksInvStep
<1>. QED
  BY <1>1, <1>2, PTL DEF MCSpec

\* Block I/O of the driver as a whole never changes the protected blocks at the start of the
\* card (MMCHSWriteBlocks, mmc_sdhci_write).
THEOREM ProtectedBlocksKept == MCSpec => []ProtectedKept
<1>1. BlocksInv => ProtectedKept
  BY SameBlocks DEF BlocksInv, ProtectedKept, Stage!IInv
<1>. QED
  BY <1>1, BlocksInvariance, PTL

\* And it implements BlockDevice: whatever the card answers, loses or breaks off, a request
\* touches its own blocks only, and is reported as a success only when all of them have been
\* moved (MMCHS.c, mmc_sdhci_read, mmc_sdhci_write).
THEOREM DriverIsBlockDevice == MCSpec => ImplementsBlockDevice
<1>1. MCInit => (part = "io" => Io!Device!Init)
  BY BlocksInvInit
<1>2. BlocksInv /\ [MCNext]_allVars => [part = "io" => Io!Device!Next]_DeviceVars
  BY BlocksInvStep
<1>. QED
  BY <1>1, <1>2, BlocksInvariance, PTL DEF MCSpec, ImplementsBlockDevice

-----------------------------------------------------------------------------
(* Tuning.                                                                  *)

\* The same instance is the larger ring that MCMmc tries the selection on.
RingStage == INSTANCE MmcStageProofs WITH
    LastBlock <- 4, LastProtected <- 0, Protects <- TRUE, CardTypes <- {"stdMMC", "MMCHC", "SDHC"},
    BlockSize <- 2, CountMod <- 3, LenMod <- 16, ArgMod <- 32, MaxBlocks <- 3, MaxRequests <- 2,
    SingleDataErrors <- FALSE,
    type <- slot1, medium <- slot2, buffer <- slot3, req <- slot4, status <- slot5, pc <- slot6,
    rc <- slot7, addr <- slot8, left <- slot9, sptr <- slot10, card <- slot11,
    MaxPhases <- 12, MaxDrvType <- 3, Supported <- {1, 3},
    ErrorsIgnored <- BOOLEAN, DllFails <- BOOLEAN, SwitchFails <- BOOLEAN,
    setting <- slot1, at <- slot2, timing <- slot3, ret <- slot4, phase <- slot5, tuned <- slot6,
    data <- slot7, drv <- slot8, changed <- slot9, dll <- slot10, saved <- slot11,
    tuning_done <- slot12, calibration_done <- slot13, attempt_cdr_unlock <- slot14,
    strength <- slot15, delivered <- slot16

LEMMA PhasesCounted == Stage!MaxPhasesAssumption /\ RingStage!MaxPhasesAssumption
  BY DEF Stage!MaxPhasesAssumption, RingStage!MaxPhasesAssumption

\* The selection is the same in all of them.
LEMMA SameSelection ==
  ASSUME NEW T
  PROVE  /\ Tuning!FindPhase(T) = Stage!FindPhase(T)
         /\ Tuning!Selects(T) = Stage!Selects(T)
  BY ZenonT(30) DEF
    Tuning!Phases, Tuning!Rows, Tuning!RowLen, Tuning!FoundLoop, Tuning!PhasesPerRow,
    Tuning!MaxRow, Tuning!Index34, Tuning!FindPhase, Tuning!Window, Tuning!Longest, Tuning!Selects,
    Stage!Phases, Stage!Rows, Stage!RowLen, Stage!FoundLoop, Stage!PhasesPerRow, Stage!MaxRow,
    Stage!Index34, Stage!FindPhase, Stage!Window, Stage!Longest, Stage!Selects,
    Tuning!Cardinality, Tuning!Min, Tuning!Max, Stage!Cardinality, Stage!Min, Stage!Max

LEMMA SameTuning ==
  /\ Tuning!TuningInit => Stage!TuningInit
  /\ Tuning!TuningNext => Stage!TuningNext
  /\ Stage!ChosenPhaseWorks => Tuning!ChosenPhaseWorks
  /\ Stage!StrengthRestored => Tuning!StrengthRestored
  /\ Stage!SelectsTuned => Tuning!SelectsTuned
  BY SameSelection DEF
    Tuning!host, Tuning!None, Tuning!TuningInit, Tuning!Execute, Tuning!Fail, Tuning!Calibrate,
    Tuning!InitDll, Tuning!Restart, Tuning!RetryTuning, Tuning!Outcomes, Tuning!Cmd21,
    Tuning!Passes, Tuning!MorePhases, Tuning!TryPhase, Tuning!Tried, Tuning!SetDrvType,
    Tuning!NextType, Tuning!ChangeDrive, Tuning!MustRestore, Tuning!Restore, Tuning!Configured,
    Tuning!Select, Tuning!Out, Tuning!Step, Tuning!TuningNext, Tuning!Succeeded,
    Tuning!SettledPhaseWorks, Tuning!ChosenPhaseWorks, Tuning!StrengthRestored, Tuning!SelectsTuned,
    Stage!host, Stage!None, Stage!TuningInit, Stage!Execute, Stage!Fail, Stage!Calibrate,
    Stage!InitDll, Stage!Restart, Stage!RetryTuning, Stage!Outcomes, Stage!Cmd21, Stage!Passes,
    Stage!MorePhases, Stage!TryPhase, Stage!Tried, Stage!SetDrvType, Stage!NextType,
    Stage!ChangeDrive, Stage!MustRestore, Stage!Restore, Stage!Configured, Stage!Select, Stage!Out,
    Stage!Step, Stage!TuningNext, Stage!Succeeded, Stage!SettledPhaseWorks, Stage!ChosenPhaseWorks,
    Stage!StrengthRestored, Stage!SelectsTuned,
    Tuning!Phases, Stage!Phases

LEMMA SameRing ==
  ASSUME NEW T \in SUBSET Ring!Phases, RingStage!Selects(T)
  PROVE  Ring!Selects(T)
  BY ZenonT(30) DEF
    Ring!Phases, Ring!Rows, Ring!RowLen, Ring!FoundLoop, Ring!PhasesPerRow, Ring!MaxRow,
    Ring!Index34, Ring!FindPhase, Ring!Window, Ring!Longest, Ring!Selects,
    RingStage!Phases, RingStage!Rows, RingStage!RowLen, RingStage!FoundLoop,
    RingStage!PhasesPerRow, RingStage!MaxRow, RingStage!Index34, RingStage!FindPhase,
    RingStage!Window, RingStage!Longest, RingStage!Selects,
    Ring!Cardinality, Ring!Min, Ring!Max, RingStage!Cardinality, RingStage!Min, RingStage!Max

LEMMA EveryRingSelects == RingSelects
<1>. SUFFICES ASSUME NEW T \in (SUBSET Ring!Phases) \ {{}} PROVE Ring!Selects(T)
  BY DEF RingSelects
<1>1. T \in SUBSET RingStage!Phases /\ T # {}
  BY DEF RingStage!Phases, Ring!Phases
<1>2. RingStage!Selects(T)
  BY <1>1, PhasesCounted, RingStage!PhaseIsSelected
<1>. QED
  BY <1>2, SameRing

TunedInv == part = "tuning" => Stage!TuningInv

\* The tuning of the driver as a whole leaves a phase at which the card's block arrived, in the
\* middle of a longest window, and the default strength (sdhci_msm_execute_tuning); and so does
\* the selection for every set of phases of a ring of twelve.
THEOREM TuningHolds == MCSpec => []TunedWell
<1>1. MCInit => TunedInv
  BY SameTuning, Stage!TuningInvInit DEF MCInit, TunedInv
<1>2. TunedInv /\ [MCNext]_allVars => TunedInv'
  <2>. SUFFICES ASSUME TunedInv, [MCNext]_allVars, part' = "tuning" PROVE Stage!TuningInv'
    BY DEF TunedInv
  <2>1. part = "tuning" /\ [Stage!TuningNext]_(Stage!tuningVars)
    BY SameTuning DEF MCNext, MCDriver, MCSdhciIntHandler, allVars, slots, Stage!tuningVars
  <2>. QED
    BY <2>1, PhasesCounted, Stage!TuningInvStep DEF TunedInv
<1>3. TunedInv => TunedWell
  BY PhasesCounted, SameTuning, EveryRingSelects, Stage!TuningInvSays DEF TunedInv, TunedWell
<1>. QED
  BY <1>1, <1>2, <1>3, PTL DEF MCSpec

-----------------------------------------------------------------------------
(* The command engine of the host controller driver, on its own: with a     *)
(* controller that acts within the polling bounds a command is never taken  *)
(* for another one and never fails without an error it could not survive,   *)
(* and no transfer outlives its ADMA table; and the table covers the        *)
(* buffer.                                                                  *)

PCs == {"idle", "lines", "issue", "cmd", "cmdTune", "cmdDone", "trans", "transTune",
        "transDone", "check", "reset", "resetWait"}
Records == [id : Nat, kind : AllKinds, active : BOOLEAN]
CommandRecords == [id : Nat, kind : AllKinds, tuning : BOOLEAN]
Results == [cmd : CommandRecords, ok : BOOLEAN, resp : Nat, taken : Nat, faults : SUBSET AllErrors]

Types ==
  /\ pc \in PCs /\ cmd \in CommandRecords /\ retry \in Nat /\ ret \in {0, 1}
  /\ resp \in Nat /\ taken \in Nat /\ table \in Nat /\ done \in Results
  /\ line \in Records /\ xfer \in Records
  /\ stsCmd \in Nat /\ stsTrans \in Nat /\ respReg \in Nat
  /\ err \in SUBSET AllErrors /\ faults \in SUBSET AllErrors
  /\ resetting \in BOOLEAN /\ timely \in BOOLEAN

-----------------------------------------------------------------------------
(* The inductive invariant: what is still under way at each place of the    *)
(* driver.                                                                  *)

Dat == UsesDat(cmd.kind)

\* Nothing is left of any command.
Quiet == line.id = 0 /\ xfer.id = 0 /\ ~Pending /\ stsCmd = 0 /\ stsTrans = 0 /\ err = {}

\* The controller has stopped, and no completion waits to be taken.
Stopped == ~Pending /\ stsCmd = 0 /\ stsTrans = 0

\* It stopped at an error that is still in the status register.
Failed == err # {} /\ faults # {}

Between == pc \in {"idle", "lines", "issue"}
Untaken == resp = 0 /\ taken = 0 /\ ret = 0

BetweenInv == Between =>
  /\ Quiet /\ table = 0
  /\ pc # "idle" => Untaken /\ faults = {} /\ cmd.id > 0

\* Under way, everything the controller shows is of the running command.
LineInv == ~Between =>
  /\ cmd.id > 0 /\ line.id \in {0, cmd.id} /\ stsCmd \in {0, cmd.id}
  /\ line.active => line.id = cmd.id /\ stsCmd = 0 /\ err = {}
  /\ line.id # 0 /\ ~line.active => Failed
  /\ line.id # 0 /\ Dat => xfer.id = cmd.id
  /\ stsCmd # 0 => respReg = cmd.id
  /\ pc # "resetWait" => ~resetting

XferInv == ~Between =>
  /\ xfer.id \in {0, cmd.id} /\ stsTrans \in {0, cmd.id}
  /\ xfer.active => xfer.id = cmd.id /\ xfer.kind = cmd.kind /\ err \subseteq {"datTimeout"}
  /\ xfer.active /\ line.id # 0 => line.active
  /\ xfer.id # 0 => Dat /\ stsTrans = 0 /\ taken = 0
  /\ xfer.id # 0 /\ ~xfer.active => Failed
  /\ stsTrans # 0 => Dat
  /\ err \subseteq faults \cup {"datTimeout"} /\ (~Dat => err \subseteq faults)
  /\ table = IF cmd.kind = "data" THEN cmd.id ELSE 0

\* The transfer has completed unless it is under way or has failed.
TransferKept == Dat /\ xfer.id = 0 => stsTrans = cmd.id

CmdInv == pc \in {"cmd", "cmdTune"} =>
  /\ Untaken /\ TransferKept
  /\ stsCmd = 0 => line.id = cmd.id /\ err \subseteq faults
  /\ pc = "cmdTune" => cmd.tuning
  /\ pc = "cmdTune" /\ retry + 1 = CmdRetry => Stopped

CmdDoneInv == pc = "cmdDone" =>
  Untaken /\ TransferKept /\ stsCmd = cmd.id /\ ~line.active

TransInv == pc \in {"trans", "transTune"} =>
  /\ Dat /\ TransferKept /\ resp = cmd.id /\ taken = 0 /\ ret = 0
  /\ stsCmd = 0 /\ ~line.active
  /\ pc = "transTune" => cmd.tuning
  /\ pc = "transTune" /\ retry + 1 = TransRetry => Stopped

TransDoneInv == pc = "transDone" =>
  /\ Dat /\ resp = cmd.id /\ stsTrans = cmd.id /\ taken = 0 /\ ret = 0
  /\ stsCmd = 0 /\ ~line.active

\* The command got its own response and its own completion.
Own == resp = cmd.id /\ (Dat => taken = cmd.id)
OwnOrSpoilt == cmd.tuning \/ ~(faults \subseteq Decoded) \/ Own

CheckInv == pc = "check" =>
  /\ Stopped
  /\ OwnOrSpoilt \/ ret = 1 \/ (err \cap Decoded # {} /\ taken = 0)
  /\ taken # 0 => Own
  /\ faults = {} => ret = 0 /\ (err = {} \/ taken # 0)

ResetInv == pc \in {"reset", "resetWait"} =>
  /\ ret = 1 => faults # {}
  /\ ret = 0 => OwnOrSpoilt
  /\ pc = "resetWait" /\ ~resetting => Quiet

\* What the last command returned with.
DoneInv ==
  /\ done.ok /\ ~done.cmd.tuning /\ done.faults \subseteq Decoded
       => done.resp = done.cmd.id /\ (UsesDat(done.cmd.kind) => done.taken = done.cmd.id)
  /\ ~done.ok => done.faults # {}

Phases == BetweenInv /\ LineInv /\ XferInv /\ CmdInv /\ CmdDoneInv /\ TransInv /\ TransDoneInv
          /\ CheckInv /\ ResetInv /\ DoneInv

IInv == Types /\ (timely => Phases)

-----------------------------------------------------------------------------
(* Type correctness.                                                        *)

LEMMA TypesInit == ASSUME CommandInit PROVE Types
BY DEF CommandInit, Types, PCs, CommandRecords, Records, Results, NoCommand, None, AllKinds

LEMMA ReturnTypes ==
  ASSUME Types, NEW r \in {0, 1}, Return(r)
  PROVE  pc' \in PCs /\ table' \in Nat /\ ret' \in {0, 1} /\ retry' \in Nat /\ done' \in Results
<1>1. done' \in Results
  BY DEF Types, Return, Results
<1>. QED
  BY <1>1 DEF Types, Return, PCs

LEMMA StoppedRecord == \A r \in Records : [r EXCEPT !.active = FALSE] \in Records
BY DEF Records

LEMMA ErrorTypes ==
  ASSUME Types, NEW e, HwCmdError(e) \/ HwDatError(e)
  PROVE  line' \in Records /\ xfer' \in Records
BY StoppedRecord DEF Types, HwCmdError, HwDatError

LEMMA TypesStep == ASSUME Types, [CommandNext]_commandVars PROVE Types'
<1>. USE ParametersAssumption DEF ParametersAssumption, Types, PCs, CommandRecords, Records, Results,
           AllKinds, AllErrors, Decoded, driver, controller
<1>1. ASSUME NEW k \in Kinds, NEW t \in TuningFlags, SendCommand(k, t) PROVE Types'
  BY <1>1 DEF SendCommand
<1>2. CASE LinesPoll
  <2>1. CASE pc' = "issue" /\ UNCHANGED <<retry, ret, table, done>>
    BY <1>2, <2>1 DEF LinesPoll
  <2>2. CASE PollMore(LineRetry) /\ UNCHANGED <<pc, ret, table, done>>
    BY <1>2, <2>2 DEF LinesPoll, PollMore
  <2>3. CASE Return(1)
    <3>1. pc' \in PCs /\ table' \in Nat /\ ret' \in {0, 1} /\ retry' \in Nat /\ done' \in Results
      BY <2>3, ReturnTypes
    <3>. QED
      BY <1>2, <3>1 DEF LinesPoll
  <2>. QED
    BY <1>2, <2>1, <2>2, <2>3 DEF LinesPoll
<1>3. CASE Issue
  BY <1>3 DEF Issue, None
<1>4. CASE CmdPoll
  BY <1>4 DEF CmdPoll, PollAgain, PollMore
<1>5. CASE CmdTune
  BY <1>5 DEF CmdTune, PollAgain, PollMore
<1>6. CASE CmdDone
  BY <1>6 DEF CmdDone, WaitsForTransfer
<1>7. CASE TransPoll
  BY <1>7 DEF TransPoll, PollAgain, PollMore
<1>8. CASE TransTune
  BY <1>8 DEF TransTune, PollAgain, PollMore
<1>9. CASE TransDone
  BY <1>9 DEF TransDone
<1>10. CASE Check
  <2>1. Verdict \in {0, 1}
    BY DEF Verdict
  <2>2. CASE NeedsReset
    BY <1>10, <2>1, <2>2 DEF Check
  <2>3. CASE ~NeedsReset
    <3>1. pc' \in PCs /\ table' \in Nat /\ ret' \in {0, 1} /\ retry' \in Nat /\ done' \in Results
      BY <1>10, <2>1, <2>3, ReturnTypes DEF Check
    <3>. QED
      BY <1>10, <3>1 DEF Check
  <2>. QED
    BY <2>2, <2>3
<1>11. CASE Reset
  BY <1>11 DEF Reset
<1>12. CASE ResetPoll
  BY <1>12 DEF ResetPoll, Return
<1>13. CASE HwResponds
  BY <1>13 DEF HwResponds, None
<1>14. CASE HwTransCompletes
  BY <1>14 DEF HwTransCompletes, None
<1>15. CASE HwResets
  <2>1. line' = None /\ xfer' = None /\ err' = {} /\ stsCmd' = 0 /\ stsTrans' = 0 /\ resetting' = FALSE
        /\ UNCHANGED <<pc, cmd, retry, ret, resp, taken, table, done, respReg, faults, timely>>
    BY <1>15 DEF HwResets
  <2>2. None \in Records /\ {} \in SUBSET AllErrors
    BY DEF None
  <2>. HIDE DEF Records, CommandRecords, Results
  <2>. QED
    BY <2>1, <2>2
<1>16. ASSUME NEW e \in CmdErrors, HwCmdError(e) PROVE Types'
  <2>1. line' \in Records /\ xfer' \in Records
    BY <1>16, ErrorTypes
  <2>2. err' \in SUBSET AllErrors /\ faults' \in SUBSET AllErrors
    BY <1>16 DEF HwCmdError
  <2>. QED
    BY <1>16, <2>1, <2>2 DEF HwCmdError
<1>17. ASSUME NEW e \in DatErrors, HwDatError(e) PROVE Types'
  <2>1. line' \in Records /\ xfer' \in Records
    BY <1>17, ErrorTypes
  <2>2. err' \in SUBSET AllErrors /\ faults' \in SUBSET AllErrors
    BY <1>17 DEF HwDatError
  <2>. QED
    BY <1>17, <2>1, <2>2 DEF HwDatError
<1>18. CASE UNCHANGED commandVars
  BY <1>18 DEF commandVars
<1>. QED
  BY <1>1, <1>2, <1>3, <1>4, <1>5, <1>6, <1>7, <1>8, <1>9, <1>10, <1>11, <1>12, <1>13, <1>14,
     <1>15, <1>16, <1>17, <1>18 DEF CommandNext, Engine, Controller

-----------------------------------------------------------------------------
(* The inductive invariant.                                                 *)

LEMMA PhasesInit == ASSUME CommandInit PROVE Phases
BY DEF CommandInit, Phases, Between, BetweenInv, LineInv, XferInv, CmdInv, CmdDoneInv, TransInv,
       TransDoneInv, CheckInv, ResetInv, DoneInv, Quiet, Pending, None, NoCommand

\* A step of the driver inside of sdhci_cmd_complete that touches nothing but its place and
\* its counters.
LEMMA DriverMoves ==
  ASSUME Phases, ~Between, ~Between', pc' # "resetWait", pc # "resetWait",
         UNCHANGED <<cmd, resp, taken, table, done, controller>>
  PROVE  BetweenInv' /\ LineInv' /\ XferInv' /\ DoneInv'
<1>1. DoneInv'
  BY DEF Phases, DoneInv, UsesDat, Decoded
<1>2. LineInv'
  BY DEF Phases, LineInv, controller, Dat, UsesDat, Failed
<1>3. XferInv'
  BY DEF Phases, XferInv, controller, Dat, UsesDat, Failed
<1>. QED
  BY <1>1, <1>2, <1>3 DEF BetweenInv

\* The wait for CMD_COMPLETE: the driver gives it up only at an error.
LEMMA CmdLoopStep ==
  ASSUME Types, Phases, timely, CmdPoll \/ CmdTune
  PROVE  Phases'
<1>1. /\ pc \in {"cmd", "cmdTune"} /\ pc' \in {"cmd", "cmdTune", "cmdDone", "check", "reset"}
      /\ UNCHANGED <<cmd, resp, taken, table, done, controller>>
  BY DEF CmdPoll, CmdTune, PollAgain
<1>2. BetweenInv' /\ LineInv' /\ XferInv' /\ DoneInv'
  BY <1>1, DriverMoves DEF Between
<1>3. /\ Untaken /\ TransferKept /\ ~resetting
      /\ stsCmd = 0 => line.id = cmd.id /\ line.id # 0 /\ err \subseteq faults
      /\ line.active => err = {}
      /\ line.id # 0 /\ ~line.active => Failed
      /\ xfer.active /\ line.id # 0 => line.active
      /\ line.id # 0 /\ Dat => stsTrans = 0
      /\ stsTrans # 0 => Dat
  BY <1>1 DEF Phases, CmdInv, LineInv, XferInv, Between, Types, CommandRecords
<1>4. pc' = "cmdTune" => cmd.tuning /\ (retry' + 1 = CmdRetry => Stopped)
  BY <1>1, <1>3 DEF CmdPoll, CmdTune, PollAgain, InTime, LastPoll, Stopped, Pending
<1>5. pc' = "check" => Stopped /\ Failed /\ (ret' = 1 \/ ~cmd.tuning)
  <2>1. CASE CmdPoll
    BY <1>1, <1>3, <2>1 DEF CmdPoll, PollAgain, InTime, LastPoll, Stopped, Pending
  <2>2. CASE CmdTune
    <3>1. pc' = "check" => Stopped /\ ret' = 1
      BY <1>1, <2>2 DEF Phases, CmdInv, CmdTune, PollAgain, LastPoll
    <3>. QED
      BY <1>3, <3>1 DEF Stopped, Pending
  <2>. QED
    BY <2>1, <2>2
<1>6. pc' = "reset" => ret' = 0 /\ cmd.tuning
  BY <1>1 DEF Phases, CmdInv, CmdPoll, CmdTune, PollAgain
<1>7. pc' \in {"cmd", "cmdTune", "cmdDone"} => ret' = ret
  BY DEF CmdPoll, CmdTune, PollAgain
<1>8. pc' = "cmdDone" => stsCmd # 0
  BY DEF CmdPoll, CmdTune, PollAgain
<1>9. CmdInv'
  BY <1>1, <1>3, <1>4, <1>7
     DEF CmdInv, controller, Untaken, TransferKept, Dat, UsesDat, Stopped, Pending
<1>10. CmdDoneInv'
  BY <1>1, <1>3, <1>7, <1>8
     DEF Phases, LineInv, Between, CmdDoneInv, controller, Untaken, TransferKept, Dat, UsesDat
<1>11. CheckInv'
  <2>1. SUFFICES ASSUME pc' = "check" PROVE CheckInv'
    BY DEF CheckInv
  <2>2. Stopped' /\ Failed' /\ taken' = 0
    BY <1>1, <1>3, <1>5, <2>1 DEF Stopped, Pending, Failed, Untaken, controller
  <2>3. (OwnOrSpoilt \/ ret = 1 \/ (err \cap Decoded # {} /\ taken = 0))'
    BY <1>1, <1>3, <1>5, <2>1
       DEF Types, Failed, Untaken, Stopped, OwnOrSpoilt, controller, AllErrors
  <2>. QED
    BY <2>2, <2>3 DEF CheckInv, Failed
<1>12. ResetInv'
  BY <1>1, <1>6 DEF ResetInv, OwnOrSpoilt
<1>. QED
  BY <1>1, <1>2, <1>9, <1>10, <1>11, <1>12 DEF Phases, TransInv, TransDoneInv

\* The wait for TRANS_COMPLETE: it is given up only at an error that has stopped the transfer.
LEMMA TransLoopStep ==
  ASSUME Types, Phases, timely, TransPoll \/ TransTune
  PROVE  Phases'
<1>1. /\ pc \in {"trans", "transTune"}
      /\ pc' \in {"trans", "transTune", "transDone", "check", "reset"}
      /\ UNCHANGED <<cmd, resp, taken, table, done, controller>>
  BY DEF TransPoll, TransTune, PollAgain
<1>2. BetweenInv' /\ LineInv' /\ XferInv' /\ DoneInv'
  BY <1>1, DriverMoves DEF Between
<1>3. /\ Dat /\ TransferKept /\ resp = cmd.id /\ taken = 0 /\ ret = 0 /\ cmd.id > 0
      /\ stsCmd = 0 /\ ~line.active /\ ~resetting
      /\ xfer.active => err \subseteq {"datTimeout"}
      /\ xfer.id # 0 /\ ~xfer.active => Failed
      /\ err \subseteq faults \cup {"datTimeout"}
      /\ stsTrans \in {0, cmd.id}
  BY <1>1 DEF Phases, TransInv, LineInv, XferInv, Between
<1>4. pc' = "transTune" => cmd.tuning /\ (retry' + 1 = TransRetry => Stopped)
  BY <1>1, <1>3 DEF TransPoll, TransTune, PollAgain, InTime, LastPoll, Stopped, Pending
<1>5. pc' = "check" => Stopped /\ Failed /\ (ret' = 1 \/ (~cmd.tuning /\ "datTimeout" \notin err))
  <2>1. CASE TransPoll /\ stsTrans = 0 /\ Fatal /\ ~cmd.tuning
    BY <1>1, <1>3, <2>1 DEF TransPoll, Fatal, Stopped, Pending, Failed
  <2>2. CASE TransPoll /\ ~(stsTrans = 0 /\ Fatal /\ ~cmd.tuning)
    BY <1>1, <1>3, <2>2
       DEF TransPoll, PollAgain, InTime, LastPoll, Stopped, Pending, TransferKept
  <2>3. CASE TransTune
    <3>1. pc' = "check" => Stopped /\ ret' = 1
      BY <1>1, <2>3 DEF Phases, TransInv, TransTune, PollAgain, LastPoll
    <3>. QED
      BY <1>3, <3>1 DEF Stopped, Pending, TransferKept
  <2>. QED
    BY <2>1, <2>2, <2>3
<1>6. pc' = "reset" => ret' = 0 /\ cmd.tuning
  BY <1>1 DEF Phases, TransInv, TransPoll, TransTune, PollAgain
<1>7. pc' \in {"trans", "transTune", "transDone"} => ret' = ret
  BY DEF TransPoll, TransTune, PollAgain
<1>8. pc' = "transDone" => stsTrans # 0
  BY DEF TransPoll, TransTune, PollAgain
<1>9. TransInv'
  BY <1>1, <1>3, <1>4, <1>7
     DEF TransInv, controller, TransferKept, Dat, UsesDat, Stopped, Pending
<1>10. TransDoneInv'
  BY <1>1, <1>3, <1>7, <1>8 DEF TransDoneInv, controller, Dat, UsesDat
<1>11. CheckInv'
  <2>1. SUFFICES ASSUME pc' = "check" PROVE CheckInv'
    BY DEF CheckInv
  <2>2. Stopped' /\ Failed' /\ taken' = 0
    BY <1>1, <1>3, <1>5, <2>1 DEF Stopped, Pending, Failed, controller
  <2>3. (OwnOrSpoilt \/ ret = 1 \/ (err \cap Decoded # {} /\ taken = 0))'
    BY <1>1, <1>3, <1>5, <2>1 DEF Types, Failed, OwnOrSpoilt, controller, AllErrors
  <2>. QED
    BY <2>2, <2>3 DEF CheckInv, Failed
<1>12. ResetInv'
  BY <1>1, <1>6 DEF ResetInv, OwnOrSpoilt
<1>. QED
  BY <1>1, <1>2, <1>9, <1>10, <1>11, <1>12 DEF Phases, CmdInv, CmdDoneInv

LEMMA PhasesStep == ASSUME Types, Types', Phases, timely, [CommandNext]_commandVars PROVE Phases'
<1>. USE ParametersAssumption DEF ParametersAssumption, Types, PCs, CommandRecords, Records, Results,
           AllKinds, AllErrors, Decoded, driver, controller, Phases, Between, BetweenInv, LineInv,
           XferInv, CmdInv, CmdDoneInv, TransInv, TransDoneInv, CheckInv, ResetInv, DoneInv, Quiet,
           Pending, Stopped, Failed, Untaken, TransferKept, Own, OwnOrSpoilt, Dat, UsesDat
<1>1. ASSUME NEW k \in Kinds, NEW t \in TuningFlags, SendCommand(k, t) PROVE Phases'
  BY <1>1 DEF SendCommand
<1>2. CASE LinesPoll
  BY <1>2 DEF LinesPoll, PollMore, Return, InTime, LastPoll
<1>3. CASE Issue
  BY <1>3 DEF Issue, None
<1>4. CASE CmdPoll
  BY <1>4, CmdLoopStep
<1>5. CASE CmdTune
  BY <1>5, CmdLoopStep
<1>6. CASE CmdDone
  BY <1>6 DEF CmdDone, WaitsForTransfer
<1>7. CASE TransPoll
  BY <1>7, TransLoopStep
<1>8. CASE TransTune
  BY <1>8, TransLoopStep
<1>9. CASE TransDone
  BY <1>9 DEF TransDone
<1>10. CASE Check
  <2>1. CASE ~NeedsReset
    BY <1>10, <2>1 DEF Check, Return, Verdict, NeedsReset
  <2>2. CASE NeedsReset
    <3>1. Verdict = 1 => faults # {}
      BY <1>10, <2>2 DEF Check, Verdict, NeedsReset
    <3>2. Verdict = 0 => OwnOrSpoilt
      BY <1>10, <2>2 DEF Check, Verdict, NeedsReset
    <3>. QED
      BY <1>10, <2>2, <3>1, <3>2 DEF Check
  <2>. QED
    BY <2>1, <2>2
<1>11. CASE Reset
  BY <1>11 DEF Reset
<1>12. CASE ResetPoll
  BY <1>12 DEF ResetPoll, Return
<1>13. CASE HwResponds
  BY <1>13 DEF HwResponds, None
<1>14. CASE HwTransCompletes
  BY <1>14 DEF HwTransCompletes, None
<1>15. CASE HwResets
  BY <1>15 DEF HwResets, None
<1>16. ASSUME NEW e \in CmdErrors, HwCmdError(e) PROVE Phases'
  BY <1>16 DEF HwCmdError
<1>17. ASSUME NEW e \in DatErrors, HwDatError(e) PROVE Phases'
  BY <1>17 DEF HwDatError
<1>18. CASE UNCHANGED commandVars
  BY <1>18 DEF commandVars
<1>. QED
  BY <1>1, <1>2, <1>3, <1>4, <1>5, <1>6, <1>7, <1>8, <1>9, <1>10, <1>11, <1>12, <1>13, <1>14,
     <1>15, <1>16, <1>17, <1>18 DEF CommandNext, Engine, Controller

LEMMA Invariance == CommandSpec => []IInv
<1>1. CommandInit => IInv
  BY TypesInit, PhasesInit DEF IInv
<1>2. IInv /\ [CommandNext]_commandVars => IInv'
  <2>1. SUFFICES ASSUME IInv, [CommandNext]_commandVars PROVE IInv'
    OBVIOUS
  <2>2. Types'
    BY <2>1, TypesStep DEF IInv
  <2>3. timely' = timely
    BY <2>1 DEF CommandNext, Engine, Controller, commandVars, controller, SendCommand, LinesPoll, Issue, CmdPoll,
                CmdTune, CmdDone, TransPoll, TransTune, TransDone, Check, Reset, ResetPoll,
                HwResponds, HwCmdError, HwTransCompletes, HwDatError, HwResets
  <2>4. timely => Phases'
    BY <2>1, <2>2, PhasesStep DEF IInv
  <2>. QED
    BY <2>2, <2>3, <2>4 DEF IInv
<1>. QED
  BY <1>1, <1>2, PTL DEF CommandSpec

-----------------------------------------------------------------------------
(* What follows from it.                                                    *)

\* With a controller that acts within the polling bounds, no command is reported as done on a
\* status left by an earlier one, and free(sg_list) at the end of sdhci_send_command never
\* takes the table from a transfer that walks it (sdhci.c:398-500, 871-877).
THEOREM NoCommandMeetsAnother == CommandSpec => []CommandsApart
<1>1. IInv => CommandsApart
  <2>1. IInv => OwnResult
    BY DEF IInv, Phases, DoneInv, OwnResult, ResultIsOwn
  <2>2. IInv => TableOutlivesTransfer
    BY DEF IInv, Types, Records, Phases, BetweenInv, XferInv, Quiet, Pending, TableOutlivesTransfer
  <2>. QED
    BY <2>1, <2>2 DEF CommandsApart
<1>. QED
  BY <1>1, Invariance, PTL

\* With such a controller a command fails only if there was an error it could not survive: a
\* data timeout that the transfer outlives is not one (sdhci.c:472-475, 524-532).
THEOREM FailuresAreReal == CommandSpec => []NoFalseFailure
<1>1. IInv => NoFalseFailure
  BY DEF IInv, Phases, DoneInv, NoFalseFailure
<1>. QED
  BY <1>1, Invariance, PTL

-----------------------------------------------------------------------------
(* The ADMA table: for every line size, address and length it covers the    *)
(* buffer exactly.                                                          *)

\* How many lines a buffer needs: all but the last are full, and the last
\* holds between one byte and a full line.
LEMMA LastLine ==
  ASSUME NEW m \in Nat \ {0}
  PROVE  /\ SgLen(m) \in Nat \ {0}
         /\ m - (SgLen(m) - 1) * LineSz \in 1..LineSz
<1>1. CASE m <= LineSz
  BY <1>1, LineSzAssumption DEF SgLen
<1>2. CASE m > LineSz
  <2> DEFINE q == m \div LineSz
             r == m % LineSz
  <2>1. q \in Nat /\ r \in 0..(LineSz - 1) /\ m = q * LineSz + r
    BY LineSzAssumption, SMTT(30)
  <2>2. SgLen(m) = IF r # 0 THEN q + 1 ELSE q
    BY <1>2, <2>1, LineSzAssumption DEF SgLen
  <2> HIDE DEF q, r
  <2>3. q # 0
    <3>1. q = 0 => m = r
      BY <2>1, LineSzAssumption
    <3>2. QED BY <3>1, <2>1, <1>2, LineSzAssumption
  <2>4. m - (q - 1) * LineSz = r + LineSz /\ m - ((q + 1) - 1) * LineSz = r
    BY <2>1, LineSzAssumption
  <2>5. QED BY <2>1, <2>2, <2>3, <2>4, LineSzAssumption
<1>3. QED BY <1>1, <1>2, LineSzAssumption

\* Adjacent lines differ by one line size.
LEMMA NextLine ==
  ASSUME NEW L \in Nat, NEW d \in Nat, NEW i \in Nat \ {0}
  PROVE  d + (i - 1) * L + L = d + ((i + 1) - 1) * L
OBVIOUS

\* sdhci_prep_desc_table describes every buffer of at least one byte exactly.
LEMMA DescriptorsTile ==
  ASSUME NEW d \in Nat, NEW m \in Nat \ {0}
  PROVE  Tiles(d, m)
<1> DEFINE n == SgLen(m)
           t == PrepDescTable(d, m)
           last == m - (n - 1) * LineSz
<1>1. n \in Nat \ {0} /\ last \in 1..LineSz /\ LineSz \in Nat \ {0}
  BY LastLine, LineSzAssumption
<1>2. \A i \in 1..n : /\ t[i].addr = d + (i - 1) * LineSz
                      /\ t[i].len = Field(IF i < n THEN LineSz ELSE last)
                      /\ t[i].end <=> i = n
  BY DEF PrepDescTable
<1>3. t[1].addr = d
  BY <1>1, <1>2
<1>4. ASSUME NEW i \in 1..n, i < n
      PROVE  t[i].addr + MovedBy(t[i]) = t[i + 1].addr
  <2>1. MovedBy(t[i]) = LineSz
    BY <1>1, <1>2, <1>4 DEF Field, MovedBy
  <2>2. t[i].addr = d + (i - 1) * LineSz /\ t[i + 1].addr = d + ((i + 1) - 1) * LineSz
    <3> HIDE DEF t
    <3> QED BY <1>1, <1>2, <1>4
  <2>3. QED BY <2>1, <2>2, <1>1, NextLine
<1>5. t[n].addr + MovedBy(t[n]) = d + m
  <2>1. MovedBy(t[n]) = last
    BY <1>1, <1>2 DEF Field, MovedBy
  <2>2. t[n].addr = d + (n - 1) * LineSz
    BY <1>1, <1>2
  <2> DEFINE p == (n - 1) * LineSz
  <2>3. p \in Nat /\ last = m - p
    BY <1>1
  <2> HIDE DEF p, n
  <2>4. QED BY <2>1, <2>2, <2>3 DEF p
<1>6. QED
  <2> HIDE DEF t, n
  <2>1. \A i \in 1..n : i = n \/ i < n
    BY <1>1
  <2>2. QED
    BY <1>2, <1>3, <1>4, <1>5, <2>1 DEF Tiles, t, n

\* What the run checks of small buffers, for all of them: the table that
\* sdhci_send_command holds during a transfer describes it.
THEOREM EveryTableDescribes == CommandSpec => []TableDescribes
<1>1. TableTiles
  BY DescriptorsTile, BoundsAssumption DEF TableTiles
<1>2. TableDescribes
  BY <1>1 DEF TableDescribes
<1>3. QED
  BY <1>2, PTL
=============================================================================
