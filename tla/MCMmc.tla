-------------------------------- MODULE MCMmc --------------------------------
(***************************************************************************)
(* The MMC driver for TLC: the bring-up of a card (MmcCard), or the tuning *)
(* of its bus (MmcTuning), or block I/O on it (MmcBlockIo).  The driver    *)
(* does one after the other and each starts from what the one before       *)
(* leaves, whatever that is; so a behaviour is one of any of them, and     *)
(* part says which.  While another runs, the bring-up is over and failed.  *)
(***************************************************************************)
EXTENDS MmcCard

VARIABLES part, slot1, slot2, slot3, slot4, slot5, slot6, slot7, slot8,
          slot9, slot10, slot11, slot12, slot13, slot14, slot15, slot16
slots == <<slot1, slot2, slot3, slot4, slot5, slot6, slot7, slot8,
           slot9, slot10, slot11, slot12, slot13, slot14, slot15, slot16>>
allVars == <<vars, part, slots>>

(* Transfers of up to three blocks, one more than the block count holds, at  *)
(* the start and the end of the card and around its protected first block. *)
Io == INSTANCE MmcBlockIo WITH
    LastBlock <- 4, LastProtected <- 0, Protects <- TRUE, CardTypes <- {"stdMMC", "MMCHC", "SDHC"},
    BlockSize <- 2, CountMod <- 3, LenMod <- 16, ArgMod <- 32, MaxBlocks <- 3, MaxRequests <- 2,
    SingleDataErrors <- FALSE,
    type <- slot1, medium <- slot2, buffer <- slot3, req <- slot4, status <- slot5, pc <- slot6, rc <- slot7, addr <- slot8,
    left <- slot9, sptr <- slot10, card <- slot11

Tuning == INSTANCE MmcTuning WITH
    MaxPhases <- 4, MaxDrvType <- 3, Supported <- {1, 3},
    ErrorsIgnored <- BOOLEAN, DllFails <- BOOLEAN, SwitchFails <- BOOLEAN,
    setting <- slot1, at <- slot2, timing <- slot3, ret <- slot4, phase <- slot5, tuned <- slot6, data <- slot7, drv <- slot8,
    changed <- slot9, dll <- slot10, saved <- slot11, tuning_done <- slot12, calibration_done <- slot13,
    attempt_cdr_unlock <- slot14, strength <- slot15, delivered <- slot16

(* The selection alone, for every set of passed phases of a larger ring.   *)
Ring == INSTANCE TuningPhase WITH MaxPhases <- 12
RingSelects == \A passed \in (SUBSET Ring!Phases) \ {{}} : Ring!Selects(passed)

ASSUME IoAssumption == Io!ParametersAssumption
ASSUME TuningAssumption == Tuning!TuningAssumption /\ Tuning!MaxPhasesAssumption

-----------------------------------------------------------------------------
CardOver ==
    /\ setting = (CHOOSE s \in Settings : s.can.kind = "none") /\ InitDriver
    /\ todo = <<>> /\ outcome = "failed" /\ card = Idle
Unused12To16 == slot12 = 0 /\ slot13 = 0 /\ slot14 = 0 /\ slot15 = 0 /\ slot16 = 0
Unused ==
    /\ slot1 = 0 /\ slot2 = 0 /\ slot3 = 0 /\ slot4 = 0 /\ slot5 = 0 /\ slot6 = 0
    /\ slot7 = 0 /\ slot8 = 0 /\ slot9 = 0 /\ slot10 = 0 /\ slot11 = 0 /\ Unused12To16

MCInit ==
    \/ part = "card" /\ Init /\ Unused
    \/ part = "io" /\ Io!Init /\ CardOver /\ Unused12To16
    \/ part = "tuning" /\ Tuning!TuningInit /\ CardOver
MCDriver == part = "card" /\ Driver /\ UNCHANGED <<part, slots>>
MCSdhciIntHandler == part = "card" /\ SdhciIntHandler /\ UNCHANGED <<part, slots>>
MCNext ==
    \/ MCDriver
    \/ MCSdhciIntHandler
    \/ part = "io" /\ Io!Next /\ UNCHANGED <<vars, part, slot12, slot13, slot14, slot15, slot16>>
    \/ part = "tuning" /\ Tuning!TuningNext /\ UNCHANGED <<vars, part>>
MCSpec == MCInit /\ [][MCNext]_allVars /\ WF_allVars(MCDriver) /\ WF_allVars(MCSdhciIntHandler)

-----------------------------------------------------------------------------
(* Whatever the card does, a request touches only its own blocks, and only *)
(* one whose blocks were all moved is reported as a success (MMCHS.c,      *)
(* mmc_sdhci_read, mmc_sdhci_write).                                       *)
DeviceVars == <<slot2, slot3, slot4, slot5>>
ImplementsBlockDevice ==
    /\ part = "io" => Io!Device!Init
    /\ [][part = "io" => Io!Device!Next]_DeviceVars

(* The protected blocks never change (MMCHSWriteBlocks).                   *)
ProtectedKept == part = "io" => Io!ProtectedKept

(* A tuning that succeeds leaves a phase at which the card's block arrived *)
(* with the strength then in force, in the middle of a longest window, and *)
(* the default strength (sdhci_msm_execute_tuning).                        *)
TunedWell ==
    part = "tuning" =>
        /\ Tuning!ChosenPhaseWorks /\ Tuning!StrengthRestored /\ Tuning!SelectsTuned
        /\ slot2 = "select" => RingSelects
=============================================================================
