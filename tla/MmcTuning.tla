----------------------------- MODULE MmcTuning ------------------------------
(***************************************************************************)
(* The tuning of an eMMC bus for HS200 and HS400 (sdhci_msm.c,             *)
(* sdhci_msm_execute_tuning, and mmc_set_drv_type of mmc_sdhci.c).  Every  *)
(* phase of the delay line is tried by reading a known block with CMD21;   *)
(* if all of them pass, the card's driver strength is changed and the      *)
(* trial repeated; a phase is selected, configured and saved.  HS400 is    *)
(* entered by a second call, which calibrates with the saved phase.        *)
(*                                                                         *)
(* While tuning_in_progress is set, sdhci_send_command reports success     *)
(* for command and data errors (CmdTune and TransTune of SdhciCommand).    *)
(***************************************************************************)
EXTENDS TuningPhase

CONSTANTS
  MaxDrvType,     \* MX_DRV_SUPPORTED_HS200, 3
  Supported,      \* driver types the card supports besides 0
  ErrorsIgnored,  \* values of setting.ignores: an error of CMD21 passes for a success
  DllFails,       \* ... .dllFails: sdhci_msm_init_dll and sdhci_msm_config_dll may time out
  SwitchFails     \* ... .switchFails: a switch command may fail

TuningAssumption ==
  /\ MaxDrvType \in Nat /\ Supported \subseteq 1..MaxDrvType
  /\ ErrorsIgnored \subseteq BOOLEAN /\ DllFails \subseteq BOOLEAN /\ SwitchFails \subseteq BOOLEAN

VARIABLES
  setting,                  \* what may go wrong in this behaviour
  at, timing, ret,          \* where a call is, the mode entered, its result
  phase, tuned,             \* the phase being tried, tuned_phases
  data,                     \* contents of tuning_data
  drv, changed,             \* drv_type, drv_type_changed
  dll, saved,               \* phase in the delay line, msm_host->saved_phase
  tuning_done, calibration_done, attempt_cdr_unlock,
  strength,                 \* the card's driver strength
  delivered                 \* phases whose own CMD21 brought the block

tuningVars == <<setting, at, timing, ret, phase, tuned, data, drv, changed, dll, saved, tuning_done,
          calibration_done, attempt_cdr_unlock, strength, delivered>>

host == <<saved, tuning_done, calibration_done, attempt_cdr_unlock>>
None == -1

TuningInit ==
  /\ at = "idle" /\ timing = "none" /\ ret = 0
  /\ phase = 0 /\ tuned = {} /\ data = "fresh" /\ drv = 0 /\ changed = FALSE
  /\ dll = None /\ saved = 0
  /\ tuning_done = FALSE /\ calibration_done = FALSE /\ attempt_cdr_unlock = FALSE
  /\ strength = 0 /\ delivered = {}
  /\ setting \in [ignores : ErrorsIgnored, dllFails : DllFails, switchFails : SwitchFails]

\* mmc_set_hs200_mode calls for HS200; if that succeeds mmc_set_hs400_mode
\* may switch the card to HS400, which writes the default driver strength,
\* and call again.
Execute ==
  /\ at = "idle" /\ ret = 0
  /\ \/ timing = "none" /\ timing' = "HS200" /\ UNCHANGED strength
     \/ timing = "HS200" /\ timing' = "HS400" /\ strength' = 0
  /\ data' = "fresh" /\ tuned' = {} /\ phase' = 0 /\ drv' = 0 /\ changed' = FALSE
  /\ at' = IF tuning_done /\ ~calibration_done /\ timing' = "HS400" THEN "calibrate" ELSE "init"
  /\ UNCHANGED <<setting, ret, dll, host, delivered>>

Fail == ret' = 1 /\ at' = "out"

\* sdhci_msm_hs400_calibration: reset the delay line, write the saved phase,
\* calibrate.
Calibrate ==
  /\ at = "calibrate"
  /\ \/ dll' = saved /\ calibration_done' = TRUE /\ at' = "out" /\ UNCHANGED ret
     \/ setting.dllFails /\ Fail /\ dll' \in {None, saved} /\ UNCHANGED calibration_done
  /\ UNCHANGED <<setting, timing, phase, tuned, data, drv, changed, saved, tuning_done,
                 attempt_cdr_unlock, strength, delivered>>

InitDll ==
  /\ at = "init"
  /\ dll' = None
  /\ \/ at' = "retry" /\ UNCHANGED ret
     \/ setting.dllFails /\ Fail
  /\ UNCHANGED <<setting, timing, phase, tuned, data, drv, changed, host, strength, delivered>>

\* retry_tuning: the count and the phase start again; the buffer does not.
RestartMutant == UNCHANGED tuned               \* tuned_phase_cnt not reset
Restart == tuned' = {}

RetryTuning ==
  /\ at = "retry"
  /\ Restart /\ phase' = 0 /\ delivered' = {} /\ at' = "try"
  /\ UNCHANGED <<setting, timing, ret, data, drv, changed, dll, host, strength>>

Outcomes == {"block", "junk", "failed"} \cup (IF setting.ignores THEN {"ignored"} ELSE {})

\* CMD21 with the delay line at this phase: the block arrives, or a damaged
\* one; an error is ignored and leaves the buffer as it was; or
\* sdhci_send_command fails.
Cmd21(o) == data' = CASE o = "block" -> "block" [] o = "junk" -> "junk" [] OTHER -> data

Passes(o) == o # "failed" /\ data' = "block"

MorePhasesMutant == phase <= MaxPhases
MorePhases == phase < MaxPhases

TryPhase ==
  /\ at = "try" /\ MorePhases
  /\ \/ /\ dll' = phase
        /\ \E o \in Outcomes :
             /\ Cmd21(o)
             /\ tuned' = IF Passes(o) THEN tuned \cup {phase} ELSE tuned
             /\ delivered' = IF o = "block" THEN delivered \cup {phase} ELSE delivered
        /\ phase' = phase + 1
        /\ UNCHANGED <<at, ret>>
     \/ setting.dllFails /\ Fail /\ dll' = None /\ UNCHANGED <<phase, tuned, data, delivered>>
  /\ UNCHANGED <<setting, timing, drv, changed, host, strength>>

Tried ==
  /\ at = "try" /\ ~MorePhases
  /\ at' = IF tuned = Phases THEN "drive" ELSE "restore"
  /\ UNCHANGED <<setting, timing, ret, phase, tuned, data, drv, changed, dll, host, strength, delivered>>

\* mmc_set_drv_type: an unsupported type is reported as changed.
SetDrvType(d) ==
  \/ d \notin Supported \cup {0} /\ changed' = TRUE /\ UNCHANGED strength
  \/ d \in Supported \cup {0} /\ changed' = TRUE /\ strength' = d
  \/ setting.switchFails /\ d \in Supported \cup {0} /\ changed' = FALSE /\ strength' \in {strength, d}

\* The next driver type, until one is reported as changed or none is left.
NextType == drv' = drv + 1

ChangeDrive ==
  /\ at = "drive"
  /\ \/ /\ drv < MaxDrvType
        /\ NextType /\ SetDrvType(drv + 1)
        /\ at' = IF changed' THEN "retry" ELSE "drive"
     \/ drv = MaxDrvType /\ NextType /\ at' = "restore" /\ UNCHANGED <<changed, strength>>
  /\ UNCHANGED <<setting, timing, ret, phase, tuned, data, dll, host, delivered>>

\* Back to the default driver strength; the result is not looked at.
MustRestoreMutant == FALSE
MustRestore == changed

Restore ==
  /\ at = "restore"
  /\ IF MustRestore
     THEN \E c \in BOOLEAN, s \in 0..MaxDrvType :
            /\ \/ c /\ s = 0
               \/ setting.switchFails /\ ~c /\ s \in {0, strength}
            /\ strength' = s
     ELSE UNCHANGED strength
  /\ attempt_cdr_unlock' = (attempt_cdr_unlock \/ tuned = Phases)
  /\ at' = "select"
  /\ UNCHANGED <<setting, timing, ret, phase, tuned, data, drv, changed, dll, saved, tuning_done,
                 calibration_done, delivered>>

Configured(p) == dll' = p /\ saved' = p

\* The selected phase is configured and saved; if it cannot be configured,
\* the call ends with what ret holds by then, 0.
Select ==
  /\ at = "select" /\ at' = "out"
  /\ \/ /\ tuned # {}
        /\ phase' = FindPhase(tuned) /\ ret' = 0
        /\ \/ Configured(FindPhase(tuned))
           \/ setting.dllFails /\ dll' = None /\ UNCHANGED saved
     \/ /\ tuned = {}
        /\ ret' = 1 /\ UNCHANGED <<phase, dll, saved>>
  /\ UNCHANGED <<setting, timing, tuned, data, drv, changed, tuning_done, calibration_done,
                 attempt_cdr_unlock, strength, delivered>>

\* CMD21 once more if all phases passed, its result ignored; tuning is done,
\* however it went.
Out ==
  /\ at = "out" /\ at' = "idle"
  /\ IF attempt_cdr_unlock THEN \E o \in Outcomes : Cmd21(o) ELSE UNCHANGED data
  /\ tuning_done' = TRUE
  /\ UNCHANGED <<setting, timing, ret, phase, tuned, drv, changed, dll, saved, calibration_done,
                 attempt_cdr_unlock, strength, delivered>>

Step ==
  \/ Calibrate \/ InitDll \/ RetryTuning \/ TryPhase \/ Tried
  \/ ChangeDrive \/ Restore \/ Select \/ Out

TuningNext == Execute \/ Step
TuningSpec == TuningInit /\ [][TuningNext]_tuningVars

-----------------------------------------------------------------------------
Succeeded == at = "idle" /\ timing # "none" /\ ret = 0

\* The phase a successful tuning settles on is one at which the card's block
\* arrived during the last trial, with the driver strength then in force.
SettledPhaseWorks == Succeeded => saved \in delivered

\* So it is, and the delay line is left at it, when no error of CMD21 passes for a
\* success and the delay line answers.
ChosenPhaseWorks ==
  ~setting.ignores /\ ~setting.dllFails => SettledPhaseWorks /\ (Succeeded => dll = saved)

\* The card is left with the default driver strength when switches succeed and the
\* delay line answers (its failure in the middle of a trial goes past the restore).
StrengthRestored == ~setting.switchFails /\ ~setting.dllFails /\ at = "idle" => strength = 0

\* A phase is selected at three quarters of a longest window of the ring, for every
\* set of phases that passed the trials.
SelectsTuned == at = "select" /\ tuned # {} => Selects(tuned)
=============================================================================
