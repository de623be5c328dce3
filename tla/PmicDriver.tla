----------------------------- MODULE PmicDriver -----------------------------
(***************************************************************************)
(* The PMIC functions of Pm8x41Dxe and three of their callers: the reset   *)
(* library, the start of the USB controller and its hub, and the vibrator. *)
(* Every function is a short program of register accesses, and so it is    *)
(* modelled: Program(call) is the sequence of its statements, and one      *)
(* action carries out the next of them.  An access is one command on the   *)
(* bus (module SpmiArbiter); pm8x41_reg_read and pm8x41_reg_write do not   *)
(* look at its result, so after a failed read the value is 0 and after a   *)
(* failed write the program goes on.                                       *)
(*                                                                         *)
(* A register holds a set of bits and fields; "other" stands for the bits  *)
(* a function has no business with.                                        *)
(***************************************************************************)
EXTENDS Integers, Sequences, FiniteSets

CONSTANTS RawValues,      \* what a conversion of the ADC may read
          PmicCalls,      \* bound on the calls of a behaviour
          PmicFailures    \* bound on its failed commands

VARIABLES pmic,      \* the registers: a function from registers to sets of bits
          prog,      \* the call that runs
          pins,      \* what the run observes: when a register changed, the last one written
          sids       \* mpp_slave_id and wled_slave_id

pmicVars == <<pmic, prog, pins, sids>>

Reg(sid, block, off) == [sid |-> sid, block |-> block, off |-> off]

(* Statements.  Modify writes the value read before, without some bits and *)
(* with others.                                                            *)
Rd(r) == [op |-> "read", reg |-> r]
Wr(r, v) == [op |-> "write", reg |-> r, set |-> v]
Modify(r, clear, set) == [op |-> "modify", reg |-> r, clear |-> clear, set |-> set]
Save(r, slot) == [op |-> "save", reg |-> r, slot |-> slot]
Restore(r, slot) == [op |-> "restore", reg |-> r, slot |-> slot]
Test(r) == [op |-> "test", reg |-> r]                  \* a status bit decides the result
Poll(r) == [op |-> "poll", reg |-> r]                  \* wait for a status, without a limit
Sample(r) == [op |-> "sample", reg |-> r]              \* the two bytes of a conversion
Stall(us) == [op |-> "stall", us |-> us]

(* pm8x41_gpio_config(_sid), pm8x41_gpio_set(_sid), pm8x41_gpio_get(_sid). *)
(* Without a slave id the pin is slave 0's.                                *)
GpioConfig(s, g, dir) ==
    <<Rd(Reg(s, g, "en")), Modify(Reg(s, g, "en"), {"en"}, {}),
      Wr(Reg(s, g, "mode"), {dir}), Wr(Reg(s, g, "pull"), {"pull"}), Wr(Reg(s, g, "vin"), {"vin"})>>
    \o (IF dir = "out" THEN <<Wr(Reg(s, g, "out"), {"strength"})>> ELSE <<>>)
    \o <<Rd(Reg(s, g, "en")), Modify(Reg(s, g, "en"), {}, {"en"})>>
GpioSet(s, g, level) == <<Rd(Reg(s, g, "mode")), Modify(Reg(s, g, "mode"), {"high"}, level)>>
GpioGet(s, g) == <<Test(Reg(s, g, "status"))>>

(* pm8x41_resin_s2_reset_enable and _disable, pm8x41_v2_resin_status. *)
S2(off) == Reg(0, "pon", off)
ResinReset(t) ==
    <<Wr(S2("s2_ctl"), {}), Stall(300), Wr(S2("s1_timer"), {}), Wr(S2("s2_timer"), {"max"}),
      Wr(S2("s2_ctl"), {t}), Rd(S2("s2_ctl")), Modify(S2("s2_ctl"), {}, {"en"})>>
ResinDisable == <<Wr(S2("s2_ctl"), {}), Stall(300)>>
V2ResinStatus == ResinReset("warm") \o <<Stall(100000), Test(S2("rt_sts"))>> \o ResinDisable

(* pm8x41_reset_configure, pm8x41_v2_reset_configure, pm8994_reset_configure. *)
NoDisableMutant(t) == <<Stall(300), Wr(S2("ps_hold_ctl"), {t}), Wr(S2("ps_hold_ctl2"), {"en"})>>
ResetConfigure(t) ==
    <<Wr(S2("ps_hold_ctl2"), {}), Stall(300), Wr(S2("ps_hold_ctl"), {t}), Wr(S2("ps_hold_ctl2"), {"en"})>>
V2ResetConfigure(t) ==
    <<Wr(S2("ps_hold_ctl"), {}), Stall(300), Wr(S2("ps_hold_ctl"), {t}),
      Rd(S2("ps_hold_ctl")), Modify(S2("ps_hold_ctl"), {}, {"en"})>>
Pm8994ResetConfigure(t) ==
    <<Wr(S2("ps_hold_ctl2"), {}), Stall(300), Wr(S2("ps_hold_ctl"), {t}),
      Wr(Reg(2, "pon", "ps_hold_ctl"), {t}), Wr(S2("ps_hold_ctl2"), {"en"})>>

(* pm8xxx_is_battery_broken and pmi8994_is_battery_broken: charge a little, *)
(* look at the voltage, put the charger back.                               *)
Chgr(off) == Reg(0, "chgr", off)
Unlock == Wr(Chgr("sec_access"), {"a5"})
RestoreSwappedMutant == <<Restore(Chgr("ibat_atc"), 2), Restore(Chgr("vbat_det"), 1)>>
RestoreCharger == <<Restore(Chgr("ibat_atc"), 1), Restore(Chgr("vbat_det"), 2)>>
BatteryBroken ==
    <<Save(Chgr("ibat_atc"), 1), Save(Chgr("vbat_det"), 2), Wr(Chgr("ibat_atc"), {}), Wr(Chgr("vbat_det"), {"4.3V"}),
      Unlock, Wr(Chgr("comp_ovr0"), {"dis_vtrkl_fault"}), Wr(Reg(0, "bat_if", "vcp"), {}),
      Unlock, Wr(Chgr("trkl_chg_test"), {"forced"}), Stall(12000), Test(Chgr("vbat_in_tsts")),
      Unlock, Wr(Chgr("trkl_chg_test"), {}), Wr(Reg(0, "bat_if", "vcp"), {"en"})>> \o RestoreCharger
Pmi(off) == Reg(2, "chgr", off)
Pmi8994BatteryBroken ==
    <<Rd(Pmi("trim")), Modify(Pmi("trim"), {"poller"}, {}), Rd(Pmi("cfg2")), Modify(Pmi("cfg2"), {"term"}, {}),
      Save(Pmi("fcc"), 1), Wr(Pmi("fcc"), {}), Wr(Pmi("fv"), {"4.50V"}), Stall(5000), Test(Pmi("int_rt_sts")),
      Wr(Pmi("fv"), {"4.35V"}), Rd(Pmi("cfg2")), Modify(Pmi("cfg2"), {}, {"term"}), Restore(Pmi("fcc"), 1),
      Rd(Pmi("trim")), Modify(Pmi("trim"), {}, {"poller"})>>

(* pm8x41_diff_clock_ctrl, pm8x41_set_boot_done, pm_vib_turn_on and _off,   *)
(* pm8x41_clear_pmic_watchdog.                                              *)
Switch(r, on) == <<Rd(r), IF on THEN Modify(r, {}, {"en"}) ELSE Modify(r, {"en"}, {})>>
DiffClock(on) == Switch(Reg(0, "diff_clk1", "en"), on)
SetBootDone == Switch(Reg(0, "misc", "boot_done"), TRUE)
VibOn == <<Rd(Reg(1, "vib", "vtg")), Modify(Reg(1, "vib", "vtg"), {"level"}, {"level22"})>>
         \o Switch(Reg(1, "vib", "en"), TRUE)
VibOff == Switch(Reg(1, "vib", "en"), FALSE)
ClearWatchdog == <<Wr(S2("wd_s2_ctl2"), {})>>

(* pm8x41_ldo_set_voltage and _control, pm8x41_lpg_write(_sid), mvs, mpp,   *)
(* pm_pwm_config_regs, pm_pwm_enable; multi purpose pins are addressed with *)
(* the slave id set last.                                                   *)
LdoSetVoltage == <<Wr(Reg(1, "ldo", "mode"), {"normal"}), Wr(Reg(1, "ldo", "range"), {"range"}), Wr(Reg(1, "ldo", "step"), {"mult"})>>
EnBit(on) == IF on THEN {"en"} ELSE {}
LdoControl(on) == <<Wr(Reg(1, "ldo", "en"), EnBit(on))>>
EnableMvs(on) == <<Wr(Reg(1, "mvs", "en"), EnBit(on))>>
LpgWrite(s, v) == <<Wr(Reg(s, "lpg", "ctl"), v)>>
EnableMpp(on, slaves) == <<Wr(Reg(slaves.mpp, "mpp", "en"), EnBit(on))>>
ConfigOutputMpp(slaves) == <<Wr(Reg(slaves.mpp, "mpp", "vin"), {"vin"}), Wr(Reg(slaves.mpp, "mpp", "mode"), {"digital_out"})>>
PwmConfigRegs == <<Wr(Reg(1, "pwm", "size_clk"), {"size"}), Wr(Reg(1, "pwm", "prediv"), {"div"}), Wr(Reg(1, "pwm", "type"), {"glitch"}),
                   Wr(Reg(1, "pwm", "lsb"), {"lsb"}), Wr(Reg(1, "pwm", "msb"), {"msb"}), Wr(Reg(1, "pwm", "sync"), {"sync"})>>
PwmEnable(on) == <<Wr(Reg(1, "pwm", "en"), EnBit(on))>>

(* The backlight: wled_slave_id, or slave 1 when it is 0.  The two LAB      *)
(* registers' addresses already hold slave 1, and the slave id is added.    *)
WledSid(slaves) == IF slaves.wled # 0 THEN slaves.wled ELSE 1
Wled(slaves, off) == Reg(WledSid(slaves), "wled", off)
WledConfig(slaves) ==
    <<Wr(Wled(slaves, "mod_scheme"), {"mod"}), Wr(Wled(slaves, "brightness"), {"level"}), Wr(Wled(slaves, "max_duty"), {"duty"}),
      Wr(Wled(slaves, "ovp"), {"ovp"}), Wr(Wled(slaves, "full_current"), {"full"}), Wr(Wled(slaves, "fdbck"), {"fdbck"}),
      Wr(Reg(1 + WledSid(slaves), "lab", "sense"), {"0A"}), Wr(Reg(1 + WledSid(slaves), "lab", "ps_ctl"), {"80"})>>
WledSwitch(slaves, off, on) == <<Wr(Wled(slaves, off), EnBit(on))>>

(* pm8x41_enable_mpp_as_adc, pm8x41_chgr_ctl_enable and the limits of the   *)
(* charger.                                                                 *)
EnableMppAsAdc == <<Wr(Reg(0, "mpp", "mode"), {"ain"}), Wr(Reg(0, "mpp", "en"), {"en"}), Wr(Reg(0, "mpp", "ain"), {"amux"})>>
ChgrCtlEnable(on) ==
    IF on THEN <<Wr(Chgr("ctrl"), {"en"}), Wr(Reg(0, "misc", "boot_done"), {"en"})>> ELSE <<Wr(Chgr("ctrl"), {})>>
MaxConfig(off) == <<Wr(Chgr(off), {"mul"})>>

(* adc_configure: set up, enable, request, poll, read the two bytes of the  *)
(* result, disable; and pm8x41_adc_channel_read, which measures the channel *)
(* and then the two references of its kind of calibration.                  *)
Vadc(off) == Reg(0, "vadc", off)
AdcConfigure(chan) ==
    <<Wr(Vadc("mode"), {"normal"}), Wr(Vadc("chan"), {chan}), Wr(Vadc("dig_param"), {"decim"}), Wr(Vadc("settle"), {"time"}),
      Wr(Vadc("fast_avg"), {"avg"}), Wr(Vadc("en"), {"en"}), Wr(Vadc("req"), {"req"}), Poll(Vadc("status")),
      Sample(Vadc("data")), Wr(Vadc("en"), {"all_but_en"})>>
AdcChannelRead(calib) ==
    AdcConfigure("battery") \o (IF calib = "abs" THEN AdcConfigure("vref_125") \o AdcConfigure("vref_625")
                                ELSE AdcConfigure("vdd_vadc") \o AdcConfigure("gnd_ref"))

(* adc_limit_result_range and vadc_calibrate, in microvolts.  The division  *)
(* by the difference of the references truncates; for references that are   *)
(* equal, and at the limits they are, it is undefined.                      *)
AdcMin == 24576
AdcMax == 43008
Limited(v) == IF v < AdcMin THEN AdcMin ELSE IF v > AdcMax THEN AdcMax ELSE v
DivisionByZero == -1
Quotient(a, b) == IF b > 0 THEN a \div b ELSE -(a \div (-b))
NoOffsetMutant(raw) == ((raw[1] - raw[3]) * Quotient(625000, raw[2] - raw[3])) * 3
CalibAbs(raw) == ((raw[1] - raw[3]) * Quotient(625000, raw[2] - raw[3]) + 625000) * 3
CalibRatio(raw) == (raw[1] - raw[3]) * Quotient(1800000, raw[2] - raw[3])
VadcCalibrate(calib, raw) ==
    IF raw[2] = raw[3] THEN DivisionByZero ELSE IF calib = "abs" THEN CalibAbs(raw) ELSE CalibRatio(raw)

(* reboot_device and shutdown_device of ResetSystemLib. *)
DropPsHold == <<Wr(Reg(-1, "mpm", "ps_hold"), {}), Stall(5000000)>>
RebootDevice == <<Wr(Reg(-1, "imem", "restart_reason"), {})>> \o ResetConfigure("hard") \o DropPsHold
ShutdownDevice == ResetConfigure("shutdown") \o DropPsHold

(* Msm8916UsbDxeInitialize: the hub leaves reset 200 ms before the switch   *)
(* leads to it; then the clocks, the two block resets, the controller's and *)
(* the PHY's own, and host mode.                                            *)
Usb(off) == Reg(-1, "usb", off)
Gcc(off) == Reg(-1, "gcc", off)
HubWait == Stall(200000)
ClocksFirst == <<Wr(Gcc("usb_iface_clk"), {"en"}), Wr(Gcc("usb_core_clk"), {"en"}), Rd(Gcc("phy_sleep")), Modify(Gcc("phy_sleep"), {}, {"en"})>>
PulseReset(off) == <<Wr(Gcc(off), {"reset"}), Stall(1000), Wr(Gcc(off), {}), Stall(1000)>>
UsbBringUp ==
    GpioConfig(0, "gpio3", "out") \o GpioSet(0, "gpio3", {"high"}) \o <<HubWait>>
    \o GpioConfig(0, "gpio4", "out") \o GpioSet(0, "gpio4", {"high"}) \o <<Stall(50000)>>
    \o ClocksFirst \o PulseReset("usb_hs_bcr") \o PulseReset("usb2a_phy_bcr")
    \o <<Rd(Usb("cmd")), Modify(Usb("cmd"), {}, {"rst"}), Stall(5000), Rd(Usb("phy_ctrl")), Modify(Usb("phy_ctrl"), {}, {"por"}), Stall(20),
         Rd(Usb("phy_ctrl")), Modify(Usb("phy_ctrl"), {"por"}, {}), Stall(20), Wr(Usb("ahb"), {"mode8"}),
         Wr(Usb("ulpi"), {"tuned"}), Rd(Usb("cmd")), Modify(Usb("cmd"), {"sess_vld"}, {}), Rd(Usb("mode")), Modify(Usb("mode"), {}, {"host"})>>

Program(c, slaves) ==
    CASE c[1] = "gpio_config" -> GpioConfig(c[2], "gpio3", c[3])
      [] c[1] = "gpio_set" -> GpioSet(c[2], "gpio3", c[3])
      [] c[1] = "gpio_get" -> GpioGet(c[2], "gpio3")
      [] c[1] = "resin_reset" -> ResinReset("warm")
      [] c[1] = "resin_disable" -> ResinDisable
      [] c[1] = "v2_resin_status" -> V2ResinStatus
      [] c[1] = "resin_status" -> <<Test(S2("rt_sts"))>>
      [] c[1] = "reset_configure" -> ResetConfigure(c[2])
      [] c[1] = "v2_reset_configure" -> V2ResetConfigure(c[2])
      [] c[1] = "pm8994_reset_configure" -> Pm8994ResetConfigure(c[2])
      [] c[1] = "battery" -> BatteryBroken
      [] c[1] = "pmi8994_battery" -> Pmi8994BatteryBroken
      [] c[1] = "diff_clock" -> DiffClock(c[2])
      [] c[1] = "boot_done" -> SetBootDone
      [] c[1] = "vib" -> IF c[2] THEN VibOn ELSE VibOff
      [] c[1] = "watchdog" -> ClearWatchdog
      [] c[1] = "ldo" -> LdoSetVoltage \o LdoControl(c[2])
      [] c[1] = "mvs_lpg" -> EnableMvs(c[2]) \o LpgWrite(1, {"v"}) \o PwmConfigRegs \o PwmEnable(c[2])
      [] c[1] = "mpp" -> ConfigOutputMpp(slaves) \o EnableMpp(c[2], slaves)
      [] c[1] = "wled" -> WledConfig(slaves) \o WledSwitch(slaves, "sink", c[2]) \o WledSwitch(slaves, "iled_sync", c[2])
                          \o WledSwitch(slaves, "led_mod", c[2]) \o WledSwitch(slaves, "enable", c[2])
      [] c[1] = "charger" -> EnableMppAsAdc \o ChgrCtlEnable(c[2]) \o MaxConfig("iusb_max") \o MaxConfig("ibat_max") \o MaxConfig("vdd_max")
      [] c[1] = "adc" -> AdcChannelRead(c[2])
      [] c[1] = "reboot" -> RebootDevice
      [] c[1] = "shutdown" -> ShutdownDevice
      [] c[1] = "usb" -> UsbBringUp

Calls ==
    ({"gpio_config"} \X {0, 2} \X {"in", "out"}) \cup ({"gpio_set"} \X {0, 2} \X {{}, {"high"}}) \cup ({"gpio_get"} \X {0, 2})
    \cup ({"reset_configure", "v2_reset_configure", "pm8994_reset_configure"} \X {"warm", "hard"})
    \cup ({"diff_clock", "vib", "ldo", "mvs_lpg", "mpp", "wled", "charger"} \X BOOLEAN) \cup ({"adc"} \X {"abs", "ratio"})
    \cup {<<a>> : a \in {"resin_reset", "resin_disable", "v2_resin_status", "resin_status", "battery", "pmi8994_battery",
                         "boot_done", "watchdog", "reboot", "shutdown", "usb"}}

----------------------------------------------------------------------------
Registers ==
    UNION {{s.reg : s \in {s \in {Program(c, [mpp |-> m, wled |-> m])[i] : i \in 1..Len(Program(c, [mpp |-> m, wled |-> m]))} : s.op # "stall"}} :
              c \in Calls, m \in {0, 3}}
NoCall == <<"none">>
NoReg == Reg(-1, "none", "none")
Never == -1

PmicInit ==
    /\ pmic = [r \in Registers |-> IF r.off \in {"en", "ps_hold_ctl", "ps_hold_ctl2"} THEN {"en", "other"}
                              ELSE IF r = Chgr("ibat_atc") THEN {"default"} ELSE {"other"}]
    /\ prog = [call |-> NoCall, at |-> 0, val |-> {}, saved |-> <<{}, {}>>, ret |-> FALSE, raw |-> <<>>,
               failed |-> FALSE, failures |-> PmicFailures, left |-> PmicCalls, busy |-> FALSE]
    /\ pins = [disabled |-> Never, hub |-> Never, last |-> NoReg, start |-> pmic]
    /\ sids = [mpp |-> 0, wled |-> 0]

StartCall(c) ==
    /\ ~prog.busy /\ prog.left > 0
    /\ prog' = [prog EXCEPT !.call = c, !.at = 0, !.val = {}, !.saved = <<{}, {}>>, !.ret = FALSE, !.raw = <<>>,
                            !.failed = FALSE, !.left = @ - 1, !.busy = TRUE]
    /\ pins' = [disabled |-> Never, hub |-> Never, last |-> NoReg, start |-> pmic]
    /\ UNCHANGED <<pmic, sids>>

(* pmi8994_config_mpp_slave_id and pm8x41_wled_config_slave_id. *)
ConfigSlave(which, s) ==
    /\ ~prog.busy /\ prog.left = PmicCalls /\ sids[which] = 0
    /\ sids' = [sids EXCEPT ![which] = s]
    /\ UNCHANGED <<pmic, prog, pins>>

Text == Program(prog.call, sids)
Running == prog.busy /\ prog.at < Len(Text)
Stmt == Text[prog.at + 1]
IsOp(o) == Running /\ Stmt.op = o
Advance == [prog EXCEPT !.at = @ + 1]

ReadStep == IsOp("read") /\ prog' = [Advance EXCEPT !.val = pmic[Stmt.reg]] /\ UNCHANGED <<pmic, pins, sids>>
SaveStep == IsOp("save") /\ prog' = [Advance EXCEPT !.saved[Stmt.slot] = pmic[Stmt.reg]] /\ UNCHANGED <<pmic, pins, sids>>

Writes == Running /\ Stmt.op \in {"write", "modify", "restore"}
ValueWritten == CASE Stmt.op = "write" -> Stmt.set
                  [] Stmt.op = "modify" -> (prog.val \ Stmt.clear) \cup Stmt.set
                  [] Stmt.op = "restore" -> prog.saved[Stmt.slot]
ResetControl == {S2("s2_ctl"), S2("ps_hold_ctl"), S2("ps_hold_ctl2")}
HubReset == Reg(0, "gpio3", "mode")
WriteStep ==
    /\ Writes
    /\ pmic' = [pmic EXCEPT ![Stmt.reg] = ValueWritten]
    /\ pins' = [pins EXCEPT !.last = Stmt.reg,
                            !.disabled = IF Stmt.reg \in ResetControl /\ ValueWritten = {} THEN 0 ELSE @,
                            !.hub = IF Stmt.reg = HubReset THEN (IF "high" \in ValueWritten THEN 0 ELSE Never) ELSE @]
    /\ prog' = Advance
    /\ UNCHANGED sids

Longer(t, us) == IF t = Never THEN Never ELSE IF t + us > 200000 THEN 200000 ELSE t + us
StallStep ==
    /\ IsOp("stall")
    /\ pins' = [pins EXCEPT !.disabled = Longer(@, Stmt.us), !.hub = Longer(@, Stmt.us)]
    /\ prog' = Advance
    /\ UNCHANGED <<pmic, sids>>

TestStep == IsOp("test") /\ (\E b \in BOOLEAN : prog' = [Advance EXCEPT !.ret = b]) /\ UNCHANGED <<pmic, pins, sids>>
PollStep == IsOp("poll") /\ prog' = Advance /\ UNCHANGED <<pmic, pins, sids>>
SampleStep ==
    /\ IsOp("sample")
    /\ \E v \in RawValues : prog' = [Advance EXCEPT !.raw = Append(@, Limited(v))]
    /\ UNCHANGED <<pmic, pins, sids>>

(* A command that fails.  What a failed read leaves is 0: no bits, no       *)
(* status, the least result of a conversion; a poll goes round again.       *)
CommandFails ==
    /\ Running /\ prog.failures > 0 /\ Stmt.op # "stall" /\ Stmt.reg.sid >= 0
    /\ LET p == [Advance EXCEPT !.failed = TRUE, !.failures = @ - 1]
       IN prog' = CASE Stmt.op = "read" -> [p EXCEPT !.val = {}]
                    [] Stmt.op = "save" -> [p EXCEPT !.saved[Stmt.slot] = {}]
                    [] Stmt.op = "test" -> [p EXCEPT !.ret = FALSE]
                    [] Stmt.op = "sample" -> [p EXCEPT !.raw = Append(@, AdcMin)]
                    [] Stmt.op = "poll" -> [p EXCEPT !.at = prog.at]
                    [] OTHER -> p
    /\ UNCHANGED <<pmic, pins, sids>>

FinishCall ==
    /\ prog.busy /\ ~Running
    /\ prog' = [prog EXCEPT !.busy = FALSE]
    /\ UNCHANGED <<pmic, pins, sids>>

PmicNext ==
    \/ \E c \in Calls : StartCall(c)
    \/ \E which \in {"mpp", "wled"} : ConfigSlave(which, 3)
    \/ ReadStep \/ SaveStep \/ WriteStep \/ StallStep \/ TestStep \/ PollStep \/ SampleStep
    \/ CommandFails
    \/ FinishCall
PmicSpec == PmicInit /\ [][PmicNext]_pmicVars

----------------------------------------------------------------------------
Pins == {"gpio3", "gpio4"}

(* What must hold when v is written to r. *)
SafeWrite(r, v) ==
    /\ (r.block \in Pins /\ r.off # "en" /\ v \ {"high"} # pmic[r] \ {"high"}) => "en" \notin pmic[Reg(r.sid, r.block, "en")]
    /\ (r \in {S2("s2_ctl"), S2("ps_hold_ctl")} /\ v # {}) => pins.disabled >= 300
    /\ r \in {Chgr("comp_ovr0"), Chgr("trkl_chg_test")} => pins.last = Chgr("sec_access")
    /\ r.block = "gpio4" => pins.hub >= 200000
    /\ r.block = "usb" => /\ pmic[Gcc("usb_hs_bcr")] = {} /\ pmic[Gcc("usb2a_phy_bcr")] = {}
                          /\ pmic[Gcc("usb_iface_clk")] = {"en"} /\ pmic[Gcc("usb_core_clk")] = {"en"}

(* While no command of a call has failed: a pin is configured only while    *)
(* it is disabled, a type of reset is chosen only 300 us after the reset    *)
(* was disabled, a secured register is written only right after the unlock, *)
(* the USB switch is touched only 200 ms after the hub left reset, and the  *)
(* controller only with its clocks on and its block resets released         *)
(* (pm8x41.c, Msm8916UsbDxe.c: comments at the steps).                      *)
SafeStep == Writes /\ ~prog.failed /\ prog'.at # prog.at => SafeWrite(Stmt.reg, ValueWritten)
OnlyWhenSafe == [][SafeStep]_pmicVars

Ended == ~prog.busy /\ prog.call # NoCall /\ ~prog.failed
Changed == {r \in Registers : pmic[r] # pins.start[r]}
Touched(op) == {Text[i].reg : i \in {i \in 1..Len(Text) : Text[i].op = op}}
OnlyModified == Touched("modify") \ Touched("write")

(* What a call without a failed command leaves behind: the test of the      *)
(* battery restores the charger's current and threshold; a function that    *)
(* reads a register to change it keeps the other bits; power is dropped     *)
(* only with the reset armed for the type asked for (pm8x41.c,              *)
(* ResetSystemLib.c).                                                       *)
CallLeaves ==
    Ended =>
        /\ prog.call[1] = "battery" =>
              /\ Changed \subseteq {Chgr("sec_access"), Chgr("comp_ovr0"), Chgr("trkl_chg_test"), Reg(0, "bat_if", "vcp")}
              /\ pmic[Chgr("trkl_chg_test")] = {} /\ pmic[Reg(0, "bat_if", "vcp")] = {"en"}
        /\ prog.call[1] = "pmi8994_battery" =>
              /\ Changed \subseteq {Pmi("trim"), Pmi("cfg2"), Pmi("fv")}
              /\ "poller" \in pmic[Pmi("trim")] /\ "term" \in pmic[Pmi("cfg2")]
        /\ \A r \in OnlyModified : ("other" \in pins.start[r] => "other" \in pmic[r])
        /\ prog.call[1] \in {"reboot", "shutdown"} =>
              /\ pmic[S2("ps_hold_ctl")] = {IF prog.call[1] = "reboot" THEN "hard" ELSE "shutdown"}
              /\ pmic[S2("ps_hold_ctl2")] = {"en"} /\ pmic[Reg(-1, "mpm", "ps_hold")] = {}

(* A conversion that reads as a reference does is reported as that          *)
(* reference's voltage, off by no more than the division truncates; the     *)
(* division is undefined exactly when both references read the same         *)
(* (vadc_calibrate).                                                        *)
ReferencesReadTrue ==
    (Ended /\ prog.call[1] = "adc" /\ Len(prog.raw) = 3) =>
        LET got == VadcCalibrate(prog.call[2], prog.raw)
            spread == prog.raw[2] - prog.raw[3]
            scale == IF prog.call[2] = "abs" THEN 3 ELSE 1
            low == IF prog.call[2] = "abs" THEN 1875000 ELSE 0
            high == IF prog.call[2] = "abs" THEN 3750000 ELSE 1800000
        IN /\ (got = DivisionByZero) = (spread = 0)
           /\ \A i \in 1..3 : prog.raw[i] \in AdcMin..AdcMax
           /\ (spread > 0 /\ prog.raw[1] = prog.raw[3]) => got = low
           /\ (spread > 0 /\ prog.raw[1] = prog.raw[2]) => high - got \in 0..(scale * spread)
=============================================================================
