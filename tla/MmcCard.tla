------------------------------- MODULE MmcCard -------------------------------
(***************************************************************************)
(* mmc_init: how a slot's host controller is powered and clocked, and how  *)
(* the card in it is identified and brought to its fastest bus mode        *)
(* (mmc_sdhci.c 69-1709, sdhci.c 145-313 and 890-969, sdhci_msm.c 72-262,  *)
(* MMCHS.c 3-42).                                                          *)
(*                                                                         *)
(* The driver is one thread that mostly sends a command and gives up at    *)
(* the first failure, so what it has still to do is kept as a sequence of  *)
(* steps, todo; a function of the source that only sends commands and      *)
(* writes registers in a fixed order is the sequence of its steps.  Beside *)
(* it run the handler of the power interrupt and the card, to which        *)
(* commands and whose responses may be lost.                               *)
(***************************************************************************)
EXTENDS Integers, Sequences

CONSTANTS
  BaseRate,     \* caps.base_clk_rate, in kHz like all rates here
  MaxDiv,       \* SDHCI_CLK_MAX_DIV, 2046
  MaxOpCond,    \* MMC_MAX_COMMAND_RETRY, 1000
  MaxIfCond,    \* SD_CMD8_MAX_RETRY, 3
  MaxAcmd41     \* SD_ACMD41_MAX_RETRY, 20

ASSUME CardAssumption ==
  /\ {BaseRate, MaxDiv, MaxOpCond, MaxIfCond, MaxAcmd41} \subseteq Nat \ {0}
  /\ MaxDiv > 2

VARIABLES
  setting,      \* the slot, the controller's capabilities, the card, the clock table
  todo,         \* what is left of mmc_init
  outcome,      \* "running", or how mmc_init and its caller ended
  retries,        \* the counter of the loop under way
  mmc_ret,          \* mmc_ret of mmc_set_hs200_mode: tuning failed
  type,         \* card->type
  host,         \* the controller's registers and sdhci_host
  power,        \* the power interrupt, its handler and sdhc_event
  card

vars == <<setting, todo, outcome, retries, mmc_ret, type, host, power, card>>

Slots == [width : {1, 4, 8}, hs200 : BOOLEAN, hs400 : BOOLEAN]
Capabilities == [bit8 : BOOLEAN, sdr104 : BOOLEAN, ddr : BOOLEAN]
Cards ==
  [kind : {"none"}, hs : {FALSE}, hs200 : {FALSE}, hs400 : {FALSE}, ddr : {FALSE}, bit4 : {FALSE}]
    \cup [kind : {"sd"}, hs : BOOLEAN, hs200 : {FALSE}, hs400 : {FALSE}, ddr : {FALSE}, bit4 : BOOLEAN]
    \cup [kind : {"mmc"}, hs : {TRUE}, hs200 : BOOLEAN, hs400 : BOOLEAN, ddr : BOOLEAN, bit4 : {TRUE}]
Settings == [slot : Slots, caps : Capabilities, can : Cards, clock400 : BOOLEAN]

can == setting.can
Sdr(w) == [width |-> w, ddr |-> FALSE]
Ddr(w) == [width |-> w, ddr |-> TRUE]

-----------------------------------------------------------------------------
(* The steps, and the functions that are sequences of them.                *)

Do(s) == [do |-> s]
SwitchTiming(t) == [do |-> "switch_timing", timing |-> t]
SwitchBus(b) == [do |-> "switch_bus", bus |-> b]
Uhs(m) == [do |-> "uhs", mode |-> m]
SaveTiming(t) == [do |-> "save_timing", timing |-> t]
ClockConfig(r) == [do |-> "clock_config", rate |-> r]
HostWidth(w) == [do |-> "host_width", width |-> w]

\* mmc_host_init: sdhci_msm_init resets the controller, acknowledges what the reset
\* raised and lets the power interrupt in; sdhci_init switches the bus power on.
mmc_host_init == <<Do("reset"), Do("clear_power"), Do("unmask"), Do("bus_power"), Do("wait_power")>>

mmc_sd_card_init == <<Do("CMD8"), Do("ACMD41")>>
mmc_identify_card == <<Do("CMD2"), Do("CMD3"), Do("CMD9"), Do("CMD7")>>

mmc_set_hs_interface == <<SwitchTiming("HS"), SaveTiming("SDR25"), Uhs("SDR25")>>
mmc_sd_set_hs == <<Do("SD_HS"), Uhs("SDR25")>>

HostDdrMutant == <<>>                          \* the controller left in SDR25
HostDdr == <<Uhs("DDR50")>>
mmc_set_ddr_mode == <<SwitchBus(Ddr(8)), SaveTiming("DDR50")>> \o HostDdr

Both400 == setting.slot.hs400 /\ can.hs400
SpeedUpMutant == <<SaveTiming("HS400"), ClockConfig(400000), Do("mci_clk")>>  \* divider after the clock
SpeedUp == <<SaveTiming("HS400"), Do("mci_clk"), ClockConfig(400000)>>

mmc_set_hs200_mode(w) ==
  <<SwitchBus(Sdr(w)), SwitchTiming("HS200"), Uhs("SDR104")>>
    \o (IF Both400
        THEN SpeedUp \o <<Do("tune"), SaveTiming("HS200"), Do("mci_clk"), ClockConfig(192000)>>
        ELSE <<Do("tune"), SaveTiming("HS200")>>)
    \o <<Do("check_ret")>>

mmc_set_hs400_mode ==
  mmc_set_hs200_mode(8)
    \o <<SaveTiming("SDR12"), Uhs("SDR12")>> \o mmc_set_hs_interface \o mmc_set_ddr_mode
    \o <<SwitchTiming("HS400"), SaveTiming("HS400"), Uhs("SDR104"), Do("mci_clk"),
         ClockConfig(400000), Do("tune"), Do("check_ret")>>

-----------------------------------------------------------------------------
(* Clocks.                                                                 *)

Clocks == {400, 25000, 50000, 100000, 200000}
EvenDivisors == {2 * d : d \in 1..(MaxDiv \div 2)}

\* sdhci_clk_supply: the least even divisor that brings the base rate down to clk.
Divisor ==
  [clk \in Clocks |->
     IF clk >= BaseRate THEN 1
     ELSE CHOOSE d \in EvenDivisors :
            /\ BaseRate \div d <= clk \/ d = 2 * (MaxDiv \div 2)
            /\ \A e \in EvenDivisors : BaseRate \div e <= clk => d <= e]

ModeClock ==
  [SDR104 |-> 200000, SDR50 |-> 100000, DDR50 |-> 50000, SDR25 |-> 50000, SDR12 |-> 25000]

\* LibQcomPlatformMmcTranslateClockRate
Translated(r) == CASE r = 400000 -> 384000 [] r = 192000 -> 200000 [] OTHER -> r

\* What reaches the card; nothing before sdhci_clk_supply has enabled the clock.
CardClock ==
  IF host.div = 0 THEN 0 ELSE (host.core \div (IF host.half THEN 2 ELSE 1)) \div host.div
HostBus == [width |-> host.width, ddr |-> host.uhs = "DDR50" \/ host.hs400]

-----------------------------------------------------------------------------
(* How steps end.                                                          *)

Running(s) == outcome = "running" /\ todo # <<>> /\ Head(todo).do = s
Go == todo' = Tail(todo) /\ UNCHANGED <<outcome, retries>>
GoOn(steps) == todo' = steps /\ retries' = 0 /\ UNCHANGED outcome
Stop(o) == todo' = <<>> /\ outcome' = o /\ UNCHANGED retries
Fail == Stop("failed")

\* sdhci_send_command to a card that takes it and becomes after: the command, the
\* card or the response can fail, before or after the card has taken it.
Answered(takes, after) == takes /\ card' = after
Unanswered(takes, after) == card' = card \/ (takes /\ card' = after)
Command(takes, after) == (Answered(takes, after) /\ Go) \/ (Unanswered(takes, after) /\ Fail)

InState(s) == can.kind # "none" /\ card.state = s

-----------------------------------------------------------------------------
(* mmc_host_init.                                                          *)

\* The reset stops the card's clock and may raise a power interrupt if the bus was
\* on before.
SdhciReset ==
  /\ Running("reset") /\ Go
  /\ host' = [host EXCEPT !.div = 0, !.uhs = "SDR12", !.width = 1]
  /\ \E i \in {"none", "stale"} : power' = [power EXCEPT !.irq = i]
  /\ UNCHANGED <<setting, mmc_ret, type, card>>

StaleMutant == power.irq                       \* pending interrupt not acknowledged
Stale == "none"

ClearPowerCtrlIrq ==
  /\ Running("clear_power") /\ Go
  /\ power' = [power EXCEPT !.irq = Stale]
  /\ UNCHANGED <<setting, mmc_ret, type, host, card>>

UnmaskInterrupt ==
  /\ Running("unmask") /\ Go
  /\ power' = [power EXCEPT !.unmasked = TRUE]
  /\ host' = [host EXCEPT !.tuning_done = FALSE, !.calibration_done = FALSE]
  /\ UNCHANGED <<setting, mmc_ret, type, card>>

SetBusPowerOn ==
  /\ Running("bus_power") /\ Go
  /\ power' = [power EXCEPT !.irq = "bus_on"]
  /\ UNCHANGED <<setting, mmc_ret, type, host, card>>

\* sdhci_int_handler acknowledges the request and signals sdhc_event.
SdhciIntHandler ==
  /\ power.unmasked /\ power.irq # "none"
  /\ power' = [power EXCEPT !.irq = "none", !.event = TRUE, !.on = @ \/ power.irq = "bus_on"]
  /\ UNCHANGED <<setting, todo, outcome, retries, mmc_ret, type, host, card>>

\* The bus starts with one bit and 400 kHz.
WaitForPower ==
  /\ Running("wait_power") /\ power.event /\ Go
  /\ power' = [power EXCEPT !.event = FALSE]
  /\ host' = [host EXCEPT !.width = 1, !.div = Divisor[400]]
  /\ UNCHANGED <<setting, mmc_ret, type, card>>

-----------------------------------------------------------------------------
(* mmc_card_init up to the card's selection.                               *)

Idle == [state |-> "idle", timing |-> "slow", bus |-> Sdr(1)]

\* CMD0 has no response: that no card took it goes unnoticed.
ResetCard ==
  /\ Running("CMD0")
  /\ \/ Unanswered(can.kind # "none", Idle) /\ Go
     \/ Unanswered(can.kind # "none", Idle) /\ GoOn(mmc_sd_card_init)
  /\ UNCHANGED <<setting, mmc_ret, type, host, power>>

RetryMutant(max) == retries' = (retries + 1) % 2     \* a counter too narrow for its bound
RetryLateMutant(max) == retries < max /\ retries' = retries + 1    \* one try too many
Retry(max) == retries + 1 < max /\ retries' = retries + 1
Again(max) == Retry(max) /\ UNCHANGED <<todo, outcome>>
Exhausted(max) == retries + 1 >= max

\* CMD1 until the card is no longer busy; whatever goes wrong, SD is tried.
SendOpCond ==
  LET takes == can.kind = "mmc" /\ InState("idle")
      ready == [card EXCEPT !.state = "ready"]
      SetInterface == mmc_set_hs_interface \o <<Do("EXT_CSD"), Do("set_mode")>>
  IN /\ Running("CMD1")
     /\ \/ Answered(takes, ready) /\ type' = "mmc" /\ GoOn(mmc_identify_card \o SetInterface)
        \/ Answered(takes, card) /\ Again(MaxOpCond) /\ UNCHANGED type
        \/ Answered(takes, card) /\ Exhausted(MaxOpCond) /\ GoOn(mmc_sd_card_init) /\ UNCHANGED type
        \/ Unanswered(takes, ready) /\ GoOn(mmc_sd_card_init) /\ UNCHANGED type
     /\ UNCHANGED <<setting, mmc_ret, host, power>>

\* CMD8 until the voltage is echoed.  An eMMC that has missed CMD0 and is selected
\* takes it for the request of its EXT_CSD and answers something else.
SendIfCond ==
  LET takes == InState("idle") /\ can.kind = "sd"
      misread == InState("tran") /\ can.kind = "mmc"
  IN /\ Running("CMD8")
     /\ \/ Answered(takes, card) /\ GoOn(Tail(todo))
        \/ Answered(takes \/ misread, card) /\ (Again(MaxIfCond) \/ (Exhausted(MaxIfCond) /\ Fail))
        \/ Unanswered(takes, card) /\ Fail
     /\ UNCHANGED <<setting, mmc_ret, type, host, power>>

\* CMD55 and ACMD41 until the card is ready.
SendAppOpCond ==
  LET takes == InState("idle") /\ can.kind = "sd"
      ready == [card EXCEPT !.state = "ready"]
      SetInterface == mmc_sd_set_hs \o <<Do("SCR"), Do("SSR"), Do("set_mode")>>
  IN /\ Running("ACMD41")
     /\ \/ Answered(takes, ready) /\ type' = "sd" /\ GoOn(mmc_identify_card \o SetInterface)
        \/ Answered(takes, card) /\ (Again(MaxAcmd41) \/ (Exhausted(MaxAcmd41) /\ Fail)) /\ UNCHANGED type
        \/ Unanswered(takes, ready) /\ Fail /\ UNCHANGED type
     /\ UNCHANGED <<setting, mmc_ret, host, power>>

Moves ==
  [CMD2 |-> <<"ready", "ident">>, CMD3 |-> <<"ident", "stby">>,
   CMD9 |-> <<"stby", "stby">>, CMD7 |-> <<"stby", "tran">>]

Identify ==
  \E c \in DOMAIN Moves :
    /\ Running(c)
    /\ Command(InState(Moves[c][1]), [card EXCEPT !.state = Moves[c][2]])
    /\ UNCHANGED <<setting, mmc_ret, type, host, power>>

-----------------------------------------------------------------------------
(* Interface, registers and bus mode.                                      *)

\* mmc_switch_cmd: CMD6, then CMD13.  A switch the card does not make fails, and so
\* does one whose status does not come back.
SwitchCmd(after) == Command(InState("tran"), after)

Switch ==
  /\ \/ Running("switch_timing") /\ SwitchCmd([card EXCEPT !.timing = Head(todo).timing])
     \/ Running("switch_bus") /\ SwitchCmd([card EXCEPT !.bus = Head(todo).bus])
     \/ Running("rst_n") /\ (SwitchCmd(card) \/ (Go /\ UNCHANGED card))  \* already enabled
  /\ UNCHANGED <<setting, mmc_ret, type, host, power>>

\* CMD6 of an SD card; whether it did switch is in the block it sends, which is
\* not looked at.
SdSetHs ==
  /\ Running("SD_HS")
  /\ Command(InState("tran"), IF can.hs THEN [card EXCEPT !.timing = "HS"] ELSE card)
  /\ UNCHANGED <<setting, mmc_ret, type, host, power>>

\* mmc_get_ext_csd, mmc_sd_get_card_scr, mmc_sd_get_card_ssr: a block is read.
DataSteps == {"EXT_CSD", "SCR", "SSR"}
ReadRegister ==
  /\ \E s \in DataSteps : Running(s)
  /\ Command(InState("tran"), card)
  /\ UNCHANGED <<setting, mmc_ret, type, host, power>>

BusWidth ==
  IF setting.slot.width = 8 /\ setting.caps.bit8 THEN 8
  ELSE IF setting.slot.width = 4 THEN 4 ELSE 1

SdBusWidth == IF can.bit4 THEN 4 ELSE 1

Finish == <<Do("rst_n"), Do("publish")>>

\* The fastest mode that host and card support.  An eMMC's width is set in the
\* controller first, an SD card's in the card.
SetMode ==
  /\ Running("set_mode")
  /\ IF type = "sd"
     THEN GoOn(<<Do("ACMD6"), HostWidth(SdBusWidth), Do("publish")>>)
     ELSE \/ Both400 /\ BusWidth # 8 /\ Fail
          \/ Both400 /\ BusWidth = 8 /\ GoOn(<<HostWidth(8)>> \o mmc_set_hs400_mode \o Finish)
          \/ /\ ~Both400
             /\ GoOn(<<HostWidth(BusWidth)>> \o
                     (IF setting.slot.hs200 /\ setting.caps.sdr104 /\ can.hs200
                      THEN mmc_set_hs200_mode(BusWidth)
                      ELSE IF setting.caps.ddr /\ can.ddr THEN mmc_set_ddr_mode
                      ELSE mmc_set_hs_interface \o <<SwitchBus(Sdr(BusWidth))>>)
                     \o Finish)
  /\ UNCHANGED <<setting, mmc_ret, type, host, power, card>>

\* CMD55 and ACMD6.
SdSetBusWidth ==
  /\ Running("ACMD6")
  /\ Command(InState("tran"), [card EXCEPT !.bus = Sdr(SdBusWidth)])
  /\ UNCHANGED <<setting, mmc_ret, type, host, power>>

\* sdhci_msm_set_mci_clk: for HS400 the clock is halved, and once tuned the vendor
\* register selects HS400; otherwise the mode of the host control register counts.
\* Nothing ends the halving.
MciClk ==
  IF host.timing = "HS400"
  THEN [host EXCEPT !.half = TRUE, !.hs400 = @ \/ (host.tuning_done /\ ~host.calibration_done)]
  ELSE [host EXCEPT !.hs400 = FALSE]

SetHost ==
  /\ \/ Running("host_width") /\ host' = [host EXCEPT !.width = Head(todo).width]
     \/ Running("uhs") /\ host' = [host EXCEPT !.uhs = Head(todo).mode,
                                               !.div = Divisor[ModeClock[Head(todo).mode]]]
     \/ Running("save_timing") /\ host' = [host EXCEPT !.timing = Head(todo).timing]
     \/ Running("mci_clk") /\ host' = MciClk
  /\ Go /\ UNCHANGED <<setting, mmc_ret, type, power, card>>

\* LibQcomPlatformMmcClockConfig: a rate that the platform's table does not have
\* ends in ASSERT(0).
ConfigureClock ==
  /\ Running("clock_config")
  /\ IF Head(todo).rate = 400000 /\ ~setting.clock400
     THEN Stop("halted") /\ UNCHANGED host
     ELSE Go /\ host' = [host EXCEPT !.core = Translated(Head(todo).rate)]
  /\ UNCHANGED <<setting, mmc_ret, type, power, card>>

\* sdhci_msm_execute_tuning (module MmcTuning): calibration if it is HS400's turn.
Tune ==
  /\ Running("tune") /\ Go
  /\ mmc_ret' \in BOOLEAN
  /\ host' = [host EXCEPT !.tuning_done = TRUE,
                !.calibration_done = @ \/ (host.tuning_done /\ host.timing = "HS400" /\ ~mmc_ret')]
  /\ UNCHANGED <<setting, type, power, card>>

GivesUpMutant == FALSE                         \* "Tuning for hs200 failed" only printed
GivesUp == mmc_ret

CheckRet ==
  /\ Running("check_ret")
  /\ IF GivesUp THEN Fail ELSE Go
  /\ UNCHANGED <<setting, mmc_ret, type, host, power, card>>

\* PlatformCallbackInitSlot: without memory for the instance the device is kept but
\* not published.
Publish ==
  /\ Running("publish") /\ (Stop("published") \/ Stop("unpublished"))
  /\ UNCHANGED <<setting, mmc_ret, type, host, power, card>>

-----------------------------------------------------------------------------
InitDriver ==
  /\ retries = 0 /\ mmc_ret = FALSE /\ type = "sd"
  /\ host = [core |-> 177770, div |-> 0, half |-> FALSE, width |-> 1, uhs |-> "SDR12", hs400 |-> FALSE,
             timing |-> "SDR12", tuning_done |-> FALSE, calibration_done |-> FALSE]
  /\ power = [irq |-> "none", unmasked |-> FALSE, event |-> FALSE, on |-> FALSE]
\* The boot loader before this program may have left the card selected, in its
\* high-speed mode on a wide bus.
Init ==
  /\ setting \in Settings /\ InitDriver
  /\ todo = mmc_host_init \o <<Do("CMD0"), Do("CMD1")>> /\ outcome = "running"
  /\ card \in {Idle} \cup (IF can.kind # "none" /\ can.hs /\ can.bit4
                           THEN {[state |-> "tran", timing |-> "HS", bus |-> Sdr(4)]} ELSE {})

Driver ==
  \/ SdhciReset \/ ClearPowerCtrlIrq \/ UnmaskInterrupt \/ SetBusPowerOn \/ WaitForPower
  \/ ResetCard \/ SendOpCond \/ SendIfCond \/ SendAppOpCond \/ Identify
  \/ Switch \/ SdSetHs \/ ReadRegister \/ SetMode \/ SdSetBusWidth
  \/ SetHost \/ ConfigureClock \/ Tune \/ CheckRet \/ Publish

Next == Driver \/ SdhciIntHandler
Spec == Init /\ [][Next]_vars
FairSpec == Spec /\ WF_vars(Driver) /\ WF_vars(SdhciIntHandler)

-----------------------------------------------------------------------------
Timings == {"SDR12", "SDR25", "DDR50", "HS200", "HS400"}
Buses == [width : {1, 4, 8}, ddr : BOOLEAN]
MaxRetries == {MaxOpCond, MaxIfCond, MaxAcmd41}

TypeOK ==
  /\ setting \in Settings
  /\ outcome \in {"running", "failed", "halted", "published", "unpublished"}
  /\ outcome # "running" <=> todo = <<>>
  /\ \E max \in MaxRetries : retries \in 0..(max - 1)
  /\ mmc_ret \in BOOLEAN /\ type \in {"mmc", "sd"}
  /\ host \in [core : {177770, 200000, 384000}, div : 0..MaxDiv, half : BOOLEAN, width : {1, 4, 8},
               uhs : DOMAIN ModeClock, hs400 : BOOLEAN, timing : Timings,
               tuning_done : BOOLEAN, calibration_done : BOOLEAN]
  /\ power \in [irq : {"none", "stale", "bus_on"}, unmasked : BOOLEAN, event : BOOLEAN, on : BOOLEAN]
  /\ card \in [state : {"idle", "ready", "ident", "stby", "tran"},
               timing : {"slow", "HS", "HS200", "HS400"}, bus : Buses]

\* No card is clocked faster than its state and timing allow, at any point of a
\* change of mode: 400 kHz before it has an address, then 26, 52 and 200 MHz ("to ensure
\* card receives no more than 200 MHZ", mmc_sdhci.c:838).  An SD card that does not take
\* the high-speed switch is left out: that the switch failed is not noticed.
MaxClock ==
  IF card.state \in {"ready", "ident"} \/ Running("CMD1") \/ Running("CMD8") \/ Running("ACMD41") THEN 400
  ELSE CASE card.timing = "slow" -> 26000 [] card.timing = "HS" -> 52000 [] OTHER -> 200000
NeverTooFast == can.hs => CardClock <= MaxClock

\* Commands go out only once the power request has been acknowledged, and blocks
\* are moved only when host and card use the same bus.
Commands == DOMAIN Moves \cup DataSteps \cup
            {"CMD0", "CMD1", "CMD8", "ACMD41", "ACMD6", "SD_HS", "switch_timing", "switch_bus", "tune"}
Transfers == DataSteps \cup {"SD_HS", "tune"}
LinkReady ==
  /\ (\E c \in Commands : Running(c)) => power.on
  /\ (\E c \in Transfers : Running(c)) => InState("tran") /\ card.bus = HostBus

\* A device that is published has a selected card of the recorded type, reached over
\* the same bus from both sides.  Left out is the DDR mode with a host narrower than
\* 8 bits, which mmc_set_ddr_mode sets on the card whatever the host's width.
HostFitsCard ==
  outcome = "published" =>
    /\ InState("tran") /\ type = can.kind
    /\ ~(card.bus.ddr /\ host.width # 8) => card.bus = HostBus

\* "Emmc 5.0 spec does not allow changing to hs400 mode directly" (mmc_sdhci.c:946): the
\* card enters HS400 only from high speed with 8-bit DDR and after a tuning that
\* succeeded, HS200 only on an SDR bus, and DDR only from high speed.
LegalSwitch ==
  [][ /\ card'.timing = "HS400" /\ card.timing # "HS400"
           => card.timing = "HS" /\ card.bus = Ddr(8) /\ host.tuning_done /\ ~mmc_ret
      /\ card'.timing = "HS200" /\ card.timing # "HS200" => ~card.bus.ddr
      /\ card'.bus.ddr /\ ~card.bus.ddr => card.timing = "HS" ]_vars

\* Card, clock and bus fit each other during the bring-up and after it.
CardServed == TypeOK /\ NeverTooFast /\ LinkReady /\ HostFitsCard

\* mmc_init ends, with an eMMC that stays busy, an SD card that never gets ready or
\* no card at all.
InitEnds == <>(outcome # "running")
=============================================================================
