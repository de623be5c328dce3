------------------------------ MODULE ClockTree ------------------------------
(***************************************************************************)
(* The clocks of ClockDxe: the counted calls of clock.c, the register      *)
(* operations of clock_lib2.c and clock_pll.c and the tables of            *)
(* msm8909-clock.c.  A client asks for a clock by name; several names may  *)
(* lead to one clock, and every clock counts its users.  No operations     *)
(* table of this platform has get_parent, so enabling a clock enables no   *)
(* other; the source of a root clock is enabled when a rate is chosen.     *)
(*                                                                         *)
(* The waits of the driver for a status bit have no limit and end when the *)
(* hardware follows, so a call is one step.                                *)
(***************************************************************************)
EXTENDS Integers, Sequences

CONSTANTS ClockClients,     \* the names clients use
          ClockCalls        \* bound on the calls of a behaviour

VARIABLES clk,       \* struct clk's count, the enable bits, the root clocks' configuration and current_freq
          users      \* what the clients did: enables they still hold, calls left, last result

clkVars == <<clk, users>>

(* F(freq, src, div, m, n): the divider is kept in halves.                 *)
F(freq, src, half, m, n) == [freq |-> freq, src |-> src, half |-> half, m |-> m, n |-> n]

SdccTable ==
    {F(144000, "cxo", 32, 3, 25), F(400000, "cxo", 24, 1, 4), F(20000000, "gpll0", 20, 1, 4),
     F(25000000, "gpll0", 32, 1, 2), F(50000000, "gpll0", 32, 0, 0), F(100000000, "gpll0", 16, 0, 0),
     F(177770000, "gpll0", 9, 0, 0), F(200000000, "gpll0", 8, 0, 0)}

(* The entry for 19.2 MHz named gpll0 once: the comment in the table.      *)
OldSourceMutant == F(19200000, "gpll0", 2, 0, 0)
CrystalRate == F(19200000, "cxo", 2, 0, 0)
I2cTable ==
    {F(96000, "cxo", 20, 1, 2), F(4800000, "cxo", 8, 0, 0), F(9600000, "cxo", 4, 0, 0),
     F(16000000, "gpll0", 20, 1, 5), CrystalRate, F(25000000, "gpll0", 32, 1, 2),
     F(50000000, "gpll0", 32, 0, 0)}

UartTable ==
    {F(3686400, "gpll0", 2, 72, 15625), F(7372800, "gpll0", 2, 144, 15625), F(14745600, "gpll0", 2, 288, 15625),
     F(16000000, "gpll0", 20, 1, 5), F(19200000, "cxo", 2, 0, 0), F(24000000, "gpll0", 2, 3, 100),
     F(25000000, "gpll0", 32, 1, 2), F(32000000, "gpll0", 2, 1, 25), F(40000000, "gpll0", 2, 1, 20),
     F(46400000, "gpll0", 2, 29, 500), F(48000000, "gpll0", 2, 3, 50), F(51200000, "gpll0", 2, 8, 125),
     F(56000000, "gpll0", 2, 7, 100), F(58982400, "gpll0", 2, 1152, 15625), F(60000000, "gpll0", 2, 3, 40)}

UsbTable == {F(80000000, "gpll0", 20, 0, 0)}
EscTable == {F(19200000, "cxo", 2, 0, 0)}
VsyncTable == {F(19200000, "cxo", 2, 0, 0)}
MdpTable ==
    {F(80000000, "gpll0", 20, 0, 0), F(100000000, "gpll0", 16, 0, 0), F(200000000, "gpll0", 8, 0, 0),
     F(320000000, "gpll0", 5, 0, 0)}
Ce1Table == {F(160000000, "gpll0", 10, 0, 0)}

Rates(table) == {f.freq : f \in table}
EntryFor(table, rate) == CHOOSE f \in table : f.freq = rate

(* What follows is given as lists of names and what they stand for.        *)
AsFunction(pairs) == [name \in {p[1] : p \in pairs} |-> (CHOOSE p \in pairs : p[1] = name)[2]]

(* The root clocks: their table, and how set_rate programs them.  Those of *)
(* the display's escape and vsync clocks start without a current_freq, the *)
(* others with an entry that is in no table; a rate differs from both.     *)
Rcg(table, how) == [table |-> table, set_rate |-> how]
SdccRcgs == {"sdcc1_apps_clk_src", "sdcc2_apps_clk_src"} \X {Rcg(SdccTable, "mnd")}
UartRcgs == {"blsp1_uart1_apps_clk_src", "blsp1_uart2_apps_clk_src"} \X {Rcg(UartTable, "mnd")}
UsbRcgs == {<<"usb_hs_system_clk_src", Rcg(UsbTable, "hid")>>}
MdssRcgs == {<<"dsi_esc0_clk_src", Rcg(EscTable, "hid")>>, <<"dsi_esc1_clk_src", Rcg(EscTable, "hid")>>,
             <<"vsync_clk_src", Rcg(VsyncTable, "hid")>>}
MdpRcgs == {<<"mdss_mdp_clk_src", Rcg(MdpTable, "hid")>>}
Ce1Rcgs == {<<"ce1_clk_src", Rcg(Ce1Table, "hid")>>}
QupRoots == {"gcc_blsp1_qup1_i2c_apps_clk_src", "gcc_blsp1_qup2_i2c_apps_clk_src", "gcc_blsp1_qup3_i2c_apps_clk_src",
             "gcc_blsp1_qup4_i2c_apps_clk_src", "gcc_blsp1_qup5_i2c_apps_clk_src", "gcc_blsp1_qup6_i2c_apps_clk_src"}
QupRcgs == QupRoots \X {Rcg(I2cTable, "hid")}
Rcgs == AsFunction(SdccRcgs \cup UartRcgs \cup UsbRcgs \cup MdssRcgs \cup MdpRcgs \cup Ce1Rcgs \cup QupRcgs)

(* The branch clocks: the root each runs from, or that it has a sibling    *)
(* and so no rate of its own.                                              *)
Sibling == "sibling"
SdccBranches == {<<"gcc_sdcc1_apps_clk", "sdcc1_apps_clk_src">>, <<"gcc_sdcc1_ahb_clk", Sibling>>,
                 <<"gcc_sdcc2_apps_clk", "sdcc2_apps_clk_src">>, <<"gcc_sdcc2_ahb_clk", Sibling>>}
UartBranches == {<<"gcc_blsp1_uart1_apps_clk", "blsp1_uart1_apps_clk_src">>,
                 <<"gcc_blsp1_uart2_apps_clk", "blsp1_uart2_apps_clk_src">>}
UsbBranches == {<<"gcc_usb_hs_system_clk", "usb_hs_system_clk_src">>, <<"gcc_usb_hs_ahb_clk", Sibling>>}
MdssBranches == {<<"mdss_esc0_clk", "dsi_esc0_clk_src">>, <<"mdss_esc1_clk", "dsi_esc1_clk_src">>,
                 <<"mdss_axi_clk", Sibling>>, <<"mdp_ahb_clk", Sibling>>}
MdpBranches == {<<"mdss_mdp_clk", "mdss_mdp_clk_src">>, <<"mdss_vsync_clk", "vsync_clk_src">>}
QupBranches == {<<"gcc_blsp1_qup1_i2c_apps_clk", "gcc_blsp1_qup1_i2c_apps_clk_src">>,
                <<"gcc_blsp1_qup2_i2c_apps_clk", "gcc_blsp1_qup2_i2c_apps_clk_src">>,
                <<"gcc_blsp1_qup3_i2c_apps_clk", "gcc_blsp1_qup3_i2c_apps_clk_src">>,
                <<"gcc_blsp1_qup4_i2c_apps_clk", "gcc_blsp1_qup4_i2c_apps_clk_src">>,
                <<"gcc_blsp1_qup5_i2c_apps_clk", "gcc_blsp1_qup5_i2c_apps_clk_src">>,
                <<"gcc_blsp1_qup6_i2c_apps_clk", "gcc_blsp1_qup6_i2c_apps_clk_src">>}
Branches ==
    AsFunction(SdccBranches \cup UartBranches \cup UsbBranches \cup MdssBranches \cup MdpBranches \cup QupBranches)

BlspVotes == {"gcc_blsp1_ahb_clk"}
Ce1Votes == {"gcc_ce1_clk", "gcc_ce1_ahb_clk", "gcc_ce1_axi_clk"}
Votes == BlspVotes \cup Ce1Votes
SourceRate == [cxo |-> 19200000, gpll0 |-> 800000000]
Clks == DOMAIN Rcgs \cup DOMAIN Branches \cup Votes \cup DOMAIN SourceRate

(* msm_clocks_8916.  The AHB clock of the serial engines has a name for    *)
(* each of them.                                                           *)
LookupShared ==
    {"uart1_iface_clk", "uart2_iface_clk", "blsp1_qup1_ahb_iface_clk", "blsp1_qup2_ahb_iface_clk",
     "blsp1_qup3_ahb_iface_clk", "blsp1_qup4_ahb_iface_clk", "blsp1_qup5_ahb_iface_clk", "blsp1_qup6_ahb_iface_clk"}
      \X BlspVotes
LookupBus ==
    {<<"sdc1_iface_clk", "gcc_sdcc1_ahb_clk">>, <<"sdc1_core_clk", "gcc_sdcc1_apps_clk">>,
     <<"sdc2_iface_clk", "gcc_sdcc2_ahb_clk">>, <<"sdc2_core_clk", "gcc_sdcc2_apps_clk">>,
     <<"uart1_core_clk", "gcc_blsp1_uart1_apps_clk">>, <<"uart2_core_clk", "gcc_blsp1_uart2_apps_clk">>,
     <<"usb_iface_clk", "gcc_usb_hs_ahb_clk">>, <<"usb_core_clk", "gcc_usb_hs_system_clk">>}
LookupSame ==
    {<<n, n>> : n \in {"mdp_ahb_clk", "mdss_esc0_clk", "mdss_esc1_clk", "mdss_axi_clk", "mdss_vsync_clk",
                       "mdss_mdp_clk_src", "mdss_mdp_clk"} \cup QupRoots \cup {p[1] : p \in QupBranches}}
LookupCe1 == {<<"ce1_ahb_clk", "gcc_ce1_ahb_clk">>, <<"ce1_axi_clk", "gcc_ce1_axi_clk">>,
              <<"ce1_core_clk", "gcc_ce1_clk">>, <<"ce1_src_clk", "ce1_clk_src">>}
ClockNames == AsFunction(LookupShared \cup LookupBus \cup LookupSame \cup LookupCe1)

(* clk_get finds no other name.                                            *)
ASSUME ClockAssumption == ClockClients \subseteq DOMAIN ClockNames /\ ClockCalls \in Nat

----------------------------------------------------------------------------
NoFreq == 0
BootConfig == F(NoFreq, "boot", 1, 0, 0)

ClockInit ==
    /\ clk = [count |-> [c \in Clks |-> 0], on |-> {}, cfg |-> [r \in DOMAIN Rcgs |-> BootConfig],
              current |-> [r \in DOMAIN Rcgs |-> NoFreq]]
    /\ users = [held |-> [n \in ClockClients |-> 0], left |-> ClockCalls, ret |-> "ok"]

(* clk_enable and clk_disable: the hardware is touched for the first user  *)
(* and after the last one.  Enabling a root clock and the crystal do       *)
(* nothing; root clocks cannot be disabled.                                *)
HasEnable(c) == c \in DOMAIN Branches \cup Votes \cup {"gpll0"}
EnableClk(k, c) ==
    [k EXCEPT !.count[c] = @ + 1, !.on = IF k.count[c] = 0 /\ HasEnable(c) THEN @ \cup {c} ELSE @]
EveryUserMutant(k, c) == TRUE
LastUser(k, c) == k.count[c] = 1
DisableClk(k, c) ==
    IF k.count[c] = 0 THEN k
    ELSE [k EXCEPT !.count[c] = @ - 1, !.on = IF LastUser(k, c) /\ HasEnable(c) THEN @ \ {c} ELSE @]

(* set_rate_hid leaves M, N and the mode alone: they are not dividing.     *)
Programmed(r, f) == IF Rcgs[r].set_rate = "mnd" THEN f ELSE [f EXCEPT !.m = 0, !.n = 0]

(* clock_lib2_rcg_set_rate: the new source is enabled, the root clock      *)
(* programmed; the old source keeps its user.                              *)
NoSourceMutant(k, f) == k
EnableSource(k, f) == EnableClk(k, f.src)
RcgSetRate(k, r, rate) ==
    IF rate = k.current[r] THEN k
    ELSE LET f == EntryFor(Rcgs[r].table, rate)
         IN [EnableSource(k, f) EXCEPT !.cfg[r] = Programmed(r, f), !.current[r] = rate]

(* clk_set_rate: of a root clock, or of a branch by way of its parent.     *)
RootOf(c) == IF c \in DOMAIN Rcgs THEN c ELSE IF c \in DOMAIN Branches THEN Branches[c] ELSE Sibling
CanSetRate(c, rate) == RootOf(c) # Sibling /\ rate \in Rates(Rcgs[RootOf(c)].table)

Called(n, ret, held) == [users EXCEPT !.left = @ - 1, !.ret = ret, !.held[n] = held]
MayCall == users.left > 0

ClkEnable(n) ==
    /\ MayCall
    /\ clk' = EnableClk(clk, ClockNames[n])
    /\ users' = Called(n, "ok", users.held[n] + 1)

ClkDisable(n) ==
    /\ MayCall
    /\ users.held[n] > 0 \/ clk.count[ClockNames[n]] = 0
    /\ clk' = DisableClk(clk, ClockNames[n])
    /\ users' = Called(n, "ok", IF users.held[n] > 0 THEN users.held[n] - 1 ELSE 0)

(* The rates the tables know, and one that none knows.                     *)
RatesTried(n) ==
    {123} \cup (IF RootOf(ClockNames[n]) = Sibling THEN {} ELSE Rates(Rcgs[RootOf(ClockNames[n])].table))

ClkSetRate(n, rate) ==
    /\ MayCall
    /\ IF CanSetRate(ClockNames[n], rate)
       THEN clk' = RcgSetRate(clk, RootOf(ClockNames[n]), rate) /\ users' = Called(n, "ok", users.held[n])
       ELSE users' = Called(n, "error", users.held[n]) /\ UNCHANGED clk

(* clk_get_set_enable with a rate: enabled only if the rate could be set.  *)
ClkGetSetEnable(n, rate) ==
    /\ MayCall
    /\ IF CanSetRate(ClockNames[n], rate)
       THEN /\ clk' = EnableClk(RcgSetRate(clk, RootOf(ClockNames[n]), rate), ClockNames[n])
            /\ users' = Called(n, "ok", users.held[n] + 1)
       ELSE users' = Called(n, "error", users.held[n]) /\ UNCHANGED clk

ClockNext ==
    \E n \in ClockClients :
        \/ ClkEnable(n)
        \/ ClkDisable(n)
        \/ \E rate \in RatesTried(n) : ClkSetRate(n, rate) \/ ClkGetSetEnable(n, rate)
ClockSpec == ClockInit /\ [][ClockNext]_clkVars

----------------------------------------------------------------------------
(* What a configuration makes of its source: 2 * src / half * m / n.       *)
Output(f) == LET root == (2 * SourceRate[f.src]) \div f.half IN IF f.n = 0 THEN root ELSE (root \div f.n) * f.m

(* The entries whose M and N a set_rate_hid clock does not program: they   *)
(* are wrong for the serial engines' clocks (msm8909-clock.c:146, 149,     *)
(* 153; clock_lib2.c:185-196).                                             *)
UnusableByHid == {96000, 16000000, 25000000}

(* A root clock that was given a rate has it: the dividers and the source  *)
(* that set_rate programmed make that frequency, to within 0.01 percent,   *)
(* for every entry of every table but the unusable ones.                   *)
RateDelivered ==
    \A r \in DOMAIN Rcgs :
        LET rate == clk.current[r]
            off == Output(clk.cfg[r]) - rate
        IN (rate # NoFreq /\ ~(r \in QupRoots /\ rate \in UnusableByHid))
             => off \in (-(rate \div 10000))..(rate \div 10000)

(* While a client holds a clock it runs, whatever the others that share it *)
(* did with it under their own names; and a root clock that was given a    *)
(* rate has a running source (clk_enable, clk_disable,                     *)
(* clock_lib2_rcg_set_rate).                                               *)
HeldClocksRun ==
    /\ \A n \in ClockClients : (users.held[n] > 0 /\ HasEnable(ClockNames[n])) => ClockNames[n] \in clk.on
    /\ \A r \in DOMAIN Rcgs : clk.cfg[r].src = "gpll0" => "gpll0" \in clk.on
=============================================================================
