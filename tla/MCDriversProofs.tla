--------------------------- MODULE MCDriversProofs ---------------------------
(***************************************************************************)
(* The small drivers as MCDrivers puts them together: what DriverProofs    *)
(* shows for every size holds of the drivers that MCDrivers runs, whatever *)
(* the number of calls and of failures.  The clocks, which MCDrivers       *)
(* extends, are proved about here.                                         *)
(***************************************************************************)
EXTENDS MCDrivers, FiniteSetTheorems, TLAPS

\* No step changes which driver the behaviour is of.
LEMMA PartStays == ASSUME [Next]_vars PROVE part' = part
BY DEF Next, Keep3, Keep4, Keep5, vars

-----------------------------------------------------------------------------
(* The clocks: the tables.                                                  *)

Sources == {"cxo", "gpll0"}
RcgPairs == SdccRcgs \cup UartRcgs \cup UsbRcgs \cup MdssRcgs \cup MdpRcgs \cup Ce1Rcgs \cup QupRcgs
BranchPairs == SdccBranches \cup UartBranches \cup UsbBranches \cup MdssBranches \cup MdpBranches \cup QupBranches
NamePairs == LookupShared \cup LookupBus \cup LookupSame \cup LookupCe1

\* AsFunction maps a name to something its list has for it.
LEMMA AsFunctionMaps ==
  ASSUME NEW pairs, NEW name \in DOMAIN AsFunction(pairs)
  PROVE  \E p \in pairs : p[1] = name /\ AsFunction(pairs)[name] = p[2]
<1>1. PICK q \in pairs : q[1] = name
  BY DEF AsFunction
<1>. DEFINE e == CHOOSE p \in pairs : p[1] = name
<1>2. e \in pairs /\ e[1] = name
  BY <1>1
<1>3. AsFunction(pairs)[name] = e[2]
  BY DEF AsFunction
<1>. QED
  BY <1>2, <1>3

\* The names of AsFunction are those of its list.
LEMMA AsFunctionNames == ASSUME NEW pairs PROVE DOMAIN AsFunction(pairs) = {p[1] : p \in pairs}
BY DEF AsFunction

\* What a configuration makes is within 0.01 percent of the rate.
Close(f, rate) == Output(f) - rate \in (-(rate \div 10000))..(rate \div 10000)

\* An entry has a source that exists, and numbers.
Entry(f) == f = F(f.freq, f.src, f.half, f.m, f.n) /\ f.src \in Sources
            /\ f.freq \in Nat \ {0} /\ f.half \in Nat /\ f.m \in Nat /\ f.n \in Nat

\* The entries of the card's and the serial ports' clocks, programmed with M and N, make their
\* frequencies (ftbl_gcc_sdcc1_2_apps_clk, ftbl_gcc_blsp1_2_uart1_6_apps_clk).
LEMMA SdccEntries == \A f \in SdccTable : Entry(f) /\ Close(f, f.freq)
BY DEF SdccTable, Entry, F, Close, Output, SourceRate, Sources
LEMMA UartEntries == \A f \in UartTable : Entry(f) /\ Close(f, f.freq)
BY DEF UartTable, Entry, F, Close, Output, SourceRate, Sources

\* What set_rate_hid programs of an entry.
Hid(f) == [f EXCEPT !.m = 0, !.n = 0]

\* Those programmed without M and N do, but for three of the serial engines' table.
LEMMA HidEntries ==
  /\ \A f \in UsbTable \cup EscTable \cup VsyncTable \cup MdpTable \cup Ce1Table : Entry(f) /\ Close(Hid(f), f.freq)
  /\ \A f \in I2cTable : Entry(f) /\ (f.freq \notin UnusableByHid => Close(Hid(f), f.freq))
BY DEF UsbTable, EscTable, VsyncTable, MdpTable, Ce1Table, I2cTable, CrystalRate, UnusableByHid, Hid, Entry, F,
       Close, Output, SourceRate, Sources

\* Every root clock's table has entries that it can be programmed with, and that make their
\* frequencies, unless the clock is a serial engine's and the frequency one of three.
LEMMA RootTables ==
  \A p \in RcgPairs : \A f \in p[2].table :
    /\ Entry(f) /\ p[2].set_rate \in {"mnd", "hid"}
    /\ ~(p[1] \in QupRoots /\ f.freq \in UnusableByHid) =>
         Close(IF p[2].set_rate = "mnd" THEN f ELSE Hid(f), f.freq)
<1>. SUFFICES ASSUME NEW p \in RcgPairs, NEW f \in p[2].table
     PROVE  /\ Entry(f) /\ p[2].set_rate \in {"mnd", "hid"}
            /\ ~(p[1] \in QupRoots /\ f.freq \in UnusableByHid) =>
                 Close(IF p[2].set_rate = "mnd" THEN f ELSE Hid(f), f.freq)
  OBVIOUS
<1>1. CASE p \in SdccRcgs
  <2>1. p[2] = Rcg(SdccTable, "mnd")
    BY <1>1 DEF SdccRcgs
  <2>. QED
    BY <2>1, SdccEntries DEF Rcg
<1>2. CASE p \in UartRcgs
  <2>1. p[2] = Rcg(UartTable, "mnd")
    BY <1>2 DEF UartRcgs
  <2>. QED
    BY <2>1, UartEntries DEF Rcg
<1>3. CASE p \in UsbRcgs \cup MdssRcgs \cup MdpRcgs \cup Ce1Rcgs
  <2>1. \E table \in {UsbTable, EscTable, VsyncTable, MdpTable, Ce1Table} : p[2] = Rcg(table, "hid")
    BY <1>3 DEF UsbRcgs, MdssRcgs, MdpRcgs, Ce1Rcgs
  <2>. QED
    BY <2>1, HidEntries DEF Rcg
<1>4. CASE p \in QupRcgs
  <2>1. p[2] = Rcg(I2cTable, "hid") /\ p[1] \in QupRoots
    BY <1>4 DEF QupRcgs
  <2>. QED
    BY <2>1, HidEntries DEF Rcg
<1>. QED
  BY <1>1, <1>2, <1>3, <1>4 DEF RcgPairs

\* The names of a product are its first set.
LEMMA ProductNames == ASSUME NEW S, NEW x PROVE {q[1] : q \in S \X {x}} = S
<1>1. ASSUME NEW y \in S PROVE y \in {q[1] : q \in S \X {x}}
  <2>1. <<y, x>> \in S \X {x} /\ <<y, x>>[1] = y
    OBVIOUS
  <2>. QED
    BY <2>1, Zenon
<1>. QED
  BY <1>1

\* The root clocks by name.
LEMMA RootNames ==
  /\ {q[1] : q \in SdccRcgs} = {"sdcc1_apps_clk_src", "sdcc2_apps_clk_src"}
  /\ {q[1] : q \in UartRcgs} = {"blsp1_uart1_apps_clk_src", "blsp1_uart2_apps_clk_src"}
  /\ {q[1] : q \in UsbRcgs} = {"usb_hs_system_clk_src"}
  /\ {q[1] : q \in MdssRcgs} = {"dsi_esc0_clk_src", "dsi_esc1_clk_src", "vsync_clk_src"}
  /\ {q[1] : q \in MdpRcgs} = {"mdss_mdp_clk_src"}
  /\ {q[1] : q \in Ce1Rcgs} = {"ce1_clk_src"}
  /\ {q[1] : q \in QupRcgs} = QupRoots
<1>1. {q[1] : q \in SdccRcgs} = {"sdcc1_apps_clk_src", "sdcc2_apps_clk_src"}
  BY ProductNames DEF SdccRcgs
<1>2. {q[1] : q \in UartRcgs} = {"blsp1_uart1_apps_clk_src", "blsp1_uart2_apps_clk_src"}
  BY ProductNames DEF UartRcgs
<1>3. {q[1] : q \in UsbRcgs} = {"usb_hs_system_clk_src"}
  BY DEF UsbRcgs
<1>4. {q[1] : q \in MdssRcgs} = {"dsi_esc0_clk_src", "dsi_esc1_clk_src", "vsync_clk_src"}
  BY DEF MdssRcgs
<1>5. {q[1] : q \in MdpRcgs} = {"mdss_mdp_clk_src"}
  BY DEF MdpRcgs
<1>6. {q[1] : q \in Ce1Rcgs} = {"ce1_clk_src"}
  BY DEF Ce1Rcgs
<1>7. {q[1] : q \in QupRcgs} = QupRoots
  BY ProductNames DEF QupRcgs
<1>. QED
  BY <1>1, <1>2, <1>3, <1>4, <1>5, <1>6, <1>7

\* The branches run from root clocks, or from none.
LEMMA BranchRoots == \A p \in BranchPairs : p[2] = Sibling \/ p[2] \in DOMAIN Rcgs
<1>1. DOMAIN Rcgs = {q[1] : q \in RcgPairs}
  BY AsFunctionNames DEF Rcgs, RcgPairs
<1>2. /\ {q[1] : q \in SdccRcgs} \subseteq DOMAIN Rcgs /\ {q[1] : q \in UartRcgs} \subseteq DOMAIN Rcgs
      /\ {q[1] : q \in UsbRcgs} \subseteq DOMAIN Rcgs /\ {q[1] : q \in MdssRcgs} \subseteq DOMAIN Rcgs
      /\ {q[1] : q \in MdpRcgs} \subseteq DOMAIN Rcgs /\ {q[1] : q \in QupRcgs} \subseteq DOMAIN Rcgs
  BY <1>1 DEF RcgPairs
<1>. DEFINE Named == {"sdcc1_apps_clk_src", "sdcc2_apps_clk_src", "blsp1_uart1_apps_clk_src",
                      "blsp1_uart2_apps_clk_src", "usb_hs_system_clk_src", "dsi_esc0_clk_src", "dsi_esc1_clk_src", "vsync_clk_src",
                      "mdss_mdp_clk_src"} \cup QupRoots
<1>3. Named \subseteq DOMAIN Rcgs
  BY <1>2, RootNames
<1>4. SUFFICES ASSUME NEW p \in BranchPairs PROVE p[2] = Sibling \/ p[2] \in Named
  BY <1>3
<1>5. CASE p \in SdccBranches \cup UartBranches \cup UsbBranches
  BY <1>5 DEF SdccBranches, UartBranches, UsbBranches
<1>6. CASE p \in MdssBranches \cup MdpBranches
  BY <1>6 DEF MdssBranches, MdpBranches
<1>7. CASE p \in QupBranches
  BY <1>7 DEF QupBranches, QupRoots
<1>. QED
  BY <1>4, <1>5, <1>6, <1>7 DEF BranchPairs

\* The names of the clients lead to clocks, but to no source of the root clocks.
LEMMA NamesLead == \A p \in NamePairs : p[2] \in Clks \ Sources
<1>. SUFFICES ASSUME NEW p \in NamePairs PROVE p[2] \in Clks \ Sources
  OBVIOUS
<1>1. DOMAIN Rcgs = {q[1] : q \in RcgPairs} /\ DOMAIN Branches = {q[1] : q \in BranchPairs}
  BY AsFunctionNames DEF Rcgs, RcgPairs, Branches, BranchPairs
<1>2. CASE p \in LookupShared
  BY <1>2 DEF LookupShared, BlspVotes, Votes, Clks, Sources
<1>3. CASE p \in LookupBus
  <2>1. p[2] \in {q[1] : q \in SdccBranches \cup UartBranches \cup UsbBranches}
    BY <1>3 DEF LookupBus, SdccBranches, UartBranches, UsbBranches
  <2>2. p[2] \notin Sources
    BY <1>3 DEF LookupBus, Sources
  <2>. QED
    BY <2>1, <2>2, <1>1 DEF BranchPairs, Clks
<1>4. CASE p \in LookupSame
  <2>1. p[2] \in {q[1] : q \in MdssBranches} \cup {q[1] : q \in MdpBranches} \cup {q[1] : q \in QupBranches}
                \cup {"mdss_mdp_clk_src"} \cup QupRoots
    <3>1. {q[1] : q \in MdssBranches} = {"mdss_esc0_clk", "mdss_esc1_clk", "mdss_axi_clk", "mdp_ahb_clk"}
      BY DEF MdssBranches
    <3>2. {q[1] : q \in MdpBranches} = {"mdss_mdp_clk", "mdss_vsync_clk"}
      BY DEF MdpBranches
    <3>. QED
      BY <1>4, <3>1, <3>2 DEF LookupSame
  <2>2. p[2] \notin Sources
    BY <1>4 DEF LookupSame, QupRoots, QupBranches, Sources
  <2>. QED
    BY <2>1, <2>2, <1>1, RootNames DEF BranchPairs, RcgPairs, Clks
<1>5. CASE p \in LookupCe1
  <2>1. p[2] \in Ce1Votes \cup {q[1] : q \in Ce1Rcgs}
    BY <1>5 DEF LookupCe1, Ce1Votes, Ce1Rcgs
  <2>2. p[2] \notin Sources
    BY <1>5 DEF LookupCe1, Sources
  <2>. QED
    BY <2>1, <2>2, <1>1 DEF RcgPairs, Votes, Clks
<1>. QED
  BY <1>2, <1>3, <1>4, <1>5 DEF NamePairs

\* Where a client's name leads to, and the root clock whose rate is set for it.
LEMMA ClientsClock ==
  ASSUME NEW n \in ClockClients
  PROVE  /\ ClockNames[n] \in Clks \ Sources
         /\ RootOf(ClockNames[n]) # Sibling => RootOf(ClockNames[n]) \in DOMAIN Rcgs
<1>1. n \in DOMAIN ClockNames
  BY ClockAssumption
<1>2. PICK p \in NamePairs : p[1] = n /\ ClockNames[n] = p[2]
  BY <1>1, AsFunctionMaps DEF ClockNames, NamePairs
<1>3. ASSUME NEW c \in DOMAIN Branches PROVE Branches[c] = Sibling \/ Branches[c] \in DOMAIN Rcgs
  BY AsFunctionMaps, BranchRoots DEF Branches, BranchPairs
<1>. QED
  BY <1>2, <1>3, NamesLead DEF RootOf

\* The entry for a rate the table has.
LEMMA EntryFound ==
  ASSUME NEW table, NEW rate \in Rates(table)
  PROVE  EntryFor(table, rate) \in table /\ EntryFor(table, rate).freq = rate
BY DEF Rates, EntryFor

\* A root clock programmed with an entry of its table makes the entry's frequency.
LEMMA ProgrammedClose ==
  ASSUME NEW r \in DOMAIN Rcgs, NEW f \in Rcgs[r].table
  PROVE  /\ Entry(f) /\ Programmed(r, f).src = f.src
         /\ ~(r \in QupRoots /\ f.freq \in UnusableByHid) => Close(Programmed(r, f), f.freq)
<1>1. PICK p \in RcgPairs : p[1] = r /\ Rcgs[r] = p[2]
  BY AsFunctionMaps DEF Rcgs, RcgPairs
<1>2. /\ Entry(f) /\ p[2].set_rate \in {"mnd", "hid"}
      /\ ~(p[1] \in QupRoots /\ f.freq \in UnusableByHid) =>
           Close(IF p[2].set_rate = "mnd" THEN f ELSE Hid(f), f.freq)
  BY <1>1, RootTables
<1>3. Programmed(r, f) = IF p[2].set_rate = "mnd" THEN f ELSE Hid(f)
  BY <1>1 DEF Programmed, Hid
<1>4. Hid(f).src = f.src
  BY <1>2 DEF Entry, F, Hid
<1>. QED
  BY <1>1, <1>2, <1>3, <1>4

-----------------------------------------------------------------------------
(* The clocks: counts, sources and rates.                                   *)

Configuration == [freq : Nat, src : {"boot"} \cup Sources, half : Nat, m : Nat, n : Nat]
TheClocks == [count : [Clks -> Nat], on : SUBSET Clks, cfg : [DOMAIN Rcgs -> Configuration],
              current : [DOMAIN Rcgs -> Nat]]

\* A clock that can be enabled runs as long as it has users; the source of a root clock has one;
\* and a root clock is programmed with the entry of the rate it was given.
RunsWhileUsed(k) == \A c \in Clks : HasEnable(c) => (c \in k.on <=> k.count[c] > 0)
SourceUsed(k) == \A r \in DOMAIN Rcgs : k.cfg[r].src = "gpll0" => k.count["gpll0"] > 0
RateProgrammed(k) ==
  \A r \in DOMAIN Rcgs :
    k.current[r] = NoFreq
      \/ \E f \in Rcgs[r].table : f.freq = k.current[r] /\ k.cfg[r] = Programmed(r, f)
ClkInv(k) == k \in TheClocks /\ RunsWhileUsed(k) /\ SourceUsed(k) /\ RateProgrammed(k)

\* The enables that clients hold of a clock, one by one; the clock counts them.
Enables(held, c) == {t \in ClockClients \X Nat : ClockNames[t[1]] = c /\ t[2] \in 1..held[t[1]]}
Counted(held, count) ==
  \A c \in Clks \ Sources : IsFiniteSet(Enables(held, c)) /\ Cardinality(Enables(held, c)) = count[c]

TheUsers == [held : [ClockClients -> Nat], left : Int, ret : {"ok", "error"}]
ClockInv == ClkInv(clk) /\ users \in TheUsers /\ Counted(users.held, clk.count)

LEMMA SourcesAreClocks == Sources \subseteq Clks
BY DEF Sources, Clks, SourceRate

\* What an entry's configuration is when it is programmed.
LEMMA ProgrammedTyped ==
  ASSUME NEW r \in DOMAIN Rcgs, NEW f \in Rcgs[r].table
  PROVE  Programmed(r, f) \in Configuration
<1>1. Entry(f)
  BY ProgrammedClose
<1>2. f \in Configuration /\ [f EXCEPT !.m = 0, !.n = 0] \in Configuration
  <2>1. f = [freq |-> f.freq, src |-> f.src, half |-> f.half, m |-> f.m, n |-> f.n]
    BY <1>1 DEF Entry, F
  <2>2. [f EXCEPT !.m = 0, !.n = 0] = [freq |-> f.freq, src |-> f.src, half |-> f.half, m |-> 0, n |-> 0]
    <3>1. PICK g : g = [f EXCEPT !.m = 0, !.n = 0]
      OBVIOUS
    <3>2. g = [freq |-> f.freq, src |-> f.src, half |-> f.half, m |-> 0, n |-> 0]
      BY <2>1, <3>1
    <3>. QED
      BY <3>1, <3>2, Zenon
  <2>. QED
    BY <1>1, <2>1, <2>2 DEF Entry, Configuration
<1>. QED
  BY <1>2 DEF Programmed

\* clk_enable keeps the clocks in order, and counts one user more.
LEMMA EnableKeeps ==
  ASSUME NEW k, ClkInv(k), NEW c \in Clks
  PROVE  /\ ClkInv(EnableClk(k, c))
         /\ EnableClk(k, c).count = [k.count EXCEPT ![c] = @ + 1]
         /\ EnableClk(k, c).cfg = k.cfg /\ EnableClk(k, c).current = k.current
<1>e. PICK e : e = EnableClk(k, c)
  OBVIOUS
<1>0. k = [count |-> k.count, on |-> k.on, cfg |-> k.cfg, current |-> k.current]
  BY DEF ClkInv, TheClocks
<1>1. /\ e.count = [k.count EXCEPT ![c] = @ + 1] /\ e.cfg = k.cfg /\ e.current = k.current
      /\ e.on = (IF k.count[c] = 0 /\ HasEnable(c) THEN k.on \cup {c} ELSE k.on)
      /\ e = [count |-> e.count, on |-> e.on, cfg |-> e.cfg, current |-> e.current]
  BY <1>0, <1>e DEF EnableClk
<1>2. e.count \in [Clks -> Nat] /\ e.on \subseteq Clks
  BY <1>1 DEF ClkInv, TheClocks
<1>3. e \in TheClocks
  BY <1>1, <1>2 DEF ClkInv, TheClocks
<1>4. RunsWhileUsed(e)
  <2>1. SUFFICES ASSUME NEW b \in Clks, HasEnable(b) PROVE b \in e.on <=> e.count[b] > 0
    BY DEF RunsWhileUsed
  <2>2. k.count[b] \in Nat /\ (b \in k.on <=> k.count[b] > 0)
    BY <2>1 DEF ClkInv, TheClocks, RunsWhileUsed
  <2>3. e.count[b] = IF b = c THEN k.count[b] + 1 ELSE k.count[b]
    BY <1>1 DEF ClkInv, TheClocks
  <2>4. CASE b = c
    BY <1>1, <2>1, <2>2, <2>3, <2>4
  <2>5. CASE b # c
    BY <1>1, <2>2, <2>3, <2>5
  <2>. QED
    BY <2>4, <2>5
<1>5. SourceUsed(e)
  <2>1. e.count["gpll0"] >= k.count["gpll0"] /\ k.count["gpll0"] \in Nat /\ e.count["gpll0"] \in Nat
    BY <1>1, <1>2, SourcesAreClocks DEF Sources, ClkInv, TheClocks
  <2>. QED
    BY <1>1, <2>1 DEF ClkInv, SourceUsed
<1>6. RateProgrammed(e)
  BY <1>1 DEF ClkInv, RateProgrammed
<1>. QED
  BY <1>e, <1>1, <1>3, <1>4, <1>5, <1>6 DEF ClkInv

\* clk_disable of a client's clock keeps them in order, and counts one user less.
LEMMA DisableKeeps ==
  ASSUME NEW k, ClkInv(k), NEW c \in Clks \ Sources
  PROVE  /\ ClkInv(DisableClk(k, c))
         /\ DisableClk(k, c).count = IF k.count[c] = 0 THEN k.count ELSE [k.count EXCEPT ![c] = @ - 1]
<1>1. CASE k.count[c] = 0
  BY <1>1 DEF DisableClk
<1>2. CASE k.count[c] # 0
  <2>. DEFINE e == DisableClk(k, c)
  <2>1. /\ e.count = [k.count EXCEPT ![c] = @ - 1] /\ e.cfg = k.cfg /\ e.current = k.current
        /\ e.on = (IF k.count[c] = 1 /\ HasEnable(c) THEN k.on \ {c} ELSE k.on)
        /\ e = [count |-> e.count, on |-> e.on, cfg |-> e.cfg, current |-> e.current]
    BY <1>2 DEF ClkInv, TheClocks, DisableClk, LastUser
  <2>. HIDE DEF e
  <2>2. e.count \in [Clks -> Nat] /\ e.on \subseteq Clks
    BY <1>2, <2>1 DEF ClkInv, TheClocks
  <2>3. e \in TheClocks
    BY <2>1, <2>2 DEF ClkInv, TheClocks
  <2>4. RunsWhileUsed(e)
    <3>1. SUFFICES ASSUME NEW b \in Clks, HasEnable(b) PROVE b \in e.on <=> e.count[b] > 0
      BY DEF RunsWhileUsed
    <3>2. k.count[b] \in Nat /\ (b \in k.on <=> k.count[b] > 0)
      BY <3>1 DEF ClkInv, TheClocks, RunsWhileUsed
    <3>3. e.count[b] = IF b = c THEN k.count[b] - 1 ELSE k.count[b]
      BY <2>1 DEF ClkInv, TheClocks
    <3>4. CASE b = c
      BY <1>2, <2>1, <3>1, <3>2, <3>3, <3>4
    <3>5. CASE b # c
      BY <2>1, <3>2, <3>3, <3>5
    <3>. QED
      BY <3>4, <3>5
  <2>5. SourceUsed(e)
    <3>1. e.count["gpll0"] = k.count["gpll0"]
      BY <2>1, SourcesAreClocks DEF Sources, ClkInv, TheClocks
    <3>. QED
      BY <2>1, <3>1 DEF ClkInv, SourceUsed
  <2>6. RateProgrammed(e)
    BY <2>1 DEF ClkInv, RateProgrammed
  <2>. QED
    BY <1>2, <2>1, <2>3, <2>4, <2>5, <2>6 DEF ClkInv, e
<1>. QED
  BY <1>1, <1>2

\* clock_lib2_rcg_set_rate keeps them in order, and counts no user of a client's clock.
LEMMA SetRateKeeps ==
  ASSUME NEW k, ClkInv(k), NEW r \in DOMAIN Rcgs, NEW rate \in Rates(Rcgs[r].table)
  PROVE  /\ ClkInv(RcgSetRate(k, r, rate))
         /\ \A c \in Clks \ Sources : RcgSetRate(k, r, rate).count[c] = k.count[c]
<1>1. CASE rate = k.current[r]
  BY <1>1 DEF RcgSetRate
<1>2. CASE rate # k.current[r]
  <2>. DEFINE f == EntryFor(Rcgs[r].table, rate)
              s == EnableSource(k, f)
  <2>1. f \in Rcgs[r].table /\ f.freq = rate
    BY EntryFound
  <2>. HIDE DEF f
  <2>2. Entry(f) /\ Programmed(r, f).src = f.src /\ Programmed(r, f) \in Configuration
    BY <2>1, ProgrammedClose, ProgrammedTyped
  <2>3. f.src \in Sources /\ f.src \in Clks /\ rate \in Nat
    BY <2>1, <2>2, SourcesAreClocks DEF Entry
  <2>4. ClkInv(s) /\ s.count = [k.count EXCEPT ![f.src] = @ + 1] /\ s.cfg = k.cfg /\ s.current = k.current
    BY <2>3, EnableKeeps DEF EnableSource
  <2>. HIDE DEF s
  <2>12. s = [count |-> s.count, on |-> s.on, cfg |-> s.cfg, current |-> s.current]
    BY <2>4 DEF ClkInv, TheClocks
  <2>e. PICK e : e = [s EXCEPT !.cfg[r] = Programmed(r, f), !.current[r] = rate]
    OBVIOUS
  <2>5. e = [count |-> s.count, on |-> s.on, cfg |-> [s.cfg EXCEPT ![r] = Programmed(r, f)],
             current |-> [s.current EXCEPT ![r] = rate]]
    BY <2>12, <2>e
  <2>6. e \in TheClocks
    BY <2>2, <2>3, <2>4, <2>5 DEF ClkInv, TheClocks
  <2>7. RunsWhileUsed(e)
    BY <2>4, <2>5 DEF ClkInv, RunsWhileUsed
  <2>8. SourceUsed(e)
    <3>1. SUFFICES ASSUME NEW q \in DOMAIN Rcgs, e.cfg[q].src = "gpll0" PROVE e.count["gpll0"] > 0
      BY DEF SourceUsed
    <3>2. CASE q = r
      <4>1. f.src = "gpll0"
        BY <2>2, <2>4, <2>5, <3>1, <3>2 DEF ClkInv, TheClocks
      <4>2. k.count["gpll0"] \in Nat /\ s.count["gpll0"] = k.count["gpll0"] + 1
        BY <2>3, <2>4, <4>1 DEF ClkInv, TheClocks
      <4>. QED
        BY <2>5, <4>2
    <3>3. CASE q # r
      BY <2>4, <2>5, <3>1, <3>3 DEF ClkInv, TheClocks, SourceUsed
    <3>. QED
      BY <3>2, <3>3
  <2>9. RateProgrammed(e)
    <3>1. SUFFICES ASSUME NEW q \in DOMAIN Rcgs
          PROVE e.current[q] = NoFreq
                  \/ \E g \in Rcgs[q].table : g.freq = e.current[q] /\ e.cfg[q] = Programmed(q, g)
      BY DEF RateProgrammed
    <3>2. CASE q = r
      BY <2>1, <2>4, <2>5, <3>2 DEF ClkInv, TheClocks
    <3>3. CASE q # r
      BY <2>4, <2>5, <3>3 DEF ClkInv, TheClocks, RateProgrammed
    <3>. QED
      BY <3>2, <3>3
  <2>10. \A c \in Clks \ Sources : e.count[c] = k.count[c]
    BY <2>3, <2>4, <2>5 DEF ClkInv, TheClocks
  <2>11. RcgSetRate(k, r, rate) = e
    BY <1>2, <2>e DEF RcgSetRate, s, f
  <2>. QED
    BY <2>6, <2>7, <2>8, <2>9, <2>10, <2>11 DEF ClkInv
<1>. QED
  BY <1>1, <1>2

\* A client that enables a clock holds one enable more of that clock, and of no other.
LEMMA OneMoreEnable ==
  ASSUME NEW held \in [ClockClients -> Nat], NEW count \in [Clks -> Nat], Counted(held, count),
         NEW n \in ClockClients, NEW more \in [Clks -> Nat],
         \A c \in Clks \ Sources : more[c] = IF c = ClockNames[n] THEN count[c] + 1 ELSE count[c]
  PROVE  Counted([held EXCEPT ![n] = @ + 1], more)
<1>. DEFINE now == [held EXCEPT ![n] = @ + 1]
<1>1. SUFFICES ASSUME NEW c \in Clks \ Sources
      PROVE IsFiniteSet(Enables(now, c)) /\ Cardinality(Enables(now, c)) = more[c]
  BY DEF Counted
<1>2. IsFiniteSet(Enables(held, c)) /\ Cardinality(Enables(held, c)) = count[c] /\ count[c] \in Nat
  BY DEF Counted
<1>3. \A m \in ClockClients : now[m] \in Nat /\ held[m] \in Nat /\ now[m] = IF m = n THEN held[m] + 1 ELSE held[m]
  OBVIOUS
<1>. HIDE DEF now
<1>4. CASE c # ClockNames[n]
  <2>1. Enables(now, c) = Enables(held, c)
    BY <1>3, <1>4 DEF Enables
  <2>. QED
    BY <1>2, <1>4, <2>1
<1>5. CASE c = ClockNames[n]
  <2>. DEFINE t == <<n, held[n] + 1>>
  <2>1. t \notin Enables(held, c)
    BY <1>3 DEF Enables
  <2>2. Enables(now, c) = Enables(held, c) \cup {t}
    <3>1. ASSUME NEW x \in Enables(now, c) PROVE x \in Enables(held, c) \cup {t}
      <4>1. PICK m \in ClockClients, i \in Nat : x = <<m, i>> /\ ClockNames[m] = c /\ i \in 1..now[m]
        BY <3>1 DEF Enables
      <4>2. CASE m = n /\ i = held[n] + 1
        BY <4>1, <4>2
      <4>3. CASE ~(m = n /\ i = held[n] + 1)
        BY <1>3, <4>1, <4>3 DEF Enables
      <4>. QED
        BY <4>2, <4>3
    <3>2. ASSUME NEW x \in Enables(held, c) PROVE x \in Enables(now, c)
      BY <1>3, <3>2 DEF Enables
    <3>3. t \in Enables(now, c)
      BY <1>3, <1>5 DEF Enables
    <3>. QED
      BY <3>1, <3>2, <3>3
  <2>3. IsFiniteSet(Enables(now, c)) /\ Cardinality(Enables(now, c)) = Cardinality(Enables(held, c)) + 1
    BY <1>2, <2>1, <2>2, FS_AddElement
  <2>. QED
    BY <1>2, <1>5, <2>3
<1>. QED
  BY <1>4, <1>5

\* One that disables a clock it holds gives one back.
LEMMA OneLessEnable ==
  ASSUME NEW held \in [ClockClients -> Nat], NEW count \in [Clks -> Nat], Counted(held, count),
         NEW n \in ClockClients, held[n] > 0, ClockNames[n] \in Clks \ Sources
  PROVE  /\ count[ClockNames[n]] > 0
         /\ Counted([held EXCEPT ![n] = @ - 1], [count EXCEPT ![ClockNames[n]] = @ - 1])
<1>. DEFINE now == [held EXCEPT ![n] = @ - 1]
            less == [count EXCEPT ![ClockNames[n]] = @ - 1]
            t == <<n, held[n]>>
<1>1. \A m \in ClockClients : held[m] \in Nat /\ now[m] = IF m = n THEN held[m] - 1 ELSE held[m]
  OBVIOUS
<1>. HIDE DEF now
<1>2. t \in Enables(held, ClockNames[n])
  BY <1>1 DEF Enables
<1>3. \A c \in Clks \ Sources :
        IsFiniteSet(Enables(held, c)) /\ Cardinality(Enables(held, c)) = count[c] /\ count[c] \in Nat
  BY DEF Counted
<1>4. count[ClockNames[n]] > 0
  BY <1>2, <1>3, FS_EmptySet
<1>5. ASSUME NEW c \in Clks \ Sources
      PROVE IsFiniteSet(Enables(now, c)) /\ Cardinality(Enables(now, c)) = less[c]
  <2>1. CASE c # ClockNames[n]
    <3>1. Enables(now, c) = Enables(held, c)
      BY <1>1, <2>1 DEF Enables
    <3>. QED
      BY <1>3, <2>1, <3>1
  <2>2. CASE c = ClockNames[n]
    <3>1. Enables(now, c) = Enables(held, c) \ {t}
      <4>1. ASSUME NEW x \in Enables(now, c) PROVE x \in Enables(held, c) \ {t}
        <5>1. PICK m \in ClockClients, i \in Nat : x = <<m, i>> /\ ClockNames[m] = c /\ i \in 1..now[m]
          BY <4>1 DEF Enables
        <5>2. i \in 1..held[m] /\ ~(m = n /\ i = held[n])
          BY <1>1, <5>1
        <5>. QED
          BY <5>1, <5>2 DEF Enables
      <4>2. ASSUME NEW x \in Enables(held, c) \ {t} PROVE x \in Enables(now, c)
        <5>1. PICK m \in ClockClients, i \in Nat : x = <<m, i>> /\ ClockNames[m] = c /\ i \in 1..held[m]
          BY <4>2 DEF Enables
        <5>2. i \in 1..now[m]
          BY <1>1, <4>2, <5>1
        <5>. QED
          BY <5>1, <5>2 DEF Enables
      <4>. QED
        BY <4>1, <4>2
    <3>2. IsFiniteSet(Enables(now, c)) /\ Cardinality(Enables(now, c)) = Cardinality(Enables(held, c)) - 1
      BY <1>2, <1>3, <2>2, <3>1, FS_RemoveElement
    <3>. QED
      BY <1>3, <2>2, <3>2
  <2>. QED
    BY <2>1, <2>2
<1>. QED
  BY <1>4, <1>5 DEF Counted, now

\* The clients and their enables start in order.
LEMMA ClockStarts == ASSUME ClockInit PROVE ClockInv
<1>1. \A r \in DOMAIN Rcgs : BootConfig \in Configuration /\ BootConfig.src = "boot"
  BY DEF BootConfig, F, NoFreq, Configuration
<1>2. clk \in TheClocks
  BY <1>1 DEF ClockInit, TheClocks, NoFreq
<1>3. RunsWhileUsed(clk) /\ SourceUsed(clk) /\ RateProgrammed(clk)
  BY <1>1 DEF ClockInit, RunsWhileUsed, SourceUsed, RateProgrammed
<1>4. users \in TheUsers
  BY ClockAssumption DEF ClockInit, TheUsers
<1>5. \A c \in Clks : Enables(users.held, c) = {}
  BY DEF ClockInit, Enables
<1>6. Counted(users.held, clk.count)
  BY <1>5, FS_EmptySet DEF Counted, ClockInit
<1>. QED
  BY <1>2, <1>3, <1>4, <1>6 DEF ClockInv, ClkInv

\* What a call leaves of the clients' state.
LEMMA CallLeaves ==
  ASSUME users \in TheUsers, NEW n \in ClockClients, NEW ret \in {"ok", "error"}, NEW h \in Nat,
         users' = Called(n, ret, h)
  PROVE  users' \in TheUsers /\ users'.held = [users.held EXCEPT ![n] = h]
<1>1. users = [held |-> users.held, left |-> users.left, ret |-> users.ret]
  BY DEF TheUsers
<1>2. PICK u : u = users'
  OBVIOUS
<1>3. u = [held |-> [users.held EXCEPT ![n] = h], left |-> users.left - 1, ret |-> ret]
  BY <1>1, <1>2 DEF Called
<1>. QED
  BY <1>2, <1>3 DEF TheUsers

\* Every call of a client keeps the clocks and the counts in order.
LEMMA ClockStep == ASSUME ClockInv, [ClockNext]_clkVars PROVE ClockInv'
<1>1. /\ ClkInv(clk) /\ users \in TheUsers /\ Counted(users.held, clk.count)
      /\ users.held \in [ClockClients -> Nat] /\ clk.count \in [Clks -> Nat]
  BY DEF ClockInv, ClkInv, TheClocks, TheUsers
<1>2. CASE UNCHANGED clkVars
  BY <1>1, <1>2 DEF clkVars, ClockInv
<1>3. ASSUME NEW n \in ClockClients, ClkEnable(n) PROVE ClockInv'
  <2>1. /\ ClkInv(clk') /\ clk'.count = [clk.count EXCEPT ![ClockNames[n]] = @ + 1]
    BY <1>1, <1>3, ClientsClock, EnableKeeps DEF ClkEnable
  <2>2. users' \in TheUsers /\ users'.held = [users.held EXCEPT ![n] = @ + 1]
    BY <1>1, <1>3, CallLeaves DEF ClkEnable
  <2>3. clk'.count \in [Clks -> Nat]
    BY <2>1 DEF ClkInv, TheClocks
  <2>4. Counted(users'.held, clk'.count)
    <3>1. \A c \in Clks \ Sources :
             clk'.count[c] = IF c = ClockNames[n] THEN clk.count[c] + 1 ELSE clk.count[c]
      BY <1>1, <2>1
    <3>. QED
      BY <1>1, <2>2, <2>3, <3>1, OneMoreEnable
  <2>. QED
    BY <2>1, <2>2, <2>4 DEF ClockInv
<1>4. ASSUME NEW n \in ClockClients, ClkDisable(n) PROVE ClockInv'
  <2>. DEFINE c == ClockNames[n]
  <2>1. c \in Clks \ Sources
    BY ClientsClock
  <2>2. ClkInv(clk') /\ clk'.count = IF clk.count[c] = 0 THEN clk.count ELSE [clk.count EXCEPT ![c] = @ - 1]
    BY <1>1, <1>4, <2>1, DisableKeeps DEF ClkDisable
  <2>3. CASE users.held[n] > 0
    <3>1. users' \in TheUsers /\ users'.held = [users.held EXCEPT ![n] = @ - 1]
      BY <1>1, <1>4, <2>3, CallLeaves DEF ClkDisable
    <3>2. clk.count[c] > 0 /\ Counted([users.held EXCEPT ![n] = @ - 1], [clk.count EXCEPT ![c] = @ - 1])
      BY <1>1, <2>1, <2>3, OneLessEnable
    <3>. QED
      BY <2>2, <3>1, <3>2 DEF ClockInv
  <2>4. CASE ~(users.held[n] > 0)
    <3>1. users.held[n] = 0 /\ clk.count[c] = 0
      BY <1>1, <1>4, <2>4 DEF ClkDisable
    <3>2. users' \in TheUsers /\ users'.held = users.held
      BY <1>1, <1>4, <3>1, CallLeaves DEF ClkDisable
    <3>. QED
      BY <1>1, <2>2, <3>1, <3>2 DEF ClockInv
  <2>. QED
    BY <2>3, <2>4
<1>5. ASSUME NEW n \in ClockClients, users' = Called(n, "error", users.held[n]), UNCHANGED clk PROVE ClockInv'
  <2>1. users' \in TheUsers /\ users'.held = users.held
    BY <1>1, <1>5, CallLeaves
  <2>. QED
    BY <1>1, <1>5, <2>1 DEF ClockInv
<1>6. ASSUME NEW n \in ClockClients, NEW rate, ClkSetRate(n, rate) PROVE ClockInv'
  <2>1. CASE CanSetRate(ClockNames[n], rate)
    <3>1. /\ ClkInv(clk') /\ \A c \in Clks \ Sources : clk'.count[c] = clk.count[c]
      BY <1>1, <1>6, <2>1, ClientsClock, SetRateKeeps DEF ClkSetRate, CanSetRate
    <3>2. users' \in TheUsers /\ users'.held = users.held
      BY <1>1, <1>6, <2>1, CallLeaves DEF ClkSetRate
    <3>. QED
      BY <1>1, <3>1, <3>2 DEF ClockInv, Counted
  <2>2. CASE ~CanSetRate(ClockNames[n], rate)
    BY <1>5, <1>6, <2>2 DEF ClkSetRate
  <2>. QED
    BY <2>1, <2>2
<1>7. ASSUME NEW n \in ClockClients, NEW rate, ClkGetSetEnable(n, rate) PROVE ClockInv'
  <2>1. CASE CanSetRate(ClockNames[n], rate)
    <3>1. PICK k : k = RcgSetRate(clk, RootOf(ClockNames[n]), rate)
      OBVIOUS
    <3>2. ClkInv(k) /\ \A c \in Clks \ Sources : k.count[c] = clk.count[c]
      BY <1>1, <2>1, <3>1, ClientsClock, SetRateKeeps DEF CanSetRate
    <3>3. ClkInv(clk') /\ clk'.count = [k.count EXCEPT ![ClockNames[n]] = @ + 1]
      BY <1>7, <2>1, <3>1, <3>2, ClientsClock, EnableKeeps DEF ClkGetSetEnable
    <3>4. users' \in TheUsers /\ users'.held = [users.held EXCEPT ![n] = @ + 1]
      BY <1>1, <1>7, <2>1, CallLeaves DEF ClkGetSetEnable
    <3>5. clk'.count \in [Clks -> Nat] /\ k.count \in [Clks -> Nat]
      BY <3>2, <3>3 DEF ClkInv, TheClocks
    <3>6. \A c \in Clks \ Sources :
             clk'.count[c] = IF c = ClockNames[n] THEN clk.count[c] + 1 ELSE clk.count[c]
      BY <3>2, <3>3, <3>5
    <3>. QED
      BY <1>1, <3>3, <3>4, <3>5, <3>6, OneMoreEnable DEF ClockInv
  <2>2. CASE ~CanSetRate(ClockNames[n], rate)
    BY <1>5, <1>7, <2>2 DEF ClkGetSetEnable
  <2>. QED
    BY <2>1, <2>2
<1>. QED
  BY <1>2, <1>3, <1>4, <1>6, <1>7 DEF ClockNext

\* Clocks in order have the rates they were given, and run for those who hold them.
LEMMA ClocksServe == ASSUME ClockInv PROVE RateDelivered /\ HeldClocksRun
<1>1. ClkInv(clk) /\ Counted(users.held, clk.count) /\ users.held \in [ClockClients -> Nat]
  BY DEF ClockInv, TheUsers
<1>2. RateDelivered
  <2>1. SUFFICES ASSUME NEW r \in DOMAIN Rcgs, clk.current[r] # NoFreq,
                        ~(r \in QupRoots /\ clk.current[r] \in UnusableByHid)
        PROVE Close(clk.cfg[r], clk.current[r])
    BY DEF RateDelivered, Close
  <2>2. PICK f \in Rcgs[r].table : f.freq = clk.current[r] /\ clk.cfg[r] = Programmed(r, f)
    BY <1>1, <2>1 DEF ClkInv, RateProgrammed
  <2>. QED
    BY <2>1, <2>2, ProgrammedClose
<1>3. ASSUME NEW n \in ClockClients, users.held[n] > 0, HasEnable(ClockNames[n]) PROVE ClockNames[n] \in clk.on
  <2>1. clk.count[ClockNames[n]] > 0
    BY <1>1, <1>3, ClientsClock, OneLessEnable DEF ClkInv, TheClocks
  <2>. QED
    BY <1>1, <1>3, <2>1, ClientsClock DEF ClkInv, RunsWhileUsed
<1>4. ASSUME NEW r \in DOMAIN Rcgs, clk.cfg[r].src = "gpll0" PROVE "gpll0" \in clk.on
  BY <1>1, <1>4, SourcesAreClocks DEF ClkInv, SourceUsed, RunsWhileUsed, HasEnable, Sources
<1>. QED
  BY <1>2, <1>3, <1>4 DEF HeldClocksRun

ClockPart == part = "clock" => ClockInv

\* In MCDrivers every root clock has the rate it was given, to within 0.01 percent, but for the
\* three entries that are wrong; a clock that a client holds runs, whatever the clients that share
\* it do; and so does the source of every root clock (clk_enable, clk_disable, clk_set_rate,
\* clk_get_set_enable, clock_lib2_rcg_set_rate).  This holds for every set of clients and every
\* number of calls.
THEOREM ClocksAreDelivered == Spec => []ClockDelivered
<1>1. Init => ClockPart
  BY ClockStarts DEF Init, ClockPart
<1>2. ASSUME ClockPart, [Next]_vars PROVE ClockPart'
  <2>1. SUFFICES ASSUME part = "clock" PROVE ClockInv'
    BY <1>2, PartStays DEF ClockPart
  <2>2. [ClockNext]_clkVars
    BY <1>2, <2>1 DEF Next, vars, clkVars
  <2>. QED
    BY <1>2, <2>1, <2>2, ClockStep DEF ClockPart
<1>3. ClockPart => ClockDelivered
  BY ClocksServe DEF ClockPart, ClockDelivered
<1>. QED
  BY <1>1, <1>2, <1>3, PTL DEF Spec

-----------------------------------------------------------------------------
(* What DriverProofs shows of the other drivers.                             *)

Generic == INSTANCE DriverProofs WITH
    Pins <- {g1}, SummaryIrq <- summary, OtherIrqs <- {smd},
    gic <- slot1, lib <- slot2, pin <- slot3, want <- slot4,
    BufferBytes <- {0, 1, 2},
    CardKinds <- Kinds, CardBlocks <- 8, HcUnit <- 2, SectorSize <- 2, MaxStat <- 3, RpmbPolls <- 5,
    Ranges <- [addr : {0, 1, 2, 6, 8}, len : {1, 3, 4}],
    chip <- slot1, cached <- slot2, task <- slot3,
    Peripherals <- {p1, p2, p3}, Channels <- 0..3, ChannelOwner <- ChannelMap, NoPeripheral <- none,
    Offsets <- {0, 3}, Sizes <- {1, 4, 5, 8}, spmi <- slot1, arb <- slot2, pmicMem <- slot3, memAtCall <- slot4,
    held <- slot1, binding <- slot2, ticks <- slot3,
    Width <- 16, Height <- 37, Scale <- 1, fbcon <- slot1, writers <- slot2, ints <- slot3, latest <- slot4,
    FifoSize <- 4, MaxLen <- 2, pipe <- slot1, hw <- slot2, job <- slot3

-----------------------------------------------------------------------------
(* Pins and interrupts.                                                     *)

LEMMA SameGpio ==
  /\ Gpio!GpioInit = Generic!GpioInit /\ Gpio!GpioNext = Generic!GpioNext
  /\ Gpio!OnlyWantedInterrupts = Generic!OnlyWantedInterrupts
  /\ Gpio!PinAsConfigured = Generic!PinAsConfigured
BY DEF
    Gpio!Irqs, Gpio!NumFunctions, Gpio!OrderBase2, Gpio!Fld, Gpio!Pull, Gpio!MuxField, Gpio!Mux,
    Gpio!Drv, Gpio!Oe, Gpio!OutBit, Gpio!Enable, Gpio!Polarity, Gpio!Detection, Gpio!RawStatus,
    Gpio!Target, Gpio!Get, Gpio!Put, Gpio!Types, Gpio!DetectionOf, Gpio!PolarityOf, Gpio!ToApps,
    Gpio!Typed, Gpio!PinReset, Gpio!WantReset, Gpio!GpioInit, Gpio!At, Gpio!Goto, Gpio!OnlyGic,
    Gpio!QGicHardwareReset, Gpio!QGicDistInit, Gpio!IrqInit, Gpio!FindEntry, Gpio!InsertEntry,
    Gpio!RaiseTpl, Gpio!RegisterSource, Gpio!Masked, Gpio!MaskSource, Gpio!RestoreTpl, Gpio!Unmask,
    Gpio!LeaveMasked, Gpio!NextDriver, Gpio!MaskInterrupt, Gpio!Flagged, Gpio!Asserted,
    Gpio!DeviceRaises, Gpio!PinEvent, Gpio!SummaryRaised, Gpio!TakeInterrupt, Gpio!Calling,
    Gpio!Called, Gpio!Change, Gpio!SetFunction, Gpio!ValidStrength, Gpio!SetDriveStrength,
    Gpio!SetPull, Gpio!DirectionInput, Gpio!SetValue, Gpio!DirectionOutput, Gpio!EnableOutput,
    Gpio!TlmmSetPins, Gpio!IrqMask, Gpio!IrqUnmask, Gpio!IrqAck, Gpio!SetType,
    Gpio!SetCustomHandler, Gpio!GpioNext, Gpio!OnlyWantedInterrupts, Gpio!PinAsConfigured,
    Generic!Irqs, Generic!NumFunctions, Generic!OrderBase2, Generic!Fld, Generic!Pull,
    Generic!MuxField, Generic!Mux, Generic!Drv, Generic!Oe, Generic!OutBit, Generic!Enable,
    Generic!Polarity, Generic!Detection, Generic!RawStatus, Generic!Target, Generic!Get,
    Generic!Put, Generic!Types, Generic!DetectionOf, Generic!PolarityOf, Generic!ToApps,
    Generic!Typed, Generic!PinReset, Generic!WantReset, Generic!GpioInit, Generic!At, Generic!Goto,
    Generic!OnlyGic, Generic!QGicHardwareReset, Generic!QGicDistInit, Generic!IrqInit,
    Generic!FindEntry, Generic!InsertEntry, Generic!RaiseTpl, Generic!RegisterSource,
    Generic!Masked, Generic!MaskSource, Generic!RestoreTpl, Generic!Unmask, Generic!LeaveMasked,
    Generic!NextDriver, Generic!MaskInterrupt, Generic!Flagged, Generic!Asserted,
    Generic!DeviceRaises, Generic!PinEvent, Generic!SummaryRaised, Generic!TakeInterrupt,
    Generic!Calling, Generic!Called, Generic!Change, Generic!SetFunction, Generic!ValidStrength,
    Generic!SetDriveStrength, Generic!SetPull, Generic!DirectionInput, Generic!SetValue,
    Generic!DirectionOutput, Generic!EnableOutput, Generic!TlmmSetPins, Generic!IrqMask,
    Generic!IrqUnmask, Generic!IrqAck, Generic!SetType, Generic!SetCustomHandler, Generic!GpioNext,
    Generic!OnlyWantedInterrupts, Generic!PinAsConfigured

GpioInv == part = "gpio" => Generic!IInv /\ Generic!PinsInv

\* The drivers of pins and interrupts promise in MCDrivers what they promise alone: lines are
\* enabled for those who asked, and the registers of the pins hold what was last asked for
\* (InterruptsLib, GpioTlmmDxe, GpioTlmmInterruptDxe).
THEOREM PinsAndInterruptsHold == Spec => []PinsAndInterrupts
<1>1. Init => GpioInv
  BY BoundsAssumption, SameGpio, Generic!InvInit, Generic!PinsInit DEF Init, GpioInv
<1>2. ASSUME GpioInv, [Next]_vars PROVE GpioInv'
  <2>1. SUFFICES ASSUME part = "gpio" PROVE Generic!IInv' /\ Generic!PinsInv'
    BY <1>2, PartStays DEF GpioInv
  <2>2. [Generic!GpioNext]_(Generic!gpioVars)
    BY <1>2, <2>1, SameGpio DEF Next, vars, Generic!gpioVars
  <2>. QED
    BY <1>2, <2>1, <2>2, Generic!NextKeeps, Generic!PinsKeep DEF GpioInv
<1>3. GpioInv => PinsAndInterrupts
  BY SameGpio, Generic!WantedLines, Generic!PinsRead DEF GpioInv, PinsAndInterrupts
<1>. QED
  BY <1>1, <1>2, <1>3, PTL DEF Spec

-----------------------------------------------------------------------------
(* Maintenance of the card.                                                 *)

LEMMA SameMaintenance ==
  /\ Maintenance!MntInit = Generic!MntInit /\ Maintenance!MntNext = Generic!MntNext
  /\ Maintenance!MaintenanceExact = Generic!MaintenanceExact
  /\ Maintenance!PartitionRestored = Generic!PartitionRestored
BY DEF
    Maintenance!Blocks, Maintenance!MntInit, Maintenance!InTask, Maintenance!kind,
    Maintenance!EraseUnit, Maintenance!DriverUnit, Maintenance!WpGroup, Maintenance!CardWpGroup, Maintenance!BlocksOfGroup,
    Maintenance!Argument, Maintenance!BlockAt, Maintenance!Step, Maintenance!Return,
    Maintenance!OnError, Maintenance!Command, Maintenance!Call, Maintenance!Idle,
    Maintenance!GroupsIn, Maintenance!LastGroup, Maintenance!EraseEnd, Maintenance!Erase, Maintenance!SendGroup,
    Maintenance!EraseGrpStart, Maintenance!EraseGrpEnd, Maintenance!InRange, Maintenance!SendErase,
    Maintenance!Tries, Maintenance!AfterPoll, Maintenance!PollStatus, Maintenance!CardReady,
    Maintenance!SetClrPowerOnWpUser, Maintenance!DisablePermWp, Maintenance!Groups,
    Maintenance!Unwritten, Maintenance!ReadExtCsd, Maintenance!EnablePowerOnWp, Maintenance!SendWp,
    Maintenance!GetWpStatus, Maintenance!RpmbSend, Maintenance!SwitchPart,
    Maintenance!SwitchToRpmb, Maintenance!SetBlkCnt, Maintenance!SendFrame, Maintenance!SwitchBack,
    Maintenance!PutCardToSleep, Maintenance!Deselect, Maintenance!Sleep, Maintenance!MntNext,
    Maintenance!Asked, Maintenance!GroupStart, Maintenance!WholeGroups, Maintenance!Succeeded,
    Maintenance!EraseInside, Maintenance!MaintenanceExact, Maintenance!PartitionRestored,
    Generic!Blocks, Generic!MntInit, Generic!InTask, Generic!kind, Generic!EraseUnit, Generic!DriverUnit,
    Generic!WpGroup, Generic!CardWpGroup, Generic!BlocksOfGroup, Generic!Argument, Generic!BlockAt,
    Generic!Step, Generic!Return, Generic!OnError, Generic!Command, Generic!Call, Generic!Idle,
    Generic!GroupsIn, Generic!LastGroup, Generic!EraseEnd, Generic!Erase, Generic!SendGroup, Generic!EraseGrpStart,
    Generic!EraseGrpEnd, Generic!InRange, Generic!SendErase, Generic!Tries, Generic!AfterPoll,
    Generic!PollStatus, Generic!CardReady, Generic!SetClrPowerOnWpUser, Generic!DisablePermWp,
    Generic!Groups, Generic!Unwritten, Generic!ReadExtCsd, Generic!EnablePowerOnWp, Generic!SendWp,
    Generic!GetWpStatus, Generic!RpmbSend, Generic!SwitchPart, Generic!SwitchToRpmb,
    Generic!SetBlkCnt, Generic!SendFrame, Generic!SwitchBack, Generic!PutCardToSleep,
    Generic!Deselect, Generic!Sleep, Generic!MntNext, Generic!Asked, Generic!GroupStart,
    Generic!WholeGroups, Generic!Succeeded, Generic!EraseInside, Generic!MaintenanceExact,
    Generic!PartitionRestored

LEMMA KindsFit == Generic!CardSizes
BY BoundsAssumption DEF Generic!CardSizes, Kinds

MaintenanceInv == part = "maintenance" => Generic!MntInv /\ Generic!ExactInv

\* Erase, write protection and the RPMB access in MCDrivers do what they report, and leave the
\* card in its default partition (mmc_sdhci_erase, mmc_set_clr_power_on_wp_user,
\* mmc_sdhci_rpmb_send); an erase after a failed read of the registers, which may count in any
\* unit, stays in the groups of its request (mmc_get_ext_csd).
THEOREM MaintenanceIsDone == Spec => []MaintenanceDone
<1>1. Init => MaintenanceInv
  BY KindsFit, SameMaintenance, Generic!InitEstablishes, Generic!ExactInit DEF Init, MaintenanceInv
<1>2. ASSUME MaintenanceInv, [Next]_vars PROVE MaintenanceInv'
  <2>1. SUFFICES ASSUME part = "maintenance" PROVE Generic!MntInv' /\ Generic!ExactInv'
    BY <1>2, PartStays DEF MaintenanceInv
  <2>2. [Generic!MntNext]_(Generic!mntVars)
    BY <1>2, <2>1, SameMaintenance DEF Next, vars, Generic!mntVars
  <2>. QED
    BY <1>2, <2>1, <2>2, KindsFit, Generic!MntNextKeeps, Generic!NextExact DEF MaintenanceInv
<1>3. MaintenanceInv => MaintenanceDone
  BY KindsFit, SameMaintenance, Generic!MntPromises DEF MaintenanceInv, MaintenanceDone
<1>. QED
  BY <1>1, <1>2, <1>3, PTL DEF Spec

-----------------------------------------------------------------------------
(* The PMIC bus.                                                            *)

LEMMA SameSpmi ==
  /\ Spmi!SpmiAssumption = Generic!SpmiAssumption
  /\ Spmi!SpmiInitState = Generic!SpmiInitState /\ Spmi!SpmiNext = Generic!SpmiNext
  /\ Spmi!SpmiTransfer = Generic!SpmiTransfer
BY DEF
    Spmi!Unmapped, Spmi!DefaultChannel, Spmi!NoTable, Spmi!Bytes, Spmi!SpmiAssumption,
    Spmi!NoCommand, Spmi!IdleChannel, Spmi!SpmiInitState, Spmi!LookupTable, Spmi!SpmiInit,
    Spmi!SpmiCall, Spmi!SpmiReturn, Spmi!LookupChannel, Spmi!NextData, Spmi!Advanced,
    Spmi!MoreData, Spmi!WriteData, Spmi!CommandWord, Spmi!WriteCommand, Spmi!DataByte,
    Spmi!ArbiterDone, Spmi!ArbiterFails, Spmi!CommandDone, Spmi!AwaitStatus, Spmi!Filled,
    Spmi!ReadData, Spmi!DriverStep, Spmi!ArbiterStep, Spmi!SpmiNext, Spmi!SpmiTransfer,
    Generic!Unmapped, Generic!DefaultChannel, Generic!NoTable, Generic!Bytes,
    Generic!SpmiAssumption, Generic!NoCommand, Generic!IdleChannel, Generic!SpmiInitState,
    Generic!LookupTable, Generic!SpmiInit, Generic!SpmiCall, Generic!SpmiReturn,
    Generic!LookupChannel, Generic!NextData, Generic!Advanced, Generic!MoreData, Generic!WriteData,
    Generic!CommandWord, Generic!WriteCommand, Generic!DataByte, Generic!ArbiterDone,
    Generic!ArbiterFails, Generic!CommandDone, Generic!AwaitStatus, Generic!Filled,
    Generic!ReadData, Generic!DriverStep, Generic!ArbiterStep, Generic!SpmiNext,
    Generic!SpmiTransfer

SpmiMovesInv == part = "spmi" => Generic!SpmiInv

\* Commands on the PMIC bus of MCDrivers move the caller's bytes or change nothing
\* (pmic_arb_write_cmd, pmic_arb_read_cmd).
THEOREM SpmiMovesBytes == Spec => []SpmiTransfer
<1>. Generic!SpmiAssumption
  BY SpmiAssumption, SameSpmi
<1>1. Init => SpmiMovesInv
  BY SameSpmi, Generic!TransferInit DEF Init, SpmiMovesInv
<1>2. ASSUME SpmiMovesInv, [Next]_vars PROVE SpmiMovesInv'
  <2>1. SUFFICES ASSUME part = "spmi" PROVE Generic!SpmiInv'
    BY <1>2, PartStays DEF SpmiMovesInv
  <2>2. [Generic!SpmiNext]_(Generic!spmiVars)
    BY <1>2, <2>1, SameSpmi DEF Next, vars, Generic!spmiVars
  <2>. QED
    BY <1>2, <2>1, <2>2, Generic!TransferKeeps DEF SpmiMovesInv
<1>3. SpmiMovesInv => SpmiTransfer
  BY SameSpmi DEF SpmiMovesInv, SpmiTransfer, Generic!SpmiInv
<1>. QED
  BY <1>1, <1>2, <1>3, PTL DEF Spec

-----------------------------------------------------------------------------
(* The driver binding of the keypad.                                        *)

LEMMA SameBinding ==
  /\ Binding!BindInit = Generic!BindInit /\ Binding!BindNext = Generic!BindNext
  /\ Binding!DeviceWhole = Generic!DeviceWhole
BY DEF
    Binding!Events, Binding!BindInit, Binding!Free, Binding!Acquire, Binding!Running, Binding!Goes,
    Binding!Resource, Binding!CanCall, Binding!Begin, Binding!Supported, Binding!StartSteps,
    Binding!ErrorExit, Binding!Start, Binding!GetNext, Binding!GetFails, Binding!Astray, Binding!NoListWalked, Binding!StopSteps,
    Binding!Stop, Binding!FreeNext, Binding!UninstallFails, Binding!RegisterKey, Binding!Tick,
    Binding!TimerHandler, Binding!BindNext, Binding!Whole, Binding!DeviceWhole,
    Generic!Events, Generic!BindInit, Generic!Free, Generic!Acquire, Generic!Running, Generic!Goes,
    Generic!Resource, Generic!CanCall, Generic!Begin, Generic!Supported, Generic!StartSteps,
    Generic!ErrorExit, Generic!Start, Generic!GetNext, Generic!GetFails, Generic!Astray, Generic!NoListWalked, Generic!StopSteps,
    Generic!Stop, Generic!FreeNext, Generic!UninstallFails, Generic!RegisterKey, Generic!Tick,
    Generic!TimerHandler, Generic!BindNext, Generic!Whole, Generic!DeviceWhole

BindingInv == part = "binding" => Generic!BindInv

\* The binding of the keypad in MCDrivers leaves a whole device or none, wherever a step of Start
\* or Stop fails, or goes astray in a Start without memory
\* (KeypadControllerDriverStart, KeypadControllerDriverStop).
THEOREM DeviceIsWhole == Spec => []DeviceWhole
<1>1. Init => BindingInv
  BY BoundsAssumption, SameBinding, Generic!BindInitHolds DEF Init, BindingInv, Generic!BindingAssumption
<1>2. ASSUME BindingInv, [Next]_vars PROVE BindingInv'
  <2>1. SUFFICES ASSUME part = "binding" PROVE Generic!BindInv'
    BY <1>2, PartStays DEF BindingInv
  <2>2. [Generic!BindNext]_(Generic!bindVars)
    BY <1>2, <2>1, SameBinding DEF Next, vars, Generic!bindVars
  <2>. QED
    BY <1>2, <2>1, <2>2, Generic!BindKeeps DEF BindingInv
<1>3. BindingInv => DeviceWhole
  BY SameBinding, Generic!BindPromises DEF BindingInv, DeviceWhole
<1>. QED
  BY <1>1, <1>2, <1>3, PTL DEF Spec
-----------------------------------------------------------------------------
(* The log on the screen.                                                   *)

LEMMA SameLog ==
  /\ Log!LogInit = Generic!LogInit /\ Log!LogNext = Generic!LogNext
  /\ Log!LogReadable = Generic!LogReadable
BY DEF
    Log!FontWidth, Log!FontHeight, Log!MaxX, Log!MaxY, Log!Characters, Log!Glyph, Log!LogInit,
    Log!Initialize, Log!LineFeed, Log!BeginWrite, Log!Write, Log!Interrupt, Log!WriterAt,
    Log!EndWrite, Log!SetInterrupts, Log!Becomes, Log!Returned, Log!Feeding, Log!Late,
    Log!Logged, Log!Drawable, Log!Paint, Log!PutChar, Log!Repaint, Log!Drawn, Log!Draw,
    Log!StoreRow, Log!StartLine, Log!PageFull, Log!ResetFb, Log!PaintAgain, Log!Cleared,
    Log!TestRow, Log!TurnPage, Log!LogNext, Log!Inside, Log!Overlap, Log!Due, Log!LogReadable,
    Log!Last, Log!Front, Generic!FontWidth, Generic!FontHeight, Generic!MaxX, Generic!MaxY,
    Generic!Characters, Generic!Glyph, Generic!LogInit, Generic!Initialize, Generic!LineFeed,
    Generic!BeginWrite, Generic!Write, Generic!Interrupt, Generic!WriterAt, Generic!EndWrite,
    Generic!SetInterrupts, Generic!Becomes, Generic!Returned, Generic!Feeding, Generic!Late,
    Generic!Logged, Generic!Drawable, Generic!Paint, Generic!PutChar, Generic!Repaint,
    Generic!Drawn, Generic!Draw, Generic!StoreRow, Generic!StartLine, Generic!PageFull,
    Generic!ResetFb, Generic!PaintAgain, Generic!Cleared, Generic!TestRow, Generic!TurnPage,
    Generic!LogNext, Generic!Inside, Generic!Overlap, Generic!Due, Generic!LogReadable,
    Generic!Last, Generic!Front

LEMMA CharacterFits == Generic!ScreenFits
BY DEF Generic!ScreenFits, Generic!MaxX, Generic!MaxY, Generic!FontWidth, Generic!FontHeight

LogPart == part = "log" => Generic!LogInv

\* In MCDrivers the log stays readable wherever lines wrap, pages turn and handlers break in,
\* between the stores of a line feed too, but for what a handler draws there
\* (FbConPutCharWithFactor, SerialPortWriteCritical).
THEOREM LogIsReadable == Spec => []LogReadable
<1>1. Init => LogPart
  BY CharacterFits, SameLog, Generic!LogStarts DEF Init, LogPart
<1>2. ASSUME LogPart, [Next]_vars PROVE LogPart'
  <2>1. SUFFICES ASSUME part = "log" PROVE Generic!LogInv'
    BY <1>2, PartStays DEF LogPart
  <2>2. [Generic!LogNext]_(Generic!logVars)
    BY <1>2, <2>1, SameLog DEF Next, vars, Generic!logVars
  <2>. QED
    BY <1>2, <2>1, <2>2, CharacterFits, Generic!LogStep DEF LogPart
<1>3. LogPart => LogReadable
  BY CharacterFits, SameLog, Generic!LogPromises DEF LogPart, LogReadable
<1>. QED
  BY <1>1, <1>2, <1>3, PTL DEF Spec
-----------------------------------------------------------------------------
(* The pipe of the DMA engine.                                              *)

LEMMA SameBam ==
  /\ Bam!BamInit = Generic!BamInit /\ Bam!BamNext = Generic!BamNext
  /\ Bam!TransferMoved = Generic!TransferMoved
BY DEF
    Bam!Places, Bam!NoDesc, Bam!NoTransfer, Bam!BamInit, Bam!BamAt, Bam!InitBam, Bam!SysPipeInit,
    Bam!PipeFifoInit, Bam!Pieces, Bam!Piece, Bam!NextPlace, Bam!AddOneDesc, Bam!AddDescs,
    Bam!InFifo, Bam!Notified, Bam!TooLong, Bam!Flags, Bam!NewTransfer, Bam!AddDesc, Bam!QueueDesc,
    Bam!GenEvent, Bam!BytesOf, Bam!Raised, Bam!Process, Bam!Error, Bam!Wait, Bam!AllRead,
    Bam!ClearInterrupts, Bam!SetUpAgain, Bam!ReadOffsetUpdate, Bam!BamNext, Bam!TransferMoved,
    Generic!Places, Generic!NoDesc, Generic!NoTransfer, Generic!BamInit, Generic!BamAt,
    Generic!InitBam, Generic!SysPipeInit, Generic!PipeFifoInit, Generic!Pieces, Generic!Piece,
    Generic!NextPlace, Generic!AddOneDesc, Generic!AddDescs, Generic!InFifo, Generic!Notified,
    Generic!TooLong, Generic!Flags, Generic!NewTransfer, Generic!AddDesc, Generic!QueueDesc,
    Generic!GenEvent, Generic!BytesOf, Generic!Raised, Generic!Process, Generic!Error,
    Generic!Wait, Generic!AllRead, Generic!ClearInterrupts, Generic!SetUpAgain,
    Generic!ReadOffsetUpdate, Generic!BamNext, Generic!TransferMoved, Bam!IsPrefix, Generic!IsPrefix

LEMMA FifoFits == Generic!BamAssumption
BY BoundsAssumption DEF Generic!BamAssumption

BamPart == part = "bam" => Generic!BamInv

\* In MCDrivers the engine moves each transfer's bytes in their order, all of them when the wait
\* succeeds, wherever in the FIFO it begins (bam_add_desc, bam_sys_gen_event,
\* bam_wait_for_interrupt, bam_read_offset_update).
THEOREM TransferIsMoved == Spec => []TransferMoved
<1>1. Init => BamPart
  BY FifoFits, SameBam, Generic!BamStarts DEF Init, BamPart
<1>2. ASSUME BamPart, [Next]_vars PROVE BamPart'
  <2>1. SUFFICES ASSUME part = "bam" PROVE Generic!BamInv'
    BY <1>2, PartStays DEF BamPart
  <2>2. [Generic!BamNext]_(Generic!bamVars)
    BY <1>2, <2>1, SameBam DEF Next, vars, Generic!bamVars
  <2>. QED
    BY <1>2, <2>1, <2>2, FifoFits, Generic!BamStep DEF BamPart
<1>3. BamPart => TransferMoved
  BY FifoFits, SameBam, Generic!BamPromises DEF BamPart, TransferMoved
<1>. QED
  BY <1>1, <1>2, <1>3, PTL DEF Spec
-----------------------------------------------------------------------------
(* The registers of the card: what the driver decodes, bit for bit.         *)

\* A register has 128 bits.
ShownBits == 0..127

\* The shifts of a word, bit by bit.
LEMMA Shifted ==
  ASSUME NEW w \in SUBSET Int, NEW n \in Nat
  PROVE  /\ \A b \in Int : b \in Registers!Shl(w, n) <=> b \in 0..31 /\ b - n \in w
         /\ \A b \in Int : b \in Registers!Shr(w, n) <=> b \in 0..31 /\ b + n \in w
<1>1. ASSUME NEW b \in Int PROVE b \in Registers!Shl(w, n) <=> b \in 0..31 /\ b - n \in w
  <2>1. ASSUME b - n \in w PROVE \E c \in w : b = c + n
    <3>1. b = (b - n) + n
      OBVIOUS
    <3>. QED
      BY <2>1, <3>1
  <2>2. ASSUME NEW c \in w, b = c + n PROVE b - n \in w
    BY <2>2
  <2>. QED
    BY <2>1, <2>2 DEF Registers!Shl, Registers!Word, Registers!W
<1>2. ASSUME NEW b \in Int PROVE b \in Registers!Shr(w, n) <=> b \in 0..31 /\ b + n \in w
  <2>1. ASSUME b + n \in w PROVE \E c \in w : b = c - n
    <3>1. b = (b + n) - n
      OBVIOUS
    <3>. QED
      BY <2>1, <3>1
  <2>2. ASSUME NEW c \in w, b = c - n PROVE b + n \in w
    BY <2>2
  <2>. QED
    BY <2>1, <2>2 DEF Registers!Shr, Registers!Word, Registers!W
<1>. QED
  BY <1>1, <1>2

\* The four words the driver keeps: word i holds the register's bits from 32 * i on, but for the
\* lowest eight (sdhci_cmd_complete).
LEMMA WordsRead ==
  ASSUME NEW reg \in SUBSET ShownBits, NEW i \in 0..3, NEW b \in 0..31
  PROVE  b \in Registers!ReadResponse(Registers!LongResponse(reg))[i] <=> 32 * i + b >= 8 /\ 32 * i + b \in reg
<1>. DEFINE r == Registers!LongResponse(reg)
            low == Registers!Shl(r[i], 8)
            high == IF i = 0 THEN {} ELSE Registers!Shr(r[i - 1], 24)
<1>1. \A j \in 0..3 : r[j] \in SUBSET Int /\ \A c \in Int : c \in r[j] <=> c \in 0..31 /\ 32 * j + 8 + c \in reg
  BY DEF Registers!LongResponse, Registers!Word, Registers!W
<1>2. Registers!ReadResponse(r)[i] = low \cup high
  BY DEF Registers!ReadResponse
<1>. HIDE DEF r
<1>3. b \in low <=> b - 8 \in 0..31 /\ 32 * i + b \in reg
  <2>1. b \in low <=> b \in 0..31 /\ b - 8 \in r[i]
    BY <1>1, Shifted
  <2>2. 32 * i + 8 + (b - 8) = 32 * i + b /\ b - 8 \in Int
    OBVIOUS
  <2>. QED
    BY <1>1, <2>1, <2>2
<1>4. ASSUME i # 0 PROVE b \in high <=> b + 24 \in 0..31 /\ 32 * i + b \in reg
  <2>1. i - 1 \in 0..3 /\ 32 * (i - 1) + 8 + (b + 24) = 32 * i + b /\ b + 24 \in Int
    BY <1>4
  <2>2. b \in Registers!Shr(r[i - 1], 24) <=> b \in 0..31 /\ b + 24 \in r[i - 1]
    BY <1>1, <2>1, Shifted
  <2>. QED
    BY <1>1, <1>4, <2>1, <2>2
<1>. HIDE DEF low, high
<1>5. CASE i = 0
  <2>1. high = {}
    BY <1>5 DEF high
  <2>. QED
    BY <1>2, <1>3, <1>5, <2>1 DEF r
<1>6. CASE i # 0
  <2>1. 32 * i + b >= 8
    BY <1>6
  <2>2. b \in low \cup high <=> 32 * i + b \in reg
    BY <1>3, <1>4, <1>6
  <2>. QED
    BY <1>2, <2>1, <2>2 DEF r
<1>. QED
  BY <1>5, <1>6

\* Every bit of a register has its word and its place there.
LEMMA WordAndBit ==
  /\ \A n \in 0..127 : \E i \in 0..3, o \in 0..31 : n = 32 * i + o
  /\ \A i \in 0..3, o \in 0..31 : (32 * i + o) \div 32 = i /\ (32 * i + o) % 32 = o
OBVIOUS

\* UNPACK_BITS, whatever the words: the bits that the two words it looks at hold for the field.
LEMMA UnpackedBits ==
  ASSUME NEW reg \in SUBSET ShownBits, NEW start \in 8..127, NEW len \in 1..32, start + len <= 128
  PROVE  Registers!UnpackBits(Registers!ReadResponse(Registers!LongResponse(reg)), start, len)
           = Registers!Bits(reg, start + len - 1, start)
<1>. DEFINE a == Registers!ReadResponse(Registers!LongResponse(reg))
            indx == start \div 32
            offset == start % 32
            indx2 == (start + len - 1) \div 32
            mask == IF len < 32 THEN 0..(len - 1) ELSE 0..31
            first == Registers!Shr(a[indx], offset)
            second == IF indx2 > indx THEN Registers!Shl(a[indx2], 32 - offset) ELSE {}
<1>1. Registers!UnpackBits(a, start, len) = (first \cup second) \cap mask
  BY DEF Registers!UnpackBits, Registers!W, Registers!Word
<1>2. /\ indx \in 0..3 /\ offset \in 0..31 /\ start = 32 * indx + offset
      /\ indx2 \in 0..3 /\ (indx2 = indx \/ indx2 = indx + 1)
      /\ 32 * indx2 <= start + len - 1 /\ start + len - 1 < 32 * indx2 + 32
  <2>1. start \in 0..127 /\ start + len - 1 \in 0..127
    OBVIOUS
  <2>2. PICK i \in 0..3, o \in 0..31 : start = 32 * i + o
    BY <2>1, WordAndBit
  <2>3. PICK j \in 0..3, p \in 0..31 : start + len - 1 = 32 * j + p
    BY <2>1, WordAndBit
  <2>4. indx = i /\ offset = o /\ indx2 = j
    BY <2>2, <2>3, WordAndBit
  <2>5. j = i \/ j = i + 1
    BY <2>2, <2>3
  <2>6. 32 * j <= start + len - 1 /\ start + len - 1 < 32 * j + 32
    BY ONLY <2>3, j \in 0..3, p \in 0..31
  <2>. HIDE DEF indx, indx2, offset
  <2>. QED
    BY <2>2, <2>4, <2>5, <2>6
<1>3. mask = 0..(len - 1)
  <2>1. ~(len < 32) => len - 1 = 31
    OBVIOUS
  <2>. QED
    BY <2>1
<1>4. \A i \in 0..3 : a[i] \in SUBSET Int
  BY DEF Registers!ReadResponse, Registers!LongResponse, Registers!Shl, Registers!Shr, Registers!Word, Registers!W
<1>5. \A i \in 0..3, b \in 0..31 : b \in a[i] <=> 32 * i + b >= 8 /\ 32 * i + b \in reg
  BY WordsRead
<1>. HIDE DEF a, indx, offset, indx2, mask, first, second
<1>6. ASSUME NEW x \in 0..(len - 1) PROVE x \in first \cup second <=> x + start \in reg
  <2>1. x \in 0..31 /\ x \in Int
    OBVIOUS
  <2>2. x \in first <=> x + offset \in a[indx]
    BY <1>2, <1>4, <2>1, Shifted DEF first
  <2>3. x \in second <=> indx2 > indx /\ x - (32 - offset) \in a[indx2]
    <3>1. 32 - offset \in Nat
      BY <1>2
    <3>. QED
      BY <1>2, <1>4, <2>1, <3>1, Shifted DEF second
  <2>4. \A i \in 0..3 : \A b \in a[i] : b \in 0..31
    BY DEF a, Registers!ReadResponse, Registers!Shl, Registers!Shr, Registers!Word, Registers!W
  <2>5. CASE x + offset \in 0..31
    <3>1. x + offset \in a[indx] <=> x + start \in reg
      BY <1>2, <1>5, <2>5
    <3>2. ~(x - (32 - offset) \in 0..31)
      BY <1>2, <2>5
    <3>. QED
      BY <1>2, <2>2, <2>3, <2>4, <3>1, <3>2
  <2>6. CASE x + offset \notin 0..31
    <3>1. indx2 = indx + 1 /\ x - (32 - offset) \in 0..31 /\ 32 * indx2 + (x - (32 - offset)) = x + start
      BY <1>2, <2>6
    <3>2. x - (32 - offset) \in a[indx2] <=> x + start \in reg
      BY <1>2, <1>5, <3>1
    <3>. QED
      BY <1>2, <2>2, <2>3, <2>4, <2>6, <3>1, <3>2
  <2>. QED
    BY <2>5, <2>6
<1>7. \A x : x \in Registers!Bits(reg, start + len - 1, start) <=> x \in 0..(len - 1) /\ x + start \in reg
  <2>. TAKE x
  <2>1. ASSUME x \in 0..(len - 1), x + start \in reg PROVE x + start \in reg \cap (start..(start + len - 1)) /\ x = (x + start) - start
    BY <2>1
  <2>2. ASSUME NEW b \in reg \cap (start..(start + len - 1)), x = b - start PROVE x \in 0..(len - 1) /\ x + start \in reg
    <3>1. b \in Int /\ x + start = b
      BY <2>2 DEF ShownBits
    <3>. QED
      BY <2>2, <3>1
  <2>. QED
    BY <2>1, <2>2 DEF Registers!Bits
<1>8. \A x : x \in (first \cup second) \cap mask <=> x \in 0..(len - 1) /\ x + start \in reg
  BY <1>3, <1>6
<1>. QED
  BY <1>1, <1>7, <1>8 DEF a

\* Two tables of fields put together: the first wins.
Over(f, g, j) ==
  /\ DOMAIN j = DOMAIN f \cup DOMAIN g
  /\ \A x \in DOMAIN f : j[x] = f[x]
  /\ \A x \in DOMAIN g : x \notin DOMAIN f => j[x] = g[x]

LEMMA JoinedIs == ASSUME NEW f, NEW g PROVE Over(f, g, Registers!Joined(f, g))
BY DEF Registers!Joined, Over

\* Where the fields are that the driver's decisions rest on.
LEMMA CsdPlaces ==
  ASSUME NEW kind \in Registers!Kinds
  PROVE  LET f == Registers!CsdFields(kind) IN
         /\ {"perm_wp", "temp_wp", "card_cmd_class", "c_size"} \subseteq DOMAIN f
         /\ f["perm_wp"] = <<13, 1>> /\ f["temp_wp"] = <<12, 1>> /\ f["card_cmd_class"] = <<84, 12>>
         /\ kind = "sdV2" => f["c_size"] = <<48, 22>>
         /\ kind # "sdV2" => /\ {"c_size_mult", "read_blk_len"} \subseteq DOMAIN f
                             /\ f["c_size"] = <<62, 12>> /\ f["c_size_mult"] = <<47, 3>> /\ f["read_blk_len"] = <<80, 4>>
         /\ kind \in {"mmc", "mmcHc"} =>
               /\ {"wp_grp_size", "erase_grp_size", "erase_grp_mult"} \subseteq DOMAIN f
               /\ f["wp_grp_size"] = <<32, 5>> /\ f["erase_grp_size"] = <<42, 5>> /\ f["erase_grp_mult"] = <<37, 5>>
<1>1. PICK common : common = Registers!CsdCommon
  OBVIOUS
<1>2. /\ DOMAIN common = {"structure", "card_cmd_class", "perm_wp", "temp_wp", "nsac", "taac_unit", "taac_value"}
      /\ common["perm_wp"] = <<13, 1>> /\ common["temp_wp"] = <<12, 1>> /\ common["card_cmd_class"] = <<84, 12>>
  BY <1>1 DEF Registers!CsdCommon
<1>3. PICK v1 : v1 = Registers!Joined(Registers!CsdV1, common)
  OBVIOUS
<1>4. /\ {"perm_wp", "temp_wp", "card_cmd_class", "c_size", "c_size_mult", "read_blk_len"} \subseteq DOMAIN v1
      /\ v1["perm_wp"] = <<13, 1>> /\ v1["temp_wp"] = <<12, 1>> /\ v1["card_cmd_class"] = <<84, 12>>
      /\ v1["c_size"] = <<62, 12>> /\ v1["c_size_mult"] = <<47, 3>> /\ v1["read_blk_len"] = <<80, 4>>
  <2>1. PICK f : f = Registers!CsdV1
    OBVIOUS
  <2>2. /\ DOMAIN f = {"r2w_factor", "c_size_mult", "c_size", "read_blk_len", "write_blk_len", "wp_grp_enable", "misalign"}
        /\ f["c_size"] = <<62, 12>> /\ f["c_size_mult"] = <<47, 3>> /\ f["read_blk_len"] = <<80, 4>>
    BY <2>1 DEF Registers!CsdV1
  <2>3. Over(f, common, v1)
    BY ONLY <1>3, <2>1, JoinedIs
  <2>. QED
    BY ONLY <1>2, <2>2, <2>3 DEF Over
<1>5. CASE kind = "sdV2"
  <2>1. PICK sd : sd = Registers!CsdSd
    OBVIOUS
  <2>2. DOMAIN sd = {"speed_unit", "speed_value"}
    BY <2>1 DEF Registers!CsdSd
  <2>3. PICK rest : rest = Registers!Joined(sd, common)
    OBVIOUS
  <2>4. Over(sd, common, rest)
    BY ONLY <2>3, JoinedIs
  <2>5. PICK f, own : own = [c_size |-> <<48, 22>>] /\ f = Registers!Joined(own, rest)
    OBVIOUS
  <2>6. Over(own, rest, f)
    BY ONLY <2>5, JoinedIs
  <2>7. DOMAIN own = {"c_size"} /\ own["c_size"] = <<48, 22>>
    BY ONLY <2>5
  <2>8. f = Registers!CsdFields(kind)
    BY <1>1, <1>5, <2>1, <2>3, <2>5 DEF Registers!CsdFields
  <2>9. /\ {"perm_wp", "temp_wp", "card_cmd_class", "c_size"} \subseteq DOMAIN f
        /\ f["perm_wp"] = <<13, 1>> /\ f["temp_wp"] = <<12, 1>> /\ f["card_cmd_class"] = <<84, 12>>
        /\ f["c_size"] = <<48, 22>>
    BY ONLY <1>2, <2>2, <2>4, <2>6, <2>7 DEF Over
  <2>. QED
    BY ONLY <1>5, <2>8, <2>9
<1>6. CASE kind = "sdV1"
  <2>1. PICK sd : sd = Registers!CsdSd
    OBVIOUS
  <2>2. DOMAIN sd = {"speed_unit", "speed_value"}
    BY <2>1 DEF Registers!CsdSd
  <2>3. PICK rest : rest = Registers!Joined(sd, v1)
    OBVIOUS
  <2>4. Over(sd, v1, rest)
    BY ONLY <2>3, JoinedIs
  <2>5. PICK f, own : own = [sector_size |-> <<39, 7>>, erase_blk_len |-> <<46, 1>>, wp_grp_size |-> <<32, 7>>]
                      /\ f = Registers!Joined(own, rest)
    OBVIOUS
  <2>6. Over(own, rest, f)
    BY ONLY <2>5, JoinedIs
  <2>7. DOMAIN own = {"sector_size", "erase_blk_len", "wp_grp_size"}
    BY ONLY <2>5
  <2>8. f = Registers!CsdFields(kind)
    BY <1>1, <1>3, <1>6, <2>1, <2>3, <2>5 DEF Registers!CsdFields
  <2>9. /\ {"perm_wp", "temp_wp", "card_cmd_class", "c_size", "c_size_mult", "read_blk_len"} \subseteq DOMAIN f
        /\ f["perm_wp"] = <<13, 1>> /\ f["temp_wp"] = <<12, 1>> /\ f["card_cmd_class"] = <<84, 12>>
        /\ f["c_size"] = <<62, 12>> /\ f["c_size_mult"] = <<47, 3>> /\ f["read_blk_len"] = <<80, 4>>
    BY ONLY <1>4, <2>2, <2>4, <2>6, <2>7 DEF Over
  <2>. QED
    BY ONLY <1>6, <2>8, <2>9
<1>7. CASE kind \in {"mmc", "mmcHc"}
  <2>1. PICK f, own : own = [spec_vers |-> <<122, 4>>, erase_grp_size |-> <<42, 5>>, erase_grp_mult |-> <<37, 5>>, wp_grp_size |-> <<32, 5>>]
                      /\ f = Registers!Joined(own, v1)
    OBVIOUS
  <2>2. Over(own, v1, f)
    BY ONLY <2>1, JoinedIs
  <2>3. /\ DOMAIN own = {"spec_vers", "erase_grp_size", "erase_grp_mult", "wp_grp_size"}
        /\ own["erase_grp_size"] = <<42, 5>> /\ own["erase_grp_mult"] = <<37, 5>> /\ own["wp_grp_size"] = <<32, 5>>
    BY ONLY <2>1
  <2>4. f = Registers!CsdFields(kind)
    BY <1>1, <1>3, <1>7, <2>1 DEF Registers!CsdFields
  <2>5. /\ {"perm_wp", "temp_wp", "card_cmd_class", "c_size", "c_size_mult", "read_blk_len"} \subseteq DOMAIN f
        /\ f["perm_wp"] = <<13, 1>> /\ f["temp_wp"] = <<12, 1>> /\ f["card_cmd_class"] = <<84, 12>>
        /\ f["c_size"] = <<62, 12>> /\ f["c_size_mult"] = <<47, 3>> /\ f["read_blk_len"] = <<80, 4>>
    BY ONLY <1>4, <2>2, <2>3 DEF Over
  <2>6. /\ {"wp_grp_size", "erase_grp_size", "erase_grp_mult"} \subseteq DOMAIN f
        /\ f["wp_grp_size"] = <<32, 5>> /\ f["erase_grp_size"] = <<42, 5>> /\ f["erase_grp_mult"] = <<37, 5>>
    BY ONLY <2>2, <2>3 DEF Over
  <2>. QED
    BY ONLY <1>7, <2>4, <2>5, <2>6
<1>. QED
  BY <1>5, <1>6, <1>7 DEF Registers!Kinds

\* The capacity of a card above 2 GB: the four bytes lie side by side, and without a one in bit 31
\* nothing spreads.
LEMMA SectorsRead ==
  ASSUME NEW bytes \in [1..4 -> SUBSET (0..7)], 7 \notin bytes[4]
  PROVE  Registers!SecCount(bytes) = UNION {{8 * (i - 1) + b : b \in bytes[i]} : i \in 1..4}
<1>. DEFINE shifted(i) == Registers!Shl(bytes[i], 8 * (i - 1))
            int == UNION {shifted(i) : i \in 1..4}
<1>1. ASSUME NEW i \in 1..4 PROVE shifted(i) = {8 * (i - 1) + b : b \in bytes[i]}
  <2>1. \A b \in bytes[i] : b + 8 * (i - 1) = 8 * (i - 1) + b /\ b + 8 * (i - 1) \in 0..31
    OBVIOUS
  <2>. QED
    BY <2>1 DEF Registers!Shl, Registers!Word, Registers!W
<1>2. 31 \notin int
  <2>1. ASSUME NEW i \in 1..4, 31 \in shifted(i) PROVE FALSE
    <3>1. PICK b \in bytes[i] : 31 = 8 * (i - 1) + b
      BY <1>1, <2>1
    <3>2. b \in 0..7
      OBVIOUS
    <3>3. i = 4 /\ b = 7
      BY <3>1, <3>2
    <3>. QED
      BY <3>3
  <2>. QED
    BY <2>1
<1>3. int = UNION {{8 * (i - 1) + b : b \in bytes[i]} : i \in 1..4}
  BY <1>1
<1>. QED
  BY <1>2, <1>3 DEF Registers!SecCount

\* What the driver holds at each place is what it worked out from the card's own registers.
Shown(register) == Registers!ReadResponse(Registers!LongResponse(register))
CidOf(c) == Registers!DecodeCid(c.kind, Shown(c.cid))
CsdOf(c) == Registers!DecodeCsd(c.kind, Shown(c.csd))
CapacityOf(c) == Registers!Capacity(c.kind, CsdOf(c), c.ext.sec)
GroupOf(c) == IF c.kind \in {"mmc", "mmcHc"} THEN Registers!WpGroup(CsdOf(c), c.ext) ELSE 0
RealCard(c) ==
  /\ c.kind \in Registers!Kinds /\ c.cid \in SUBSET ShownBits /\ c.csd \in SUBSET ShownBits
  /\ c.ext.sec \in [1..4 -> SUBSET (0..7)]
  /\ c.kind = "mmcHc" => 62..73 \subseteq c.csd
  /\ c.kind = "sdV1" => 126 \notin c.csd /\ 127 \notin c.csd
  /\ c.kind = "sdV2" => 126 \in c.csd /\ 127 \notin c.csd
Decoded(c, r) ==
  /\ \E next, cid, raw, csd, capacity, wpGroup :
        r = [next |-> next, cid |-> cid, raw |-> raw, csd |-> csd, capacity |-> capacity, wpGroup |-> wpGroup]
  /\ r.next \in {"cid", "csd", "decode", "done"}
  /\ r.next # "cid" => r.cid = CidOf(c)
  /\ r.next \in {"decode", "done"} => r.raw = Shown(c.csd)
  /\ r.next = "done" => r.csd = CsdOf(c) /\ r.capacity = CapacityOf(c) /\ r.wpGroup = GroupOf(c)
ReadInv == \E c, r : slot1 = c /\ slot3 = r /\ RealCard(c) /\ Decoded(c, r)
RegistersPart == part = "registers" => ReadInv

\* A field of at most 32 bits above the checksum, as the driver unpacks it.
Placed(low, len, high) == low \in 8..127 /\ len \in 1..32 /\ high \in 8..127 /\ high = low + len - 1

LEMMA FieldRead ==
  ASSUME NEW reg \in SUBSET ShownBits, NEW low, NEW len, NEW high, Placed(low, len, high)
  PROVE  Registers!Unpacked(Shown(reg), <<low, len>>) = Registers!Bits(reg, high, low)
<1>1. low \in 8..127 /\ len \in 1..32 /\ low + len <= 128 /\ high = low + len - 1
  BY DEF Placed
<1>2. Registers!UnpackBits(Shown(reg), low, len) = Registers!Bits(reg, low + len - 1, low)
  BY <1>1, UnpackedBits DEF Shown
<1>. QED
  BY <1>1, <1>2 DEF Registers!Unpacked

\* CSD_STRUCTURE of an SD card leads the driver to the layout of its kind.
LEMMA LayoutFound == ASSUME NEW c, RealCard(c) PROVE Registers!Layout(c.kind, Shown(c.csd)) = c.kind
<1>1. PICK reg \in SUBSET ShownBits : reg = c.csd
  BY DEF RealCard
<1>2. Registers!CsdCommon.structure = <<126, 2>>
  BY DEF Registers!CsdCommon
<1>3. Registers!Unpacked(Shown(reg), <<126, 2>>) = Registers!Bits(reg, 127, 126)
  <2>1. Placed(126, 2, 127)
    BY ONLY TRUE DEF Placed
  <2>. QED
    BY <2>1, FieldRead
<1>4. c.kind = "sdV2" => Registers!Bits(reg, 127, 126) = {0}
  <2>1. c.kind = "sdV2" => reg \cap (126..127) = {126}
    BY <1>1 DEF RealCard
  <2>2. {b - 126 : b \in {126}} = {0}
    OBVIOUS
  <2>. QED
    BY <2>1, <2>2 DEF Registers!Bits
<1>5. c.kind = "sdV1" => Registers!Bits(reg, 127, 126) = {}
  <2>1. c.kind = "sdV1" => reg \cap (126..127) = {}
    BY <1>1 DEF RealCard
  <2>. QED
    BY <2>1 DEF Registers!Bits
<1>6. PICK field : field = Registers!Unpacked(Shown(c.csd), Registers!CsdCommon.structure)
  OBVIOUS
<1>7. (c.kind = "sdV2" => field = {0}) /\ (c.kind = "sdV1" => field = {})
  BY <1>1, <1>2, <1>3, <1>4, <1>5, <1>6, Zenon
<1>8. Registers!Layout(c.kind, Shown(c.csd)) = IF c.kind \in {"sdV1", "sdV2"} THEN IF field = {0} THEN "sdV2" ELSE "sdV1" ELSE c.kind
  BY <1>6, Zenon DEF Registers!Layout
<1>. QED
  BY <1>7, <1>8

\* The invariant holds before the first command, and every step keeps it.
LEMMA RegistersStart == ASSUME Registers!RegInit PROVE ReadInv
<1>1. PICK kind \in Registers!Kinds, bits \in RegisterBits, bytes \in SectorCounts, grpDef \in BOOLEAN, hcErase \in {1, 8} :
        slot1 = [kind |-> kind, cid |-> bits, csd |-> Registers!OwnCsd(kind, bits),
                 ext |-> [sec |-> bytes, grpDef |-> grpDef, hcErase |-> hcErase]]
  <2>. DEFINE Shows(kind, bits, bytes, grpDef, hcErase) ==
                slot1 = [kind |-> kind, cid |-> bits, csd |-> Registers!OwnCsd(kind, bits),
                         ext |-> [sec |-> bytes, grpDef |-> grpDef, hcErase |-> hcErase]]
  <2>1. \E kind \in Registers!Kinds, bits \in RegisterBits, bytes \in SectorCounts, grpDef \in BOOLEAN, hcErase \in {1, 8} :
          /\ bytes = <<{}, {}, {}, {}>> \/ kind = "mmcHc"
          /\ (~grpDef /\ hcErase = 1) \/ kind \in {"mmc", "mmcHc"}
          /\ Shows(kind, bits, bytes, grpDef, hcErase)
    BY DEF Registers!RegInit
  <2>. HIDE DEF Shows
  <2>2. \E kind \in Registers!Kinds, bits \in RegisterBits, bytes \in SectorCounts, grpDef \in BOOLEAN, hcErase \in {1, 8} :
          Shows(kind, bits, bytes, grpDef, hcErase)
    BY ONLY <2>1, Zenon
  <2>. QED
    BY <2>2 DEF Shows
<1>2. bits \subseteq ShownBits
  <2>1. RegisterBits \subseteq SUBSET ShownBits
    BY DEF RegisterBits, ShownBits
  <2>. QED
    BY <2>1
<1>3. bytes \in [1..4 -> SUBSET (0..7)]
  <2>1. SectorCounts \subseteq [1..4 -> SUBSET (0..7)]
    BY DEF SectorCounts
  <2>. QED
    BY <2>1
<1>4. PICK c : c = slot1
  OBVIOUS
<1>5. RealCard(c)
  <2>1. c.kind = kind /\ c.cid = bits /\ c.ext.sec = bytes
        /\ c.csd = Registers!OwnCsd(kind, bits)
    BY <1>1, <1>4
  <2>2. 62..73 \subseteq ShownBits /\ 126 \in ShownBits
    BY DEF ShownBits
  <2>3. kind \in {"sdV1", "sdV2", "mmc", "mmcHc"}
    BY DEF Registers!Kinds
  <2>4. /\ Registers!OwnCsd(kind, bits) \subseteq ShownBits
        /\ kind = "mmcHc" => 62..73 \subseteq Registers!OwnCsd(kind, bits)
        /\ kind = "sdV1" => 126 \notin Registers!OwnCsd(kind, bits) /\ 127 \notin Registers!OwnCsd(kind, bits)
        /\ kind = "sdV2" => 126 \in Registers!OwnCsd(kind, bits) /\ 127 \notin Registers!OwnCsd(kind, bits)
    <3>1. CASE kind = "sdV1"
      BY ONLY <1>2, <3>1 DEF Registers!OwnCsd
    <3>2. CASE kind = "sdV2"
      BY ONLY <1>2, <2>2, <3>2 DEF Registers!OwnCsd
    <3>3. CASE kind \in {"mmc", "mmcHc"}
      BY ONLY <1>2, <2>2, <3>3 DEF Registers!OwnCsd
    <3>. QED
      BY ONLY <2>3, <3>1, <3>2, <3>3
  <2>. QED
    BY <1>2, <1>3, <2>1, <2>4 DEF RealCard
<1>6. PICK r : r = slot3 /\ Decoded(c, r)
  BY DEF Registers!RegInit, Decoded
<1>. QED
  BY <1>4, <1>5, <1>6 DEF ReadInv

LEMMA RegistersStep ==
  ASSUME ReadInv, [Registers!RegNext]_(Registers!regVars)
  PROVE  ReadInv'
<1>1. PICK c, r : slot1 = c /\ slot3 = r /\ RealCard(c) /\ Decoded(c, r)
  BY DEF ReadInv
<1>2. slot1' = c
  BY <1>1 DEF Registers!RegNext, Registers!regVars, Registers!AllSendCid, Registers!GetCsd, Registers!DecodeAndSaveCsd
<1>3. PICK next, cid, raw, csd, capacity, wpGroup :
        r = [next |-> next, cid |-> cid, raw |-> raw, csd |-> csd, capacity |-> capacity, wpGroup |-> wpGroup]
  BY <1>1 DEF Decoded
<1>4. ASSUME NEW x, slot3' = x, Decoded(c, x) PROVE ReadInv'
  BY <1>1, <1>2, <1>4 DEF ReadInv
<1>5. CASE Registers!AllSendCid
  <2>1. PICK x : x = [next |-> "csd", cid |-> CidOf(c), raw |-> raw, csd |-> csd, capacity |-> capacity, wpGroup |-> wpGroup]
    OBVIOUS
  <2>2. slot3' = x
    <3>1. PICK v : v = Registers!DecodeCid(slot1.kind, Registers!ReadResponse(slot2'))
      OBVIOUS
    <3>2. slot3' = [[r EXCEPT !.next = "csd"] EXCEPT !.cid = v] /\ v = CidOf(c)
      BY <1>1, <1>5, <3>1 DEF Registers!AllSendCid, Shown, CidOf
    <3>3. PICK y : y = [next |-> "csd", cid |-> cid, raw |-> raw, csd |-> csd, capacity |-> capacity, wpGroup |-> wpGroup]
      OBVIOUS
    <3>4. [r EXCEPT !.next = "csd"] = y
      BY ONLY <1>3, <3>3
    <3>5. [y EXCEPT !.cid = v] = x
      BY ONLY <2>1, <3>2, <3>3
    <3>. QED
      BY <3>2, <3>4, <3>5, Zenon
  <2>3. Decoded(c, x)
    BY <2>1 DEF Decoded
  <2>. QED
    BY <1>4, <2>2, <2>3
<1>6. CASE Registers!GetCsd
  <2>1. PICK x : x = [next |-> "decode", cid |-> cid, raw |-> Shown(c.csd), csd |-> csd, capacity |-> capacity, wpGroup |-> wpGroup]
    OBVIOUS
  <2>2. slot3' = x
    <3>1. PICK v : v = Registers!ReadResponse(slot2')
      OBVIOUS
    <3>2. slot3' = [[r EXCEPT !.next = "decode"] EXCEPT !.raw = v] /\ v = Shown(c.csd)
      BY <1>1, <1>6, <3>1 DEF Registers!GetCsd, Shown
    <3>3. PICK y : y = [next |-> "decode", cid |-> cid, raw |-> raw, csd |-> csd, capacity |-> capacity, wpGroup |-> wpGroup]
      OBVIOUS
    <3>4. [r EXCEPT !.next = "decode"] = y
      BY ONLY <1>3, <3>3
    <3>5. [y EXCEPT !.raw = v] = x
      BY ONLY <2>1, <3>2, <3>3
    <3>. QED
      BY <3>2, <3>4, <3>5, Zenon
  <2>3. cid = CidOf(c)
    BY <1>1, <1>3, <1>6 DEF Registers!GetCsd, Decoded
  <2>4. Decoded(c, x)
    BY <2>1, <2>3 DEF Decoded
  <2>. QED
    BY <1>4, <2>2, <2>4
<1>7. CASE Registers!DecodeAndSaveCsd
  <2>1. raw = Shown(c.csd) /\ cid = CidOf(c)
    BY <1>1, <1>3, <1>7 DEF Registers!DecodeAndSaveCsd, Decoded
  <2>2. PICK x : x = [next |-> "done", cid |-> cid, raw |-> raw, csd |-> CsdOf(c), capacity |-> CapacityOf(c), wpGroup |-> GroupOf(c)]
    OBVIOUS
  <2>3. slot3' = x
    <3>1. r.raw = raw /\ raw = Shown(c.csd)
      BY <1>3, <2>1
    <3>20. Registers!Layout(slot1.kind, slot3.raw) = c.kind
      BY <1>1, <3>1, LayoutFound
    <3>2. PICK v : v = Registers!DecodeCsd(c.kind, slot3.raw)
      OBVIOUS
    <3>3. v = CsdOf(c)
      BY <1>1, <3>1, <3>2 DEF CsdOf
    <3>4. slot3' = [[[[r EXCEPT !.next = "done"] EXCEPT !.csd = v] EXCEPT !.capacity = Registers!Capacity(c.kind, v, c.ext.sec)]
                    EXCEPT !.wpGroup = IF c.kind \in {"mmc", "mmcHc"} THEN Registers!WpGroup(v, c.ext) ELSE 0]
      BY <1>1, <1>7, <3>2, <3>20 DEF Registers!DecodeAndSaveCsd
    <3>5. slot3' = [[[[r EXCEPT !.next = "done"] EXCEPT !.csd = CsdOf(c)] EXCEPT !.capacity = CapacityOf(c)] EXCEPT !.wpGroup = GroupOf(c)]
      BY <3>3, <3>4, Zenon DEF CapacityOf, GroupOf
    <3>6. PICK idv, cpv, grv : idv = CsdOf(c) /\ cpv = CapacityOf(c) /\ grv = GroupOf(c)
      OBVIOUS
    <3>7. PICK y1 : y1 = [next |-> "done", cid |-> cid, raw |-> raw, csd |-> csd, capacity |-> capacity, wpGroup |-> wpGroup]
      OBVIOUS
    <3>8. PICK y2 : y2 = [next |-> "done", cid |-> cid, raw |-> raw, csd |-> idv, capacity |-> capacity, wpGroup |-> wpGroup]
      OBVIOUS
    <3>9. PICK y3 : y3 = [next |-> "done", cid |-> cid, raw |-> raw, csd |-> idv, capacity |-> cpv, wpGroup |-> wpGroup]
      OBVIOUS
    <3>10. [r EXCEPT !.next = "done"] = y1
      BY ONLY <1>3, <3>7
    <3>11. [y1 EXCEPT !.csd = idv] = y2
      BY ONLY <3>7, <3>8
    <3>12. [y2 EXCEPT !.capacity = cpv] = y3
      BY ONLY <3>8, <3>9
    <3>13. [y3 EXCEPT !.wpGroup = grv] = x
      BY ONLY <2>2, <3>6, <3>9
    <3>. QED
      BY <3>5, <3>6, <3>10, <3>11, <3>12, <3>13, Zenon
  <2>4. Decoded(c, x)
    BY <2>1, <2>2 DEF Decoded
  <2>. QED
    BY <1>4, <2>3, <2>4
<1>8. CASE UNCHANGED Registers!regVars
  BY <1>1, <1>4, <1>8 DEF Registers!regVars
<1>. QED
  BY <1>5, <1>6, <1>7, <1>8 DEF Registers!RegNext

\* The identity, as the property states it.
CidShown(c, cid) ==
  /\ cid.mid = Registers!Bits(c.cid, 127, 120)
  /\ cid.psn = IF c.kind \in {"sdV1", "sdV2"} THEN Registers!Bits(c.cid, 55, 24)
                                              ELSE Registers!Bits(c.cid, 47, 16)
  /\ \A i \in DOMAIN cid.pnm : cid.pnm[i] = Registers!Bits(c.cid, 103 - 8 * i, 96 - 8 * i)

\* Where the table has letter k of the product's name.
Letter(k) == <<104 - 8 * (k + 1), 8>>

LEMMA CidRead ==
  ASSUME NEW c, RealCard(c), NEW cid, cid = CidOf(c)
  PROVE  CidShown(c, cid)
<1>. DEFINE at == Registers!CidFields(c.kind)
            raw == Shown(c.cid)
            sd == c.kind \in {"sdV1", "sdV2"}
<1>1. PICK reg \in SUBSET ShownBits : reg = c.cid
  BY DEF RealCard
<1>2. /\ cid.mid = Registers!Unpacked(raw, at.mid) /\ cid.psn = Registers!Unpacked(raw, at.psn)
      /\ cid.pnm = [i \in DOMAIN at.pnm |-> Registers!Unpacked(raw, at.pnm[i])]
  <2>. HIDE DEF at, raw
  <2>1. cid = [mid |-> Registers!Unpacked(raw, at.mid), oid |-> Registers!Unpacked(raw, at.oid), prv |-> Registers!Unpacked(raw, at.prv),
               psn |-> Registers!Unpacked(raw, at.psn), pnm |-> [i \in DOMAIN at.pnm |-> Registers!Unpacked(raw, at.pnm[i])]]
    BY Zenon DEF CidOf, Registers!DecodeCid, at, raw
  <2>. QED
    BY ONLY <2>1
<1>3. /\ at.mid = <<120, 8>> /\ at.psn = (IF sd THEN <<24, 32>> ELSE <<16, 32>>)
      /\ at.pnm = [i \in 0..(IF sd THEN 4 ELSE 5) |-> <<104 - 8 * (i + 1), 8>>]
  BY DEF Registers!CidFields
<1>. HIDE DEF at, sd
<1>4. cid.mid = Registers!Bits(c.cid, 127, 120)
  <2>1. Placed(120, 8, 127)
    BY ONLY TRUE DEF Placed
  <2>2. Registers!Unpacked(Shown(reg), <<120, 8>>) = Registers!Bits(reg, 127, 120)
    BY <2>1, FieldRead, Zenon
  <2>. QED
    BY <1>1, <1>2, <1>3, <2>2, Zenon
<1>5. cid.psn = IF sd THEN Registers!Bits(c.cid, 55, 24) ELSE Registers!Bits(c.cid, 47, 16)
  <2>1. Placed(24, 32, 55) /\ Placed(16, 32, 47)
    BY ONLY TRUE DEF Placed
  <2>2. /\ Registers!Unpacked(Shown(reg), <<24, 32>>) = Registers!Bits(reg, 55, 24)
        /\ Registers!Unpacked(Shown(reg), <<16, 32>>) = Registers!Bits(reg, 47, 16)
    BY <2>1, FieldRead, Zenon
  <2>3. CASE sd
    <3>1. at.psn = <<24, 32>>
      BY <1>3, <2>3
    <3>. QED
      BY <1>1, <1>2, <2>2, <2>3, <3>1, Zenon
  <2>4. CASE ~sd
    <3>1. at.psn = <<16, 32>>
      BY <1>3, <2>4
    <3>. QED
      BY <1>1, <1>2, <2>2, <2>4, <3>1, Zenon
  <2>. QED
    BY <2>3, <2>4
<1>6. ASSUME NEW i \in DOMAIN cid.pnm
      PROVE  cid.pnm[i] = Registers!Bits(c.cid, 103 - 8 * i, 96 - 8 * i)
  <2>1. i \in 0..5 /\ i \in DOMAIN at.pnm /\ at.pnm[i] = <<104 - 8 * (i + 1), 8>>
    <3>1. PICK n \in 4..5 : at.pnm = [k \in 0..n |-> Letter(k)]
      <4>1. CASE sd
        BY <1>3, <4>1 DEF Letter
      <4>2. CASE ~sd
        BY <1>3, <4>2 DEF Letter
      <4>. QED
        BY <4>1, <4>2
    <3>2. DOMAIN cid.pnm = DOMAIN at.pnm
      BY <1>2
    <3>3. i \in 0..n
      BY <3>1, <3>2
    <3>4. i \in DOMAIN at.pnm /\ at.pnm[i] = Letter(i)
      BY ONLY <3>1, <3>3
    <3>5. i \in 0..5
      BY ONLY <3>1, <3>3
    <3>. QED
      BY <3>4, <3>5, Zenon DEF Letter
  <2>2. cid.pnm[i] = Registers!Unpacked(raw, at.pnm[i])
    BY <1>2, <2>1
  <2>3. 104 - 8 * (i + 1) = 96 - 8 * i
    BY ONLY <2>1
  <2>4. Placed(96 - 8 * i, 8, 103 - 8 * i)
    BY ONLY <2>1 DEF Placed
  <2>5. Registers!Unpacked(Shown(reg), <<96 - 8 * i, 8>>) = Registers!Bits(reg, 103 - 8 * i, 96 - 8 * i)
    BY <2>4, FieldRead, Zenon
  <2>. QED
    BY <1>1, <2>1, <2>2, <2>3, <2>5, Zenon
<1>. QED
  BY <1>4, <1>5, <1>6, Zenon DEF sd, CidShown

\* A field of the CSD where the table has it.
LEMMA CsdField ==
  ASSUME NEW c, RealCard(c),
         NEW f \in DOMAIN Registers!CsdFields(c.kind), NEW low, NEW len, NEW high,
         Placed(low, len, high), Registers!CsdFields(c.kind)[f] = <<low, len>>
  PROVE  CsdOf(c)[f] = Registers!Bits(c.csd, high, low)
<1>1. PICK reg \in SUBSET ShownBits : reg = c.csd
  BY DEF RealCard
<1>2. CsdOf(c)[f] = Registers!Unpacked(Shown(c.csd), Registers!CsdFields(c.kind)[f])
  BY DEF CsdOf, Registers!DecodeCsd
<1>3. Registers!Unpacked(Shown(reg), <<low, len>>) = Registers!Bits(reg, high, low)
  BY FieldRead, Zenon
<1>. QED
  BY <1>1, <1>2, <1>3, Zenon

\* The fields of the CSD that the driver's decisions rest on.
LEMMA CsdRead ==
  ASSUME NEW c, RealCard(c), NEW csd, csd = CsdOf(c)
  PROVE  /\ csd.perm_wp = Registers!Bits(c.csd, 13, 13) /\ csd.temp_wp = Registers!Bits(c.csd, 12, 12)
         /\ csd.card_cmd_class = Registers!Bits(c.csd, 95, 84)
         /\ c.kind = "sdV2" => csd.c_size = Registers!Bits(c.csd, 69, 48)
         /\ c.kind # "sdV2" => /\ csd.c_size = Registers!Bits(c.csd, 73, 62)
                               /\ csd.c_size_mult = Registers!Bits(c.csd, 49, 47)
                               /\ csd.read_blk_len = Registers!Bits(c.csd, 83, 80)
         /\ c.kind \in {"mmc", "mmcHc"} => /\ csd.wp_grp_size = Registers!Bits(c.csd, 36, 32)
                                           /\ csd.erase_grp_size = Registers!Bits(c.csd, 46, 42)
                                           /\ csd.erase_grp_mult = Registers!Bits(c.csd, 41, 37)
<1>1. PICK kind \in Registers!Kinds : kind = c.kind
  BY DEF RealCard
<1>. DEFINE fields == Registers!CsdFields(c.kind)
<1>2. /\ {"perm_wp", "temp_wp", "card_cmd_class", "c_size"} \subseteq DOMAIN fields
      /\ fields["perm_wp"] = <<13, 1>> /\ fields["temp_wp"] = <<12, 1>> /\ fields["card_cmd_class"] = <<84, 12>>
      /\ kind = "sdV2" => fields["c_size"] = <<48, 22>>
      /\ kind # "sdV2" => /\ {"c_size_mult", "read_blk_len"} \subseteq DOMAIN fields
                          /\ fields["c_size"] = <<62, 12>> /\ fields["c_size_mult"] = <<47, 3>> /\ fields["read_blk_len"] = <<80, 4>>
      /\ kind \in {"mmc", "mmcHc"} =>
            /\ {"wp_grp_size", "erase_grp_size", "erase_grp_mult"} \subseteq DOMAIN fields
            /\ fields["wp_grp_size"] = <<32, 5>> /\ fields["erase_grp_size"] = <<42, 5>> /\ fields["erase_grp_mult"] = <<37, 5>>
  BY <1>1, CsdPlaces, Zenon
<1>3. ASSUME NEW f \in DOMAIN fields, NEW low, NEW len, NEW high, Placed(low, len, high), fields[f] = <<low, len>>
      PROVE  csd[f] = Registers!Bits(c.csd, high, low)
  BY <1>3, CsdField, Zenon
<1>. HIDE DEF fields
<1>4. csd.perm_wp = Registers!Bits(c.csd, 13, 13) /\ csd.temp_wp = Registers!Bits(c.csd, 12, 12)
      /\ csd.card_cmd_class = Registers!Bits(c.csd, 95, 84)
  <2>1. Placed(13, 1, 13) /\ Placed(12, 1, 12) /\ Placed(84, 12, 95)
    BY ONLY TRUE DEF Placed
  <2>2. PICK f, g, h : f = "perm_wp" /\ g = "temp_wp" /\ h = "card_cmd_class"
    OBVIOUS
  <2>3. {f, g, h} \subseteq DOMAIN fields /\ fields[f] = <<13, 1>> /\ fields[g] = <<12, 1>> /\ fields[h] = <<84, 12>>
    BY <1>2, <2>2
  <2>4. csd[f] = Registers!Bits(c.csd, 13, 13) /\ csd[g] = Registers!Bits(c.csd, 12, 12) /\ csd[h] = Registers!Bits(c.csd, 95, 84)
    BY <1>3, <2>1, <2>3
  <2>. QED
    BY <2>2, <2>4
<1>5. ASSUME c.kind = "sdV2" PROVE csd.c_size = Registers!Bits(c.csd, 69, 48)
  <2>1. Placed(48, 22, 69)
    BY ONLY TRUE DEF Placed
  <2>2. PICK f : f = "c_size"
    OBVIOUS
  <2>3. f \in DOMAIN fields /\ fields[f] = <<48, 22>>
    BY <1>1, <1>2, <1>5, <2>2
  <2>4. csd[f] = Registers!Bits(c.csd, 69, 48)
    BY <1>3, <2>1, <2>3
  <2>. QED
    BY <2>2, <2>4
<1>6. ASSUME c.kind # "sdV2"
      PROVE  /\ csd.c_size = Registers!Bits(c.csd, 73, 62)
             /\ csd.c_size_mult = Registers!Bits(c.csd, 49, 47)
             /\ csd.read_blk_len = Registers!Bits(c.csd, 83, 80)
  <2>1. Placed(62, 12, 73) /\ Placed(47, 3, 49) /\ Placed(80, 4, 83)
    BY ONLY TRUE DEF Placed
  <2>2. PICK f, g, h : f = "c_size" /\ g = "c_size_mult" /\ h = "read_blk_len"
    OBVIOUS
  <2>3. {f, g, h} \subseteq DOMAIN fields /\ fields[f] = <<62, 12>> /\ fields[g] = <<47, 3>> /\ fields[h] = <<80, 4>>
    BY <1>1, <1>2, <1>6, <2>2
  <2>4. csd[f] = Registers!Bits(c.csd, 73, 62) /\ csd[g] = Registers!Bits(c.csd, 49, 47) /\ csd[h] = Registers!Bits(c.csd, 83, 80)
    BY <1>3, <2>1, <2>3
  <2>. QED
    BY <2>2, <2>4
<1>7. ASSUME c.kind \in {"mmc", "mmcHc"}
      PROVE  /\ csd.wp_grp_size = Registers!Bits(c.csd, 36, 32)
             /\ csd.erase_grp_size = Registers!Bits(c.csd, 46, 42)
             /\ csd.erase_grp_mult = Registers!Bits(c.csd, 41, 37)
  <2>1. Placed(32, 5, 36) /\ Placed(42, 5, 46) /\ Placed(37, 5, 41)
    BY ONLY TRUE DEF Placed
  <2>2. PICK f, g, h : f = "wp_grp_size" /\ g = "erase_grp_size" /\ h = "erase_grp_mult"
    OBVIOUS
  <2>3. {f, g, h} \subseteq DOMAIN fields /\ fields[f] = <<32, 5>> /\ fields[g] = <<42, 5>> /\ fields[h] = <<37, 5>>
    BY <1>1, <1>2, <1>7, <2>2
  <2>4. csd[f] = Registers!Bits(c.csd, 36, 32) /\ csd[g] = Registers!Bits(c.csd, 46, 42) /\ csd[h] = Registers!Bits(c.csd, 41, 37)
    BY <1>3, <2>1, <2>3
  <2>. QED
    BY <2>2, <2>4
<1>. QED
  BY <1>4, <1>5, <1>6, <1>7

\* The capacity and the group that follow from those fields.
LEMMA CapacityRead ==
  ASSUME NEW c, RealCard(c), NEW capacity, capacity = CapacityOf(c)
  PROVE  /\ c.kind = "sdV2" => capacity = [n |-> {Registers!Num(Registers!Bits(c.csd, 69, 48)) + 1}, shift |-> 19]
         /\ c.kind = "sdV1" => capacity.n = {Registers!SizeOf(Registers!Bits(c.csd, 73, 62), Registers!Bits(c.csd, 49, 47))}
         /\ (c.kind = "mmc" /\ Registers!Bits(c.csd, 73, 62) # 0..11) =>
               capacity = [n |-> {Registers!SizeOf(Registers!Bits(c.csd, 73, 62), Registers!Bits(c.csd, 49, 47))},
                           shift |-> Registers!Num(Registers!Bits(c.csd, 83, 80))]
         /\ (c.kind = "mmcHc" /\ 7 \notin c.ext.sec[4]) =>
               capacity.n = UNION {{8 * (i - 1) + b : b \in c.ext.sec[i]} : i \in 1..4}
<1>1. PICK csd : csd = CsdOf(c)
  OBVIOUS
<1>2. /\ c.kind = "sdV2" => csd.c_size = Registers!Bits(c.csd, 69, 48)
      /\ c.kind # "sdV2" => /\ csd.c_size = Registers!Bits(c.csd, 73, 62)
                            /\ csd.c_size_mult = Registers!Bits(c.csd, 49, 47)
                            /\ csd.read_blk_len = Registers!Bits(c.csd, 83, 80)
  BY <1>1, CsdRead
<1>3. Registers!Blocks(csd) = Registers!SizeOf(csd.c_size, csd.c_size_mult)
  BY DEF Registers!Blocks, Registers!SizeOf
<1>4. capacity = CASE c.kind = "sdV2" -> [n |-> {Registers!Num(csd.c_size) + 1}, shift |-> 19]
                   [] c.kind = "sdV1" -> [n |-> {Registers!Blocks(csd)}, shift |-> IF Registers!Num(csd.read_blk_len) \in 9..11 THEN Registers!Num(csd.read_blk_len) ELSE 9]
                   [] OTHER -> IF csd.c_size # 0..11 THEN [n |-> {Registers!Blocks(csd)}, shift |-> Registers!Num(csd.read_blk_len)]
                                                     ELSE [n |-> Registers!SecCount(c.ext.sec), shift |-> 9]
  BY <1>1, Zenon DEF CapacityOf, Registers!Capacity
<1>5. c.kind = "sdV2" => capacity = [n |-> {Registers!Num(Registers!Bits(c.csd, 69, 48)) + 1}, shift |-> 19]
  BY <1>2, <1>4
<1>6. c.kind = "sdV1" => capacity.n = {Registers!SizeOf(Registers!Bits(c.csd, 73, 62), Registers!Bits(c.csd, 49, 47))}
  BY <1>2, <1>3, <1>4
<1>7. (c.kind = "mmc" /\ Registers!Bits(c.csd, 73, 62) # 0..11) =>
         capacity = [n |-> {Registers!SizeOf(Registers!Bits(c.csd, 73, 62), Registers!Bits(c.csd, 49, 47))},
                     shift |-> Registers!Num(Registers!Bits(c.csd, 83, 80))]
  BY <1>2, <1>3, <1>4
<1>8. ASSUME c.kind = "mmcHc", 7 \notin c.ext.sec[4]
      PROVE  capacity.n = UNION {{8 * (i - 1) + b : b \in c.ext.sec[i]} : i \in 1..4}
  <2>1. Registers!Bits(c.csd, 73, 62) = 0..11
    <3>1. PICK reg \in SUBSET ShownBits : reg = c.csd /\ 62..73 \subseteq reg
      BY <1>8 DEF RealCard
    <3>2. reg \cap (62..73) = 62..73
      BY <3>1
    <3>3. {b - 62 : b \in 62..73} = 0..11
      <4>1. \A x \in 0..11 : x + 62 \in 62..73 /\ x = (x + 62) - 62
        OBVIOUS
      <4>2. \A b \in 62..73 : b - 62 \in 0..11
        OBVIOUS
      <4>. QED
        BY <4>1, <4>2
    <3>. QED
      BY <3>1, <3>2, <3>3 DEF Registers!Bits
  <2>2. capacity.n = Registers!SecCount(c.ext.sec)
    BY <1>2, <1>4, <1>8, <2>1
  <2>3. PICK bytes \in [1..4 -> SUBSET (0..7)] : bytes = c.ext.sec
    BY DEF RealCard
  <2>. QED
    BY <1>8, <2>2, <2>3, SectorsRead
<1>. QED
  BY <1>5, <1>6, <1>7, <1>8

\* The group of a card that keeps the old ones.
LEMMA GroupRead ==
  ASSUME NEW c, RealCard(c), c.kind \in {"mmc", "mmcHc"}, ~c.ext.grpDef
  PROVE  GroupOf(c) = (Registers!Num(Registers!Bits(c.csd, 36, 32)) + 1) * (Registers!Num(Registers!Bits(c.csd, 46, 42)) + 1)
                      * (Registers!Num(Registers!Bits(c.csd, 41, 37)) + 1)
<1>1. PICK csd : csd = CsdOf(c)
  OBVIOUS
<1>2. GroupOf(c) = Registers!WpGroup(csd, c.ext)
  BY <1>1 DEF GroupOf
<1>3. /\ csd.wp_grp_size = Registers!Bits(c.csd, 36, 32) /\ csd.erase_grp_size = Registers!Bits(c.csd, 46, 42)
      /\ csd.erase_grp_mult = Registers!Bits(c.csd, 41, 37)
  BY <1>1, CsdRead
<1>4. Registers!WpGroup(csd, c.ext) = (Registers!Num(csd.wp_grp_size) + 1) * (Registers!Num(csd.erase_grp_size) + 1)
                                       * (Registers!Num(csd.erase_grp_mult) + 1)
  BY DEF Registers!WpGroup
<1>. QED
  BY <1>2, <1>3, <1>4, Zenon

\* The write protect bits and the command classes, the capacity and the group, as the property
\* states them.
BitsShown(card, csd) ==
  /\ csd.perm_wp = Registers!Bits(card.csd, 13, 13) /\ csd.temp_wp = Registers!Bits(card.csd, 12, 12)
  /\ csd.card_cmd_class = Registers!Bits(card.csd, 95, 84)
CapacityShown(card, capacity) ==
  /\ card.kind = "sdV2" => capacity = [n |-> {Registers!Num(Registers!Bits(card.csd, 69, 48)) + 1}, shift |-> 19]
  /\ card.kind = "sdV1" => capacity.n = {Registers!SizeOf(Registers!Bits(card.csd, 73, 62), Registers!Bits(card.csd, 49, 47))}
  /\ (card.kind = "mmc" /\ Registers!Bits(card.csd, 73, 62) # 0..11) =>
        capacity = [n |-> {Registers!SizeOf(Registers!Bits(card.csd, 73, 62), Registers!Bits(card.csd, 49, 47))},
                    shift |-> Registers!Num(Registers!Bits(card.csd, 83, 80))]
  /\ (card.kind = "mmcHc" /\ 7 \notin card.ext.sec[4]) =>
        capacity.n = UNION {{8 * (i - 1) + b : b \in card.ext.sec[i]} : i \in 1..4}
GroupShown(card, wpGroup) ==
  (card.kind \in {"mmc", "mmcHc"} /\ ~card.ext.grpDef) =>
     wpGroup = (Registers!Num(Registers!Bits(card.csd, 36, 32)) + 1) * (Registers!Num(Registers!Bits(card.csd, 46, 42)) + 1)
               * (Registers!Num(Registers!Bits(card.csd, 41, 37)) + 1)

LEMMA CsdShown == ASSUME NEW c, RealCard(c)
  PROVE BitsShown(c, CsdOf(c)) /\ CapacityShown(c, CapacityOf(c)) /\ GroupShown(c, GroupOf(c))
<1>1. BitsShown(c, CsdOf(c))
  BY CsdRead DEF BitsShown
<1>2. CapacityShown(c, CapacityOf(c))
  BY CapacityRead, Zenon DEF CapacityShown
<1>3. GroupShown(c, GroupOf(c))
  BY GroupRead, Zenon DEF GroupShown
<1>. QED
  BY <1>1, <1>2, <1>3

\* The invariant gives the property.
LEMMA RegistersPromise == ASSUME ReadInv PROVE Registers!RegistersRead
<1>1. PICK c, r : slot1 = c /\ slot3 = r /\ RealCard(c) /\ Decoded(c, r)
  BY DEF ReadInv
<1>2. ASSUME r.next # "cid" PROVE CidShown(c, r.cid)
  <2>1. PICK cid : cid = r.cid /\ cid = CidOf(c)
    BY <1>1, <1>2 DEF Decoded
  <2>. QED
    BY <1>1, <2>1, CidRead
<1>3. ASSUME r.next = "done" PROVE BitsShown(c, r.csd) /\ CapacityShown(c, r.capacity) /\ GroupShown(c, r.wpGroup)
  BY <1>1, <1>3, CsdShown DEF Decoded
<1>4. slot3.next # "cid" => CidShown(slot1, slot3.cid)
  BY <1>1, <1>2
<1>5. slot3.next = "done" => BitsShown(slot1, slot3.csd) /\ CapacityShown(slot1, slot3.capacity) /\ GroupShown(slot1, slot3.wpGroup)
  BY <1>1, <1>3
<1>. QED
  BY <1>4, <1>5, Zenon DEF CidShown, BitsShown, CapacityShown, GroupShown, Registers!RegistersRead, Registers!Card

\* In MCDrivers the identity, the capacity, the write protect bits and the write protect group that
\* the driver decodes are those of the card's own registers (sdhci_cmd_complete, UNPACK_BITS,
\* mmc_decode_and_save_cid, mmc_decode_and_save_csd).
THEOREM RegistersAreRead == Spec => []RegistersRead
<1>1. Init => RegistersPart
  BY RegistersStart DEF Init, RegistersPart
<1>2. ASSUME RegistersPart, [Next]_vars PROVE RegistersPart'
  <2>1. SUFFICES ASSUME part = "registers" PROVE ReadInv'
    BY <1>2, PartStays DEF RegistersPart
  <2>2. [Registers!RegNext]_(Registers!regVars)
    BY <1>2, <2>1 DEF Next, vars, Registers!regVars
  <2>. QED
    BY <1>2, <2>1, <2>2, RegistersStep DEF RegistersPart
<1>3. RegistersPart => RegistersRead
  BY RegistersPromise DEF RegistersPart, RegistersRead
<1>. QED
  BY <1>1, <1>2, <1>3, PTL DEF Spec
=============================================================================
