SPECIFICATION BltSpec
CONSTANTS
  p1 = p1
  p2 = p2
  p3 = p3
  none = none
  g1 = g1
  summary = summary
  smd = smd
  con1 = con1
  con2 = con2
  ClockClients = {"sdc1_core_clk", "uart1_core_clk", "uart1_iface_clk", "blsp1_qup4_ahb_iface_clk", "gcc_blsp1_qup4_i2c_apps_clk", "usb_core_clk", "mdss_mdp_clk_src", "mdss_esc0_clk", "sdc2_iface_clk", "ce1_src_clk"}
  SpmiCommands = 2
  PmicCalls = 1
  PmicFailures = 1
  ClockCalls = 3
  I2cFaults = 2
  GpioCalls = 4
  PointerCalls = 5
  TextCalls = 5
  TextFailures = 1
  Transfers = 3
  BusErrors = 1
  BltCalls = 2
  MaintenanceCalls = 2
  CommandFaults = 1
  BindingCalls = 4
  BindingFaults = 2
  MaxWriters = 2
CHECK_DEADLOCK FALSE
INVARIANTS
  MoveExact
