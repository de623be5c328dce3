------------------------------ MODULE SmdChannel ------------------------------
(***************************************************************************)
(* The life of the SMD channel between the application processor ("apps")  *)
(* and the RPM, as Drivers/SmdRpmDxe/smd.c and Driver.c drive it.          *)
(*                                                                         *)
(* Three actors share the port's two control blocks:                       *)
(*   - the boot thread: smd_init, the first request, then either           *)
(*     smd_uninit or, at ExitBootServices, smd_uninit_exit_bs;             *)
(*   - smd_irq_handler, which preempts the boot thread between any two of  *)
(*     its accesses to shared state and runs to completion (TPL_HIGH);     *)
(*   - the RPM, another processor, external to this repository.            *)
(*                                                                         *)
(* ch0 is the half written by apps, ch1 the half written by the RPM.  The  *)
(* FIFO indices the same blocks hold are the subject of RpmRequest.        *)
(***************************************************************************)
EXTENDS Naturals

CONSTANTS
  MaxPolls,           \* SMD_CHANNEL_ACCESS_RETRY, made small
  MaxTicks,           \* polls of smd_uninit_exit_bs before it gives up, made small
  RemoteStart         \* states in which the RPM may have left its half

StreamStates == {"CLOSED", "OPENING", "OPENED", "FLUSHING", "CLOSING"}

ASSUME ParametersAssumption ==
  /\ MaxPolls \in Nat \ {0}
  /\ MaxTicks \in Nat
  /\ RemoteStart \subseteq {"CLOSED", "OPENING", "CLOSING"}

\* How the image is configured and what RPM it meets; chosen once.
Settings ==
  [protocol : BOOLEAN, \* PcdInstallRpmProtocol: keep the channel until ExitBootServices
   closes   : BOOLEAN, \* the RPM may close on its own once smd_init has returned
   skips    : BOOLEAN, \* it may go to OPENED or CLOSED without the state between
   ignores  : BOOLEAN] \* "RPM does not always ack the channel close"

VARIABLES
  setting,        \* one of Settings
  ch0,            \* port_info->ch0.stream_state
  ch1,            \* port_info->ch1.stream_state
  current_state,  \* ch->current_state
  pc,             \* where the boot thread is
  call,           \* the call of smd_set_state the boot thread is inside of
  seen,           \* its local current_state: ch0.stream_state as it was read
  polls,          \* timeout of smd_init's two loops
  ticks,          \* TimeoutCount of smd_uninit_exit_bs
  opened,         \* smd_init has reported that the channel is OPENED
  tableReady,     \* the RPM has published the channel in the SMEM table
  smd_closed,     \* the event: "null", "waiting" or "signalled"
  exit_bs,        \* smd_exit_bs_in_progress
  freed,          \* smd_channel_alloc_freed
  unmasked,       \* the SMD interrupt is enabled at the interrupt controller
  appsIrq,        \* an interrupt from the RPM is pending
  rpmIrq          \* the RPM has been notified and has not gone idle yet

shared == <<ch0, ch1, current_state>>
thread == <<pc, call, seen, polls, ticks, opened>>
events == <<smd_closed, exit_bs, freed>>
irqs   == <<unmasked, appsIrq, rpmIrq>>
vars   == <<setting, shared, thread, tableReady, events, irqs>>

PCs == {"find", "unmask", "poll", "send", "running", "ss_read", "ss_write", "ss_done",
        "notify", "wait_event", "wait_exit", "released", "timed_out", "asserted"}
Calls == [state : StreamStates, ret : {"poll", "notify"}]

Init ==
  /\ setting \in Settings
  /\ ch0 = "CLOSED"
  /\ ch1 \in RemoteStart
  /\ current_state = "CLOSED"
  /\ pc = "find"
  /\ call = [state |-> "CLOSED", ret |-> "poll"]
  /\ seen = "CLOSED"
  /\ polls = MaxPolls
  /\ ticks = 0
  /\ opened = FALSE
  /\ tableReady = FALSE
  /\ smd_closed = "null"
  /\ exit_bs = FALSE
  /\ freed = FALSE
  /\ unmasked = FALSE
  /\ appsIrq = FALSE
  /\ rpmIrq = FALSE

-----------------------------------------------------------------------------
(* Names ending in Mutant are the definition that follows them with a        *)
(* mistake its properties are to catch; no action uses them.                *)

\* smd_set_state: what it leaves in ch0.stream_state when it has read old there and
\* is asked for CLOSED, ...
AfterClosedMutant(old) == IF old \in {"OPENED", "CLOSING"} THEN "CLOSING" ELSE "CLOSED"
AfterClosed(old) == IF old = "OPENED" THEN "CLOSING" ELSE "CLOSED"

\* ... for OPENED, ...
AfterOpenedMutant(old) == "OPENED"
AfterOpened(old) == IF old = "OPENING" THEN "OPENED" ELSE old

\* ... and for any state.
NextStream(old, state) ==
  IF state = "CLOSED" THEN AfterClosed(old)
  ELSE IF state = "OPENED" THEN AfterOpened(old)
  ELSE IF state = "OPENING" /\ old \in {"CLOSING", "CLOSED"} THEN "OPENING"
  ELSE IF state = "CLOSING" /\ old = "OPENED" THEN "CLOSING"
  ELSE old

\* Whether that is a write at all: smd_write_state is called only in these cases.
WritesStream(old, state) == state = "CLOSED" \/ NextStream(old, state) # old

-----------------------------------------------------------------------------
(* The boot thread.                                                         *)

\* The channel is in the table: register the handler (still masked), ask for
\* OPENING and notify the RPM.  The last permitted attempt asserts even when it
\* finds the channel, because only the counter is looked at after the loop.
FindChannel ==
  /\ pc = "find"
  /\ tableReady
  /\ polls > 1
  /\ ch0' = NextStream(ch0, "OPENING")
  /\ current_state' = "OPENING"
  /\ rpmIrq' = TRUE
  /\ pc' = "unmask"
  /\ polls' = MaxPolls
  /\ UNCHANGED <<ch1, call, seen, ticks, opened, tableReady, setting, events, unmasked, appsIrq>>

RetryFind ==
  /\ pc = "find"
  /\ ~tableReady
  /\ polls > 1
  /\ polls' = polls - 1
  /\ UNCHANGED <<shared, pc, call, seen, ticks, opened, tableReady, setting, events, irqs>>

FindTimesOut ==
  /\ pc = "find"
  /\ polls = 1
  /\ polls' = 0
  /\ pc' = "asserted"
  /\ UNCHANGED <<shared, call, seen, ticks, opened, tableReady, setting, events, irqs>>

UnmaskInterrupt ==
  /\ pc = "unmask"
  /\ unmasked' = TRUE
  /\ pc' = "poll"
  /\ UNCHANGED <<shared, call, seen, polls, ticks, opened, tableReady, setting, events, appsIrq, rpmIrq>>

\* One turn of the polling loop that found the two sides apart: smd_set_state is
\* entered with the state of the remote half as it is now.
PollChange ==
  /\ pc = "poll"
  /\ current_state # "OPENED"
  /\ polls > 0
  /\ current_state # ch1
  /\ call' = [state |-> ch1, ret |-> "poll"]
  /\ polls' = polls - 1
  /\ pc' = "ss_read"
  /\ UNCHANGED <<shared, seen, ticks, opened, tableReady, setting, events, irqs>>

PollAgain ==
  /\ pc = "poll"
  /\ current_state # "OPENED"
  /\ polls > 0
  /\ current_state = ch1
  /\ polls' = polls - 1
  /\ UNCHANGED <<shared, pc, call, seen, ticks, opened, tableReady, setting, events, irqs>>

\* smd_init returns, having said whether the channel reached OPENED.
SeesOpenedMutant == ch1 = "OPENED"
SeesOpened == current_state = "OPENED"

PollEnds ==
  /\ pc = "poll"
  /\ SeesOpened \/ polls = 0
  /\ opened' = SeesOpened
  /\ pc' = "send"
  /\ UNCHANGED <<shared, call, seen, polls, ticks, tableReady, setting, events, irqs>>

\* rpm_5vsw_enable sends its request whether or not the channel is open (RpmRequest
\* has what happens to it) and, whatever came of it, smd_signal_read_complete
\* notifies the RPM.  The call stands inside ASSERT, which a RELEASE build drops.
SendFirstRequest ==
  /\ pc = "send"
  /\ rpmIrq' \in {TRUE, rpmIrq}
  /\ pc' = "running"
  /\ UNCHANGED <<shared, call, seen, polls, ticks, opened, tableReady, setting, events, unmasked, appsIrq>>

\* smd_uninit: create the event and enter smd_set_state(CLOSING).
Uninit ==
  /\ pc = "running"
  /\ ~setting.protocol
  /\ smd_closed' = "waiting"
  /\ call' = [state |-> "CLOSING", ret |-> "notify"]
  /\ pc' = "ss_read"
  /\ UNCHANGED <<shared, seen, polls, ticks, opened, tableReady, setting, exit_bs, freed, irqs>>

\* smd_uninit_exit_bs, from RpmDxeDeInitialize.  The interrupt controller has its
\* own ExitBootServices notification: it may already have masked everything.
UninitExitBs ==
  /\ pc = "running"
  /\ setting.protocol
  /\ exit_bs' = TRUE
  /\ unmasked' \in BOOLEAN
  /\ call' = [state |-> "CLOSING", ret |-> "notify"]
  /\ pc' = "ss_read"
  /\ UNCHANGED <<shared, seen, polls, ticks, opened, tableReady, setting, smd_closed, freed, appsIrq, rpmIrq>>

\* smd_set_state, called by the boot thread, in the steps the interrupt can separate.
SetStateRead ==
  /\ pc = "ss_read"
  /\ seen' = ch0
  /\ pc' = "ss_write"
  /\ UNCHANGED <<shared, call, polls, ticks, opened, tableReady, setting, events, irqs>>

SetStateWrite ==
  /\ pc = "ss_write"
  /\ ch0' = IF WritesStream(seen, call.state) THEN NextStream(seen, call.state) ELSE ch0
  /\ pc' = "ss_done"
  /\ UNCHANGED <<ch1, current_state, call, seen, polls, ticks, opened, tableReady, setting, events, irqs>>

SetStateFinish ==
  /\ pc = "ss_done"
  /\ current_state' = call.state
  /\ pc' = call.ret
  /\ UNCHANGED <<ch0, ch1, call, seen, polls, ticks, opened, tableReady, setting, events, irqs>>

NotifyClosing ==
  /\ pc = "notify"
  /\ rpmIrq' = TRUE
  /\ pc' = IF exit_bs THEN "wait_exit" ELSE "wait_event"
  /\ UNCHANGED <<shared, call, seen, polls, ticks, opened, tableReady, setting, events, unmasked, appsIrq>>

\* WaitForEvent returns once the handler has signalled the event.
EventArrives ==
  /\ pc = "wait_event"
  /\ smd_closed = "signalled"
  /\ pc' = "released"
  /\ UNCHANGED <<shared, call, seen, polls, ticks, opened, tableReady, setting, events, irqs>>

ExitReleased ==
  /\ pc = "wait_exit"
  /\ freed
  /\ pc' = "released"
  /\ UNCHANGED <<shared, call, seen, polls, ticks, opened, tableReady, setting, events, irqs>>

TimesOutMutant == ticks > MaxTicks + 1
TimesOut == ticks > MaxTicks
Tick == ticks + 1

ExitTick ==
  /\ pc = "wait_exit"
  /\ ~freed
  /\ ~TimesOut
  /\ ticks' = Tick
  /\ UNCHANGED <<shared, pc, call, seen, polls, opened, tableReady, setting, events, irqs>>

ExitTimesOut ==
  /\ pc = "wait_exit"
  /\ ~freed
  /\ TimesOut
  /\ pc' = "timed_out"
  /\ UNCHANGED <<shared, call, seen, polls, ticks, opened, tableReady, setting, events, irqs>>

BootThread ==
  \/ FindChannel \/ RetryFind \/ FindTimesOut \/ UnmaskInterrupt
  \/ PollChange \/ PollAgain \/ PollEnds \/ SendFirstRequest
  \/ Uninit \/ UninitExitBs
  \/ SetStateRead \/ SetStateWrite \/ SetStateFinish \/ NotifyClosing
  \/ EventArrives \/ ExitReleased \/ ExitTick \/ ExitTimesOut

-----------------------------------------------------------------------------
(* smd_irq_handler.                                                         *)

TakesInterrupt ==
  /\ appsIrq
  /\ unmasked
  /\ appsIrq' = FALSE

\* The channel is already CLOSED: tell whoever waits.  SignalEvent on the null event
\* is refused by the firmware and changes nothing.
HandlerWhenClosed ==
  /\ TakesInterrupt
  /\ current_state = "CLOSED"
  /\ smd_closed' = IF exit_bs \/ smd_closed = "null" THEN smd_closed ELSE "signalled"
  /\ freed' = TRUE
  /\ UNCHANGED <<shared, thread, tableReady, setting, exit_bs, unmasked, rpmIrq>>

\* Follow the remote half; a remote CLOSING is answered with CLOSED at once, told to
\* the RPM, and taken for the release of the channel.
AnswersMutant == FALSE
Answers == ch1 = "CLOSING"
Releases == ch1 = "CLOSING"

HandlerFollows ==
  /\ TakesInterrupt
  /\ current_state # "CLOSED"
  /\ LET followed == IF current_state # ch1 THEN NextStream(ch0, ch1) ELSE ch0
     IN  /\ ch0' = IF ch1 = "CLOSING" THEN NextStream(followed, "CLOSED") ELSE followed
         /\ current_state' = IF ch1 = "CLOSING" THEN "CLOSED" ELSE ch1
  /\ rpmIrq' = (rpmIrq \/ Answers)
  /\ freed' = (freed \/ Releases)
  /\ UNCHANGED <<ch1, thread, tableReady, setting, smd_closed, exit_bs, unmasked>>

InterruptHandler == HandlerWhenClosed \/ HandlerFollows

-----------------------------------------------------------------------------
(* The RPM, as the code above expects it to behave (external).              *)

\* States the RPM may move its half to when it looks at both halves.
RpmMoves ==
  {to \in StreamStates :
     \/ ch1 = "CLOSED" /\ ch0 = "OPENING" /\ (to = "OPENING" \/ (setting.skips /\ to = "OPENED"))
     \/ ch1 = "OPENING" /\ ch0 \in {"OPENING", "OPENED"} /\ to = "OPENED"
     \/ ch1 = "OPENED" /\ ch0 \in {"CLOSING", "CLOSED"} /\ (to = "CLOSING" \/ (setting.skips /\ to = "CLOSED"))
     \/ ch1 = "FLUSHING" /\ to = "CLOSING"
     \/ ch1 = "CLOSING" /\ ch0 = "CLOSED" /\ to = "CLOSED"}

RpmPublishesChannel ==
  /\ ~tableReady
  /\ tableReady' = TRUE
  /\ UNCHANGED <<setting, shared, thread, events, irqs>>

RpmAnswers ==
  /\ rpmIrq
  /\ ch1' \in RpmMoves
  /\ appsIrq' = TRUE
  /\ UNCHANGED <<ch0, current_state, thread, tableReady, setting, events, unmasked, rpmIrq>>

RpmGoesIdle ==
  /\ rpmIrq
  /\ RpmMoves = {} \/ (setting.ignores /\ ch0 \in {"CLOSING", "CLOSED"})
  /\ rpmIrq' = FALSE
  /\ UNCHANGED <<shared, thread, tableReady, setting, events, unmasked, appsIrq>>

\* The acknowledgement of a request, or any other use of the shared interrupt line.
RpmInterrupts ==
  /\ ch1 # "CLOSED"
  /\ tableReady
  /\ appsIrq' = TRUE
  /\ UNCHANGED <<shared, thread, tableReady, setting, events, unmasked, rpmIrq>>

\* smd_init has returned.
InitDone == pc \notin {"find", "unmask", "poll"} /\ (pc \in {"ss_read", "ss_write", "ss_done"} => call.ret = "notify")

RpmStartsClose ==
  /\ setting.closes /\ InitDone
  /\ ch1 = "OPENED"
  /\ ch1' \in {"FLUSHING", "CLOSING"}
  /\ appsIrq' = TRUE
  /\ rpmIrq' = TRUE
  /\ UNCHANGED <<ch0, current_state, thread, tableReady, setting, events, unmasked>>

Rpm == RpmPublishesChannel \/ RpmAnswers \/ RpmGoesIdle \/ RpmInterrupts \/ RpmStartsClose

Next == BootThread \/ InterruptHandler \/ Rpm

Spec == Init /\ [][Next]_vars

\* The boot thread is the only thread and always runs on; a pending interrupt is
\* taken once it is unmasked.
FairSpec == Spec /\ WF_vars(BootThread) /\ WF_vars(InterruptHandler)

\* An RPM that is up publishes its channel and answers what it is told.
RpmIsUp == WF_vars(RpmPublishesChannel) /\ WF_vars(RpmAnswers) /\ WF_vars(RpmGoesIdle)

-----------------------------------------------------------------------------
TypeOK ==
  /\ setting \in Settings
  /\ {ch0, ch1, current_state, seen} \subseteq StreamStates
  /\ pc \in PCs
  /\ call \in Calls
  /\ polls \in 0..MaxPolls
  /\ ticks \in 0..(MaxTicks + 1)
  /\ smd_closed \in {"null", "waiting", "signalled"}
  /\ {opened, tableReady, exit_bs, freed, unmasked, appsIrq, rpmIrq} \subseteq BOOLEAN


\* When smd_init says "RPM SMD channel OPENED" (smd.c:182) the half that smd_write
\* looks at is OPENED: the report is made from current_state, a copy that both the
\* boot thread and the handler write.
OpenedReportIsTrue == [][PollEnds /\ opened' => ch0 = "OPENED"]_vars

\* smd_channel_alloc_freed, which ends the wait of smd_uninit_exit_bs, is up only
\* when the half the operating system inherits is CLOSED, and stays so: no later
\* interrupt and no late write of the boot thread takes the half out of CLOSED, as
\* long as the RPM closes only when it is asked to.
FreedMeansClosed == freed /\ ~setting.closes => ch0 = "CLOSED"

\* The wait for the close that ExitBootServices makes ends, whatever the RPM does, and
\* smd_uninit's unbounded wait ends when an RPM that is up, answers every close and
\* skips no state has yet to see the CLOSING as the wait starts.
Answering == ~(setting.closes \/ setting.skips \/ setting.ignores)
CloseEnds ==
  /\ pc = "wait_exit" ~> pc \in {"released", "timed_out"}
  /\ RpmIsUp =>
    ((Answering /\ pc = "wait_event" /\ current_state = "CLOSING"
       /\ ch0 = "CLOSING" /\ ch1 = "OPENED" /\ rpmIrq) ~> pc = "released")

\* The two halves keep the promise of SmdLink, as long as the RPM closes only when it
\* is asked to.
Link == INSTANCE SmdLink WITH local <- ch0, remote <- ch1
ImplementsLink == Link!Init /\ [][setting.closes \/ Link!Next]_<<ch0, ch1>>

=============================================================================
