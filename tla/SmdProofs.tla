------------------------------ MODULE SmdProofs ------------------------------
(***************************************************************************)
(* SmdChannel keeps its type, whatever the RPM does; and with an RPM that  *)
(* is at OPENING when the driver starts, smd_init's report is true and, as *)
(* long as the RPM closes only when it is asked to, freed means CLOSED and *)
(* the two halves implement SmdLink, for every length of the polling loops *)
(* and at every interleaving of the boot thread, the handler and the RPM.  *)
(* Over a channel that is open, requests arrive whole and acknowledgements *)
(* find the calls they are for, for every size of ring and message.        *)
(***************************************************************************)
EXTENDS MCSmd, Integers, Sequences, TLAPS

\* What the theorems but the first assume of the RPM's half at the start.
Orderly == RemoteStart = {"OPENING"}

Open == {"OPENING", "OPENED"}
Shut == {"CLOSING", "CLOSED"}

\* The boot thread is inside of smd_set_state.
Setting == pc \in {"ss_read", "ss_write", "ss_done"}

\* The channel's life in three parts: not asked for yet, up to the write of CLOSING,
\* and from there on.
Before == pc \in {"find", "asserted"}
Early  == \/ pc \in {"unmask", "poll", "send", "running", "ss_read", "ss_write"}
          \/ pc = "ss_done" /\ call.ret = "poll"
Late   == \/ pc \in {"notify", "wait_event", "wait_exit", "released", "timed_out"}
          \/ pc = "ss_done" /\ call.ret = "notify"

BeforeInv == Before =>
  ch0 = "CLOSED" /\ ch1 = "OPENING" /\ current_state = "CLOSED" /\ ~freed /\ ~unmasked /\ ~rpmIrq

\* What the boot thread carries through smd_set_state still fits the halves.
SettingInv == Setting =>
  /\ call.ret = "poll" => /\ call.state \in Open
                          /\ call.state = "OPENED" => ch1 = "OPENED"
  /\ call.ret = "notify" => call.state = "CLOSING"
  /\ pc = "ss_write" => seen \in Open /\ (seen = "OPENED" => ch0 = "OPENED")
  /\ pc = "ss_done" /\ call.ret = "poll" /\ call.state = "OPENED" => ch0 = "OPENED"

EarlyInv == Early =>
  /\ ch0 \in Open /\ ch1 \in Open /\ current_state \in Open
  /\ ch0 = "OPENED" => ch1 = "OPENED"
  /\ current_state = "OPENED" => ch0 = "OPENED"
  /\ ~freed

LateInv == Late =>
  /\ ch0 \in Open \cup Shut /\ ch1 \in Open \cup Shut
  /\ ch0 = "OPENED" => ch1 = "OPENED"
  /\ ch1 \in Shut => ch0 \in Shut
  /\ ch0 \in Shut => ch1 # "OPENING"
  /\ current_state = "CLOSED" => ch0 = "CLOSED"
  /\ freed => ch0 = "CLOSED"

\* It holds of an RPM that closes only when it is asked to, and up to the end of
\* smd_init of any RPM.
Phases == BeforeInv /\ SettingInv /\ EarlyInv /\ LateInv
IInv == TypeOK /\ ((InitDone /\ setting.closes) \/ Phases)

-----------------------------------------------------------------------------
(* Type correctness.                                                        *)

LEMMA TypeInit == ASSUME Init PROVE TypeOK
<1>1. polls \in 0..MaxPolls /\ ticks \in 0..(MaxTicks + 1)
  BY ParametersAssumption DEF ParametersAssumption, Init
<1>2. {ch0, ch1, current_state, seen} \subseteq StreamStates
  BY ParametersAssumption DEF ParametersAssumption, Init, StreamStates
<1>3. call \in Calls
  BY DEF Init, Calls, StreamStates
<1>. QED
  BY <1>1, <1>2, <1>3 DEF Init, TypeOK, PCs

LEMMA TypeStep == ASSUME TypeOK, [Next]_vars PROVE TypeOK'
<1>. USE DEF TypeOK, PCs, Calls, StreamStates, vars, shared, thread, events, irqs
<1>1. CASE FindChannel
  BY <1>1, ParametersAssumption DEF ParametersAssumption, FindChannel, NextStream, AfterClosed,
         AfterOpened
<1>2. CASE RetryFind
  BY <1>2, ParametersAssumption DEF ParametersAssumption, RetryFind
<1>3. CASE FindTimesOut
  BY <1>3, ParametersAssumption DEF ParametersAssumption, FindTimesOut
<1>4. CASE UnmaskInterrupt
  BY <1>4 DEF UnmaskInterrupt
<1>5. CASE PollChange
  BY <1>5, ParametersAssumption DEF ParametersAssumption, PollChange
<1>6. CASE PollAgain
  BY <1>6, ParametersAssumption DEF ParametersAssumption, PollAgain
<1>7. CASE PollEnds
  BY <1>7 DEF PollEnds, SeesOpened
<1>8. CASE SendFirstRequest
  BY <1>8 DEF SendFirstRequest
<1>9. CASE Uninit
  BY <1>9 DEF Uninit
<1>10. CASE UninitExitBs
  BY <1>10 DEF UninitExitBs
<1>11. CASE SetStateRead
  BY <1>11 DEF SetStateRead
<1>12. CASE SetStateWrite
  BY <1>12 DEF SetStateWrite, WritesStream, NextStream, AfterClosed, AfterOpened
<1>13. CASE SetStateFinish
  BY <1>13 DEF SetStateFinish
<1>14. CASE NotifyClosing
  BY <1>14 DEF NotifyClosing
<1>15. CASE EventArrives
  BY <1>15 DEF EventArrives
<1>16. CASE ExitReleased
  BY <1>16 DEF ExitReleased
<1>17. CASE ExitTick
  BY <1>17, ParametersAssumption DEF ParametersAssumption, ExitTick, Tick, TimesOut
<1>18. CASE ExitTimesOut
  BY <1>18 DEF ExitTimesOut, TimesOut
<1>19. CASE HandlerWhenClosed
  BY <1>19 DEF HandlerWhenClosed, TakesInterrupt
<1>20. CASE HandlerFollows
  BY <1>20 DEF HandlerFollows, NextStream, AfterClosed, AfterOpened, TakesInterrupt, Answers, Releases
<1>21. CASE RpmPublishesChannel
  BY <1>21 DEF RpmPublishesChannel
<1>22. CASE RpmAnswers
  BY <1>22 DEF RpmAnswers, RpmMoves
<1>23. CASE RpmGoesIdle
  BY <1>23 DEF RpmGoesIdle, RpmMoves
<1>24. CASE RpmInterrupts
  BY <1>24 DEF RpmInterrupts
<1>25. CASE RpmStartsClose
  BY <1>25 DEF RpmStartsClose
<1>26. CASE UNCHANGED vars
  BY <1>26
<1>. QED
  BY <1>1, <1>2, <1>3, <1>4, <1>5, <1>6, <1>7, <1>8, <1>9, <1>10, <1>11, <1>12, <1>13, <1>14, <1>15,
         <1>16, <1>17, <1>18, <1>19, <1>20, <1>21, <1>22, <1>23, <1>24, <1>25, <1>26 DEF Next,
         BootThread, InterruptHandler, Rpm

\* The types hold for every RPM and every bound.
THEOREM TypeCorrect == Spec => []TypeOK
BY TypeInit, TypeStep, PTL DEF Spec

-----------------------------------------------------------------------------
(* The inductive invariant.                                                 *)

LEMMA InvInit == ASSUME Orderly, Init PROVE IInv
<1>1. TypeOK
  BY TypeInit
<1>2. Phases
  BY DEF Orderly, Phases, Init, BeforeInv, SettingInv, EarlyInv, LateInv, Before, Early, Late, Setting
<1>. QED
  BY <1>1, <1>2 DEF IInv

\* Once smd_init has returned it has returned, and nothing changes the setting.
LEMMA DoneStays == ASSUME TypeOK, InitDone, [Next]_vars PROVE InitDone'
<1>. USE DEF InitDone
<1>1. CASE \/ FindChannel \/ RetryFind \/ FindTimesOut \/ UnmaskInterrupt \/ PollChange \/ PollAgain
           \/ PollEnds
  BY <1>1 DEF FindChannel, RetryFind, FindTimesOut, UnmaskInterrupt, PollChange, PollAgain, PollEnds
<1>2. CASE SendFirstRequest \/ Uninit \/ UninitExitBs
  <2>1. pc' = "running" \/ (pc' = "ss_read" /\ call' = [state |-> "CLOSING", ret |-> "notify"])
    BY ONLY <1>2 DEF SendFirstRequest, Uninit, UninitExitBs
  <2>. QED
    BY ONLY <2>1
<1>3. CASE SetStateRead \/ SetStateWrite \/ SetStateFinish \/ NotifyClosing
  BY <1>3 DEF TypeOK, Calls, SetStateRead, SetStateWrite, SetStateFinish, NotifyClosing
<1>4. CASE EventArrives \/ ExitReleased \/ ExitTick \/ ExitTimesOut
  BY <1>4 DEF EventArrives, ExitReleased, ExitTick, ExitTimesOut
<1>5. CASE InterruptHandler \/ Rpm \/ UNCHANGED vars
  BY <1>5 DEF InterruptHandler, Rpm, vars, thread, HandlerWhenClosed, HandlerFollows,
              RpmPublishesChannel, RpmAnswers, RpmGoesIdle, RpmInterrupts, RpmStartsClose
<1>. QED
  BY <1>1, <1>2, <1>3, <1>4, <1>5 DEF Next, BootThread

LEMMA SettingStays == ASSUME [Next]_vars PROVE setting' = setting
BY DEF Next, BootThread, InterruptHandler, Rpm, vars,
       FindChannel, RetryFind, FindTimesOut, UnmaskInterrupt, PollChange, PollAgain, PollEnds,
       SendFirstRequest, Uninit, UninitExitBs, SetStateRead, SetStateWrite, SetStateFinish,
       NotifyClosing, EventArrives, ExitReleased, ExitTick, ExitTimesOut, HandlerWhenClosed,
       HandlerFollows, RpmPublishesChannel, RpmAnswers, RpmGoesIdle, RpmInterrupts,
       RpmStartsClose

LEMMA PhasesStep ==
  ASSUME TypeOK, Phases, ~(InitDone /\ setting.closes), [Next]_vars
  PROVE  Phases'
<1>. USE DEF Phases, BeforeInv, SettingInv, EarlyInv, LateInv, Before, Early, Late, Setting, Open,
             Shut, TypeOK, PCs, Calls, StreamStates, vars, shared, thread, events, irqs
<1>1. ASSUME FindChannel PROVE Phases'
  BY <1>1 DEF FindChannel, NextStream, AfterClosed, AfterOpened
<1>2. ASSUME RetryFind PROVE Phases'
  BY <1>2 DEF RetryFind
<1>3. ASSUME FindTimesOut PROVE Phases'
  BY <1>3 DEF FindTimesOut
<1>4. ASSUME UnmaskInterrupt PROVE Phases'
  BY <1>4 DEF UnmaskInterrupt
<1>5. ASSUME PollChange PROVE Phases'
  BY <1>5 DEF PollChange
<1>6. ASSUME PollAgain PROVE Phases'
  BY <1>6 DEF PollAgain
<1>7. ASSUME PollEnds PROVE Phases'
  BY <1>7 DEF PollEnds, SeesOpened
<1>8. ASSUME SendFirstRequest PROVE Phases'
  BY <1>8 DEF SendFirstRequest
<1>9. ASSUME Uninit PROVE Phases'
  BY <1>9 DEF Uninit
<1>10. ASSUME UninitExitBs PROVE Phases'
  BY <1>10 DEF UninitExitBs
<1>11. ASSUME SetStateRead PROVE Phases'
  BY <1>11 DEF SetStateRead
<1>12. ASSUME SetStateWrite PROVE Phases'
  BY <1>12 DEF SetStateWrite, WritesStream, NextStream, AfterClosed, AfterOpened
<1>13. ASSUME SetStateFinish PROVE Phases'
  BY <1>13 DEF SetStateFinish
<1>14. ASSUME NotifyClosing PROVE Phases'
  BY <1>14 DEF NotifyClosing
<1>15. ASSUME EventArrives PROVE Phases'
  BY <1>15 DEF EventArrives
<1>16. ASSUME ExitReleased PROVE Phases'
  BY <1>16 DEF ExitReleased
<1>17. ASSUME ExitTick PROVE Phases'
  BY <1>17 DEF ExitTick, Tick, TimesOut
<1>18. ASSUME ExitTimesOut PROVE Phases'
  BY <1>18 DEF ExitTimesOut, TimesOut
<1>19. ASSUME HandlerWhenClosed PROVE Phases'
  BY <1>19 DEF HandlerWhenClosed, TakesInterrupt
<1>20. ASSUME HandlerFollows PROVE Phases'
  BY <1>20 DEF HandlerFollows, NextStream, AfterClosed, AfterOpened, TakesInterrupt,
         Answers, Releases
<1>21. ASSUME RpmPublishesChannel PROVE Phases'
  BY <1>21 DEF RpmPublishesChannel
<1>22. ASSUME RpmAnswers PROVE Phases'
  BY <1>22 DEF RpmAnswers, RpmMoves
<1>23. ASSUME RpmGoesIdle PROVE Phases'
  BY <1>23 DEF RpmGoesIdle, RpmMoves
<1>24. ASSUME RpmInterrupts PROVE Phases'
  BY <1>24 DEF RpmInterrupts
<1>25. ASSUME RpmStartsClose PROVE Phases'
  BY <1>25 DEF RpmStartsClose
<1>26. ASSUME UNCHANGED vars PROVE Phases'
  BY <1>26
<1>. QED
  BY <1>1, <1>2, <1>3, <1>4, <1>5, <1>6, <1>7, <1>8, <1>9, <1>10, <1>11, <1>12, <1>13, <1>14,
         <1>15, <1>16, <1>17, <1>18, <1>19, <1>20, <1>21, <1>22, <1>23, <1>24, <1>25, <1>26 DEF
         Next, BootThread, InterruptHandler, Rpm

LEMMA InvStep == ASSUME IInv, [Next]_vars PROVE IInv'
<1>1. TypeOK'
  BY TypeStep DEF IInv
<1>2. CASE InitDone /\ setting.closes
  BY <1>1, <1>2, DoneStays, SettingStays DEF IInv
<1>3. CASE ~(InitDone /\ setting.closes)
  BY <1>1, <1>3, PhasesStep DEF IInv
<1>. QED
  BY <1>2, <1>3

-----------------------------------------------------------------------------
(* What follows from it.                                                    *)

LEMMA Invariance == ASSUME Orderly PROVE Spec => []IInv
<1>1. Init => IInv
  BY InvInit
<1>2. IInv /\ [Next]_vars => IInv'
  BY InvStep
<1>. QED
  BY <1>1, <1>2, PTL DEF Spec

\* smd_channel_alloc_freed is up only while the apps half is CLOSED.
THEOREM FreedIsClosed == ASSUME Orderly PROVE Spec => []FreedMeansClosed
<1>1. IInv => FreedMeansClosed
  BY DEF IInv, Phases, TypeOK, PCs, Calls, BeforeInv, EarlyInv, LateInv, Before, Early, Late,
         FreedMeansClosed
<1>. QED
  BY <1>1, Invariance, PTL

\* The channel smd_init reports to be OPENED is.
THEOREM ReportIsTrue == ASSUME Orderly PROVE Spec => OpenedReportIsTrue
<1>1. ASSUME IInv, PollEnds, opened' PROVE ch0 = "OPENED"
  BY <1>1 DEF IInv, InitDone, Phases, EarlyInv, Early, PollEnds, SeesOpened
<1>2. IInv /\ [Next]_vars => [PollEnds /\ opened' => ch0 = "OPENED"]_vars
  BY <1>1
<1>. QED
  BY <1>2, Invariance, PTL DEF Spec, OpenedReportIsTrue

\* Every step of the three actors is a step of SmdLink or leaves the halves alone.
LEMMA LinkStep ==
  ASSUME IInv, ~setting.closes, [Next]_vars
  PROVE  [Link!Next]_<<ch0, ch1>>
<1>. DEFINE Moves == [Link!Next]_<<ch0, ch1>>
<1>. USE DEF IInv, Phases, BeforeInv, SettingInv, EarlyInv, LateInv, Before, Early, Late, Setting,
             Open, Shut, TypeOK, PCs, Calls, StreamStates,
             Link!Next, Link!Open, Link!Up, Link!Close, Link!Down, Link!RemoteOpen, Link!RemoteUp,
             Link!RemoteClose, Link!RemoteDown, Link!LocalMoves, Link!RemoteMoves
<1>1. ASSUME FindChannel PROVE Moves
  BY <1>1 DEF FindChannel, NextStream, AfterClosed, AfterOpened
<1>2. ASSUME SetStateWrite PROVE Moves
  BY <1>2 DEF SetStateWrite, WritesStream, NextStream, AfterClosed, AfterOpened
<1>3. ASSUME HandlerFollows PROVE Moves
  BY <1>3 DEF HandlerFollows, NextStream, AfterClosed, AfterOpened
<1>4. ASSUME RpmAnswers PROVE Moves
  BY <1>4 DEF RpmAnswers, RpmMoves
<1>5. ASSUME RpmStartsClose PROVE Moves
  BY <1>5 DEF RpmStartsClose
<1>6. ASSUME \/ RetryFind \/ FindTimesOut \/ UnmaskInterrupt \/ PollChange
               \/ PollAgain \/ PollEnds \/ SendFirstRequest \/ Uninit
               \/ UninitExitBs \/ SetStateRead \/ SetStateFinish \/ NotifyClosing
               \/ EventArrives \/ ExitReleased \/ ExitTick \/ ExitTimesOut
               \/ HandlerWhenClosed \/ RpmPublishesChannel \/ RpmGoesIdle \/ RpmInterrupts
               \/ UNCHANGED vars
      PROVE  Moves
  BY <1>6 DEF RetryFind, FindTimesOut, UnmaskInterrupt, PollChange, PollAgain, PollEnds,
         SendFirstRequest, Uninit, UninitExitBs, SetStateRead, SetStateFinish, NotifyClosing,
         EventArrives, ExitReleased, ExitTick, ExitTimesOut, HandlerWhenClosed,
         RpmPublishesChannel, RpmGoesIdle, RpmInterrupts, shared, vars
<1>. QED
  BY <1>1, <1>2, <1>3, <1>4, <1>5, <1>6 DEF Next, BootThread, InterruptHandler, Rpm

\* The two halves keep the promise of SmdLink at every interleaving.
THEOREM LinkImplemented == ASSUME Orderly PROVE Spec => ImplementsLink
<1>1. Init => Link!Init
  BY DEF Init, Link!Init
<1>2. IInv /\ [Next]_vars => [setting.closes \/ Link!Next]_<<ch0, ch1>>
  BY LinkStep
<1>. QED
  BY <1>1, <1>2, Invariance, PTL DEF Spec, ImplementsLink

-----------------------------------------------------------------------------
(* The requests over the channel: as long as every call has waited for its *)
(* acknowledgement and got it, requests arrive whole and acknowledgements  *)
(* find the calls they are for.                                            *)
\* What fits into a ring leaves one word free; neither smd_write nor smd_read looks.
MessagesFit == Request!SizesAssumption /\ H + ReqLen < N

Packet(id) == [k \in 1..(H + ReqLen) |-> <<id, k>>]
Prefix(n) == [i \in 1..n |-> Packet(i)]

\* The words of message id, from its first to the len-th, stand in buf from index at on.
Holds(buf, at, id, len) == \A k \in 1..len : buf[Request!Advance(at, k - 1)] = <<id, k>>

-----------------------------------------------------------------------------
(* The inductive invariant.                                                 *)

RingTypes ==
  /\ {send_write, send_read, recv_write, recv_read} \subseteq Request!Indices
  /\ msg_id \in Nat /\ type \in {"REQUEST", "CMD"} /\ open \in BOOLEAN /\ answering \in Nat

SendEmpty == send_write = send_read
RecvEmpty == recv_write = recv_read

\* Nothing is under way.
QuietInv == SendEmpty /\ RecvEmpty /\ answering = 0

\* A request is written, in part or whole, and not taken.
WrittenInv(n, len) ==
  /\ RecvEmpty /\ answering = 0 /\ msg_id = n + 1
  /\ send_write = Request!Advance(send_read, len) /\ Holds(send, send_read, msg_id, len)

\* The request is taken, and its acknowledgement has got as far as len words.
AnsweredInv(n, len) ==
  /\ SendEmpty /\ msg_id = n
  /\ answering = IF len = H THEN n ELSE 0
  /\ n > 0 /\ len \in {H, H + AckLen}
  /\ recv_write = Request!Advance(recv_read, len) /\ Holds(recv, recv_read, msg_id, H)

\* The header is read, and the payload is there or not.
HeaderReadInv(n) ==
  /\ SendEmpty /\ msg_id = n
  /\ \/ answering = n /\ n > 0 /\ RecvEmpty
     \/ answering = 0 /\ recv_write = Request!Advance(recv_read, AckLen)

Stage(n) ==
  /\ served = Prefix(n)
  /\ caller_pc \in {"idle", "write_data", "read", "wait_header", "wait_data", "complete", "asserted"}
  /\ caller_pc \in {"idle", "complete"} => QuietInv /\ (open => msg_id = n)
  /\ caller_pc = "write_data" => WrittenInv(n, H)
  /\ caller_pc \in {"read", "wait_header", "asserted"} =>
       \/ QuietInv /\ ~open /\ caller_pc # "wait_header"
       \/ WrittenInv(n, H + ReqLen)
       \/ \E len \in {H, H + AckLen} : AnsweredInv(n, len)
  /\ caller_pc = "wait_data" => HeaderReadInv(n)

InStep == RingTypes /\ Request!IsOwnAck /\ \E n \in Nat : Stage(n)
WordsInv == ahead \in BOOLEAN /\ (~ahead => InStep)

-----------------------------------------------------------------------------
(* Round the ring.                                                          *)

LEMMA Sizes ==
  ASSUME MessagesFit
  PROVE  /\ N \in Nat \ {0} /\ H \in Nat \ {0} /\ ReqLen \in Nat \ {0} /\ AckLen \in Nat \ {0}
         /\ IndexRange \in Nat \ {0} /\ H + AckLen < N /\ H + ReqLen < N /\ N <= IndexRange
BY DEF MessagesFit, Request!SizesAssumption

LEMMA ModOnce ==
  ASSUME NEW m \in Nat \ {0}, NEW x \in 0..(2 * m - 1)
  PROVE  x % m = IF x < m THEN x ELSE x - m
<1>1. CASE x < m
  BY <1>1
<1>2. CASE ~(x < m)
  BY <1>2
<1>. QED
  BY <1>1, <1>2

LEMMA ModNegative ==
  ASSUME NEW m \in Nat \ {0}, NEW x \in 1..(m - 1)
  PROVE  (-x) % m = m - x
OBVIOUS

LEMMA AdvanceValue ==
  ASSUME MessagesFit, NEW a \in Request!Indices, NEW n \in 0..(N - 1)
  PROVE  /\ Request!Advance(a, n) \in Request!Indices
         /\ Request!Advance(a, n) = IF a + n < N THEN a + n ELSE a + n - N
<1>. DEFINE x == a + n
<1>1. x \in 0..(2 * N - 1)
  BY Sizes DEF Request!Indices
<1>2. N \in Nat \ {0}
  BY Sizes
<1>3. Request!Advance(a, n) = x % N
  BY DEF Request!Advance
<1>. HIDE DEF x
<1>4. Request!Advance(a, n) = IF x < N THEN x ELSE x - N
  BY <1>1, <1>2, <1>3, ModOnce
<1>. QED
  BY <1>1, <1>2, <1>4 DEF x, Request!Indices

LEMMA AdvanceSum ==
  ASSUME MessagesFit, NEW a \in Request!Indices, NEW m \in Nat, NEW n \in Nat, m + n < N
  PROVE  Request!Advance(Request!Advance(a, m), n) = Request!Advance(a, m + n)
<1>. DEFINE b == Request!Advance(a, m)
<1>1. N \in Nat
  BY Sizes
<1>2. b \in Request!Indices /\ b = IF a + m < N THEN a + m ELSE a + m - N
  BY <1>1, AdvanceValue
<1>3. Request!Advance(a, m + n) = IF a + m + n < N THEN a + m + n ELSE a + m + n - N
  BY <1>1, AdvanceValue DEF Request!Indices
<1>. HIDE DEF b
<1>4. Request!Advance(b, n) = IF b + n < N THEN b + n ELSE b + n - N
  BY <1>1, <1>2, AdvanceValue
<1>. QED
  BY <1>1, <1>2, <1>3, <1>4 DEF Request!Indices, b

\* How far one index is behind another.
LEMMA Distance ==
  ASSUME MessagesFit, NEW a \in Request!Indices, NEW n \in 0..(N - 1)
  PROVE  (Request!Advance(a, n) - a) % N = n
<1>. DEFINE d == Request!Advance(a, n) - a
<1>1. N \in Nat \ {0} /\ a \in 0..(N - 1)
  BY Sizes DEF Request!Indices
<1>2. d = IF a + n < N THEN n ELSE n - N
  BY <1>1, AdvanceValue
<1>. HIDE DEF d
<1>3. CASE a + n < N
  <2>1. n % N = n
    BY <1>1, ModOnce
  <2>. QED
    BY <1>2, <1>3, <2>1 DEF d
<1>4. CASE ~(a + n < N)
  <2>. DEFINE x == N - n
  <2>1. x \in 1..(N - 1) /\ d = -x /\ N - x = n
    BY <1>1, <1>2, <1>4
  <2>. HIDE DEF x
  <2>2. (-x) % N = N - x
    BY <1>1, <2>1, ModNegative
  <2>. QED
    BY <2>1, <2>2 DEF d
<1>. QED
  BY <1>3, <1>4

LEMMA NoDistance ==
  ASSUME MessagesFit, NEW a \in Request!Indices
  PROVE  Request!Behind(a, a) = 0 /\ (a - a) % N = 0 /\ Request!Advance(a, 0) = a
<1>1. N \in Nat \ {0} /\ IndexRange \in Nat \ {0} /\ a \in Int /\ a - a = 0 /\ a < N /\ a + 0 = a
  BY Sizes DEF Request!Indices
<1>2. 0 % N = 0 /\ 0 % IndexRange = 0
  BY <1>1, ModOnce
<1>3. 0 \in 0..(N - 1)
  BY <1>1
<1>. QED
  BY <1>1, <1>2, <1>3, AdvanceValue DEF Request!Behind

\* What a copy into the ring puts where, and what it leaves.
LEMMA PutAnywhere ==
  ASSUME MessagesFit, NEW buf, NEW a \in Request!Indices, NEW words
  PROVE  \A m \in 0..(N - 1) : Request!Put(buf, a, words)[Request!Advance(a, m)] =
           IF 1 + m \in DOMAIN words THEN words[1 + m] ELSE buf[Request!Advance(a, m)]
<1>1. SUFFICES ASSUME NEW m \in 0..(N - 1)
               PROVE  Request!Put(buf, a, words)[Request!Advance(a, m)] =
                        IF 1 + m \in DOMAIN words THEN words[1 + m] ELSE buf[Request!Advance(a, m)]
  OBVIOUS
<1>2. Request!Advance(a, m) \in Request!Indices /\ (Request!Advance(a, m) - a) % N = m
  BY AdvanceValue, Distance
<1>. QED
  BY <1>2 DEF Request!Put

\* The first part of a message stands.
LEMMA FirstPart ==
  ASSUME MessagesFit, NEW buf, NEW a \in Request!Indices, NEW id, NEW len \in 0..(N - 1), NEW words,
         words = [k \in 1..len |-> <<id, k>>]
  PROVE  Holds(Request!Put(buf, a, words), a, id, len)
<1>1. N \in Nat
  BY Sizes
<1>2. ASSUME NEW k \in 1..len PROVE Request!Put(buf, a, words)[Request!Advance(a, k - 1)] = <<id, k>>
  <2>. DEFINE m == k - 1
  <2>1. m \in 0..(N - 1) /\ 1 + m = k
    BY <1>1
  <2>2. k \in DOMAIN words /\ words[k] = <<id, k>>
    OBVIOUS
  <2>. HIDE DEF m
  <2>3. Request!Put(buf, a, words)[Request!Advance(a, m)] =
          IF 1 + m \in DOMAIN words THEN words[1 + m] ELSE buf[Request!Advance(a, m)]
    BY <2>1, PutAnywhere
  <2>. QED
    BY <2>1, <2>2, <2>3 DEF m
<1>. QED
  BY <1>2 DEF Holds

\* The second part goes behind the first one and leaves it.
LEMMA SecondPart ==
  ASSUME MessagesFit, NEW buf, NEW a \in Request!Indices, NEW id, NEW m \in Nat \ {0}, NEW len \in Nat \ {0},
         m + len < N, NEW words, DOMAIN words = 1..len, \A k \in 1..len : words[k] = <<id, m + k>>,
         Holds(buf, a, id, m)
  PROVE  Holds(Request!Put(buf, Request!Advance(a, m), words), a, id, m + len)
<1>. DEFINE b == Request!Advance(a, m)
            new == Request!Put(buf, b, words)
<1>1. N \in Nat \ {0} /\ m \in 0..(N - 1) /\ len \in 0..(N - 1) /\ a \in 0..(N - 1)
  BY Sizes DEF Request!Indices
<1>2. b \in Request!Indices /\ b = IF a + m < N THEN a + m ELSE a + m - N
  BY <1>1, AdvanceValue
<1>3. \A j \in 0..(N - 1) : new[Request!Advance(b, j)] =
        IF 1 + j \in DOMAIN words THEN words[1 + j] ELSE buf[Request!Advance(b, j)]
  BY <1>2, PutAnywhere
<1>4. ASSUME NEW j \in 0..(N - 1)
      PROVE  new[Request!Advance(b, j)] = IF 1 + j \in 1..len THEN <<id, m + 1 + j>> ELSE buf[Request!Advance(b, j)]
  <2>1. 1 + j \in 1..len => words[1 + j] = <<id, m + (1 + j)>>
    OBVIOUS
  <2>2. m + (1 + j) = m + 1 + j
    BY <1>1
  <2>3. new[Request!Advance(b, j)] = IF 1 + j \in DOMAIN words THEN words[1 + j] ELSE buf[Request!Advance(b, j)]
    BY <1>3
  <2>. HIDE DEF b, new
  <2>4. CASE 1 + j \in 1..len
    BY <2>1, <2>2, <2>3, <2>4
  <2>5. CASE 1 + j \notin 1..len
    BY <2>3, <2>5
  <2>. QED
    BY <2>4, <2>5
<1>. HIDE DEF new
<1>5. ASSUME NEW k \in 1..m PROVE new[Request!Advance(a, k - 1)] = <<id, k>>
  <2>. DEFINE j == N - m + k - 1
  <2>1. j \in 0..(N - 1) /\ 1 + j \notin 1..len /\ k - 1 \in 0..(N - 1)
    BY <1>1
  <2>2. Request!Advance(b, j) = Request!Advance(a, k - 1)
    <3>1. Request!Advance(b, j) = IF b + j < N THEN b + j ELSE b + j - N
      BY <1>2, <2>1, AdvanceValue
    <3>2. Request!Advance(a, k - 1) = IF a + (k - 1) < N THEN a + (k - 1) ELSE a + (k - 1) - N
      BY <2>1, AdvanceValue
    <3>. HIDE DEF b
    <3>3. b = IF a + m < N THEN a + m ELSE a + m - N
      BY <1>2
    <3>4. CASE a + m < N
      BY <1>1, <1>5, <3>1, <3>2, <3>3, <3>4
    <3>5. CASE ~(a + m < N)
      BY <1>1, <1>5, <3>1, <3>2, <3>3, <3>5
    <3>. QED
      BY <3>4, <3>5
  <2>. HIDE DEF j, b
  <2>3. new[Request!Advance(a, k - 1)] = buf[Request!Advance(a, k - 1)]
    BY <1>4, <2>1, <2>2
  <2>. QED
    BY <2>3 DEF Holds
<1>6. ASSUME NEW k \in (m + 1)..(m + len) PROVE new[Request!Advance(a, k - 1)] = <<id, k>>
  <2>. DEFINE j == k - m
  <2>1. /\ j \in 1..len /\ j - 1 \in 0..(N - 1) /\ 1 + (j - 1) = j
        /\ m + (j - 1) = k - 1 /\ m + (j - 1) < N /\ m + 1 + (j - 1) = k
    BY <1>1
  <2>. HIDE DEF j
  <2>2. Request!Advance(b, j - 1) = Request!Advance(a, k - 1)
    <3>. DEFINE i == j - 1
    <3>1. i \in Nat /\ m + i < N /\ m + i = k - 1
      BY <2>1
    <3>. HIDE DEF i
    <3>2. Request!Advance(Request!Advance(a, m), i) = Request!Advance(a, m + i)
      BY <3>1, AdvanceSum
    <3>. QED
      BY <3>1, <3>2 DEF i
  <2>3. new[Request!Advance(b, j - 1)] = <<id, k>>
    BY <1>4, <2>1
  <2>. QED
    BY <2>1, <2>2, <2>3
<1>7. \A k \in 1..(m + len) : k \in 1..m \/ k \in (m + 1)..(m + len)
  BY <1>1
<1>. QED
  BY <1>5, <1>6, <1>7 DEF Holds, new

LEMMA HoldsLess ==
  ASSUME NEW buf, NEW a, NEW id, NEW m \in Nat, NEW n \in Nat, m <= n, Holds(buf, a, id, n)
  PROVE  Holds(buf, a, id, m)
<1>1. \A k \in 1..m : k \in 1..n
  OBVIOUS
<1>. QED
  BY <1>1 DEF Holds

-----------------------------------------------------------------------------
(* Packets and what is served.                                              *)

LEMMA HeaderWords ==
  ASSUME MessagesFit, NEW id
  PROVE  Request!Header(id) = [k \in 1..H |-> <<id, k>>] /\ H \in 0..(N - 1)
BY Sizes DEF Request!Header

LEMMA PayloadWords ==
  ASSUME NEW id, NEW len
  PROVE  DOMAIN Request!Payload(id, len) = 1..len /\ \A k \in 1..len : Request!Payload(id, len)[k] = <<id, H + k>>
BY DEF Request!Payload

\* What a whole packet is read as.
LEMMA GetPacket ==
  ASSUME NEW buf, NEW at, NEW id, NEW len, Holds(buf, at, id, len)
  PROVE  Request!Get(buf, at, len) = [k \in 1..len |-> <<id, k>>]
BY DEF Request!Get, Holds

LEMMA PacketParts ==
  ASSUME MessagesFit, NEW id
  PROVE  Request!Header(id) \o [k \in 1..ReqLen |-> <<id, H + k>>] = Packet(id)
<1>. DEFINE head == [k \in 1..H |-> <<id, k>>]
            tail == [k \in 1..ReqLen |-> <<id, H + k>>]
            Words == {<<id, k>> : k \in Nat}
<1>1. H \in Nat /\ ReqLen \in Nat
  BY Sizes
<1>2. head \in [1..H -> Words] /\ tail \in [1..ReqLen -> Words]
  BY <1>1
<1>3. head \in Seq(Words) /\ tail \in Seq(Words) /\ Len(head) = H /\ Len(tail) = ReqLen
  <2>. HIDE DEF head, tail, Words
  <2>. QED
    BY <1>1, <1>2
<1>4. /\ DOMAIN (head \o tail) = 1..(H + ReqLen)
      /\ \A k \in 1..(H + ReqLen) : (head \o tail)[k] = IF k <= H THEN head[k] ELSE tail[k - H]
  <2>. HIDE DEF head, tail, Words
  <2>. QED
    BY <1>1, <1>3
<1>5. \A k \in 1..(H + ReqLen) : (head \o tail)[k] = <<id, k>>
  <2>1. SUFFICES ASSUME NEW k \in 1..(H + ReqLen) PROVE (head \o tail)[k] = <<id, k>>
    OBVIOUS
  <2>2. CASE k <= H
    <3>1. k \in 1..H
      BY <1>1, <2>2
    <3>2. head[k] = <<id, k>>
      BY <3>1
    <3>. HIDE DEF head, tail
    <3>. QED
      BY <1>4, <2>2, <3>2
  <2>3. CASE ~(k <= H)
    <3>1. k - H \in 1..ReqLen /\ H + (k - H) = k
      BY <1>1, <2>3
    <3>2. tail[k - H] = <<id, H + (k - H)>>
      BY <3>1
    <3>. HIDE DEF head, tail
    <3>. QED
      BY <1>4, <2>3, <3>1, <3>2
  <2>. QED
    BY <2>2, <2>3
<1>6. Packet(id) \in Seq(Words) /\ Len(Packet(id)) = H + ReqLen
  <2>1. Packet(id) \in [1..(H + ReqLen) -> Words]
    BY <1>1 DEF Packet
  <2>. HIDE DEF Words
  <2>. QED
    BY <1>1, <2>1
<1>7. \A k \in 1..(H + ReqLen) : Packet(id)[k] = <<id, k>>
  BY DEF Packet
<1>8. head \o tail \in Seq(Words) /\ Len(head \o tail) = H + ReqLen
  <2>. HIDE DEF head, tail, Words
  <2>. QED
    BY <1>1, <1>3
<1>9. \A k \in 1..(H + ReqLen) : (head \o tail)[k] = Packet(id)[k]
  <2>. HIDE DEF head, tail
  <2>. QED
    BY <1>5, <1>7
<1>10. head \o tail = Packet(id)
  <2>. HIDE DEF head, tail, Words
  <2>1. \A s, t \in Seq(Words) : Len(s) = Len(t) /\ (\A k \in 1..Len(s) : s[k] = t[k]) => s = t
    OBVIOUS
  <2>2. Len(head \o tail) = Len(Packet(id))
    BY <1>6, <1>8
  <2>3. \A k \in 1..Len(head \o tail) : (head \o tail)[k] = Packet(id)[k]
    BY <1>8, <1>9
  <2>. QED
    BY <1>6, <1>8, <2>1, <2>2, <2>3, Zenon
<1>. QED
  BY <1>10 DEF Request!Header

LEMMA PrefixGrows ==
  ASSUME NEW n \in Nat
  PROVE  Append(Prefix(n), Packet(n + 1)) = Prefix(n + 1)
<1>. DEFINE Packets == {Packet(i) : i \in Nat}
<1>1. Prefix(n) \in [1..n -> Packets] /\ Prefix(n + 1) \in [1..(n + 1) -> Packets]
  BY DEF Prefix
<1>2. /\ Prefix(n) \in Seq(Packets) /\ Len(Prefix(n)) = n
      /\ Prefix(n + 1) \in Seq(Packets) /\ Len(Prefix(n + 1)) = n + 1
  <2>. HIDE DEF Packets
  <2>. QED
    BY <1>1
<1>3. Packet(n + 1) \in Packets
  OBVIOUS
<1>4. /\ \A i \in 1..n : Prefix(n)[i] = Packet(i)
      /\ \A i \in 1..(n + 1) : Prefix(n + 1)[i] = Packet(i)
  BY DEF Prefix
<1>. HIDE DEF Packets
<1>5. /\ Append(Prefix(n), Packet(n + 1)) \in Seq(Packets)
      /\ Len(Append(Prefix(n), Packet(n + 1))) = n + 1
      /\ \A i \in 1..(n + 1) :
            Append(Prefix(n), Packet(n + 1))[i] = IF i = n + 1 THEN Packet(n + 1) ELSE Prefix(n)[i]
  BY <1>2, <1>3
<1>6. \A i \in 1..(n + 1) : Append(Prefix(n), Packet(n + 1))[i] = Prefix(n + 1)[i]
  BY <1>4, <1>5
<1>. QED
  BY <1>2, <1>5, <1>6

-----------------------------------------------------------------------------
(* The steps.                                                               *)

LEMMA InitInStep == ASSUME MessagesFit, Request!Init PROVE WordsInv
<1>1. 0 \in Request!Indices
  BY Sizes DEF Request!Indices
<1>2. served = Prefix(0)
  BY DEF Request!Init, Prefix
<1>3. RingTypes
  BY <1>1 DEF Request!Init, RingTypes
<1>4. QuietInv
  BY DEF Request!Init, QuietInv, SendEmpty, RecvEmpty
<1>5. Stage(0)
  BY <1>2, <1>4 DEF Request!Init, Stage
<1>. QED
  BY <1>3, <1>5 DEF Request!Init, WordsInv, InStep, Request!IsOwnAck

LEMMA WriteHeaderStep ==
  ASSUME MessagesFit, InStep, Request!WriteHeader PROVE InStep'
<1>. PICK n \in Nat : Stage(n)
  BY DEF InStep
<1>1. /\ caller_pc = "idle" /\ open /\ msg_id' = msg_id + 1 /\ type' \in Types /\ caller_pc' = "write_data"
      /\ send' = Request!Put(send, send_write, Request!Header(msg_id')) /\ send_write' = Request!Advance(send_write, H)
      /\ hdr' = <<>> /\ send_read' = send_read /\ recv_write' = recv_write
      /\ recv_read' = recv_read /\ open' = open /\ answering' = answering /\ served' = served
  BY DEF Request!WriteHeader, Request!AfterHeader, Request!rpm
<1>2. QuietInv /\ msg_id = n
  BY <1>1 DEF Stage
<1>3. send_write \in Request!Indices /\ send_write = send_read
  BY <1>2 DEF InStep, RingTypes, QuietInv, SendEmpty
<1>4. Holds(send', send_read, msg_id', H)
  BY <1>1, <1>3, HeaderWords, FirstPart
<1>5. send_write' \in Request!Indices
  BY <1>1, <1>3, HeaderWords, AdvanceValue
<1>6. RingTypes'
  BY <1>1, <1>5 DEF InStep, RingTypes, MessagesFit, Request!SizesAssumption
<1>7. WrittenInv(n, H)'
  BY <1>1, <1>2, <1>3, <1>4 DEF WrittenInv, QuietInv, RecvEmpty, Holds, Request!Advance
<1>8. Stage(n)'
  BY <1>1, <1>7 DEF Stage, Prefix, Packet
<1>. QED
  BY <1>1, <1>6, <1>8 DEF InStep, Request!IsOwnAck

LEMMA WriteDataStep ==
  ASSUME MessagesFit, InStep, Request!WriteData, type # "CMD" PROVE InStep'
<1>. PICK n \in Nat : Stage(n)
  BY DEF InStep
<1>1. /\ caller_pc = "write_data" /\ caller_pc' = "read" /\ type' = type /\ msg_id' = msg_id /\ hdr' = hdr
      /\ send' = Request!Put(send, send_write, Request!Payload(msg_id, ReqLen))
      /\ send_write' = Request!Advance(send_write, ReqLen)
      /\ send_read' = send_read /\ recv_write' = recv_write
      /\ recv_read' = recv_read /\ open' = open /\ answering' = answering /\ served' = served
  BY DEF Request!WriteData, Request!rpm, InStep, RingTypes
<1>2. WrittenInv(n, H)
  BY <1>1 DEF Stage
<1>3. /\ send_read \in Request!Indices /\ send_write = Request!Advance(send_read, H)
      /\ Holds(send, send_read, msg_id, H) /\ send_write \in Request!Indices
  BY <1>2 DEF InStep, RingTypes, WrittenInv
<1>4. Holds(send', send_read, msg_id, H + ReqLen)
  BY <1>1, <1>3, Sizes, PayloadWords, SecondPart
<1>5. send_write' = Request!Advance(send_read, H + ReqLen)
  BY <1>1, <1>3, Sizes, AdvanceSum
<1>6. send_write' \in Request!Indices
  <2>1. ReqLen \in 0..(N - 1)
    BY Sizes
  <2>. QED
    BY <1>1, <1>3, <2>1, AdvanceValue
<1>7. RingTypes'
  BY <1>1, <1>6 DEF InStep, RingTypes
<1>8. WrittenInv(n, H + ReqLen)'
  BY <1>1, <1>2, <1>4, <1>5 DEF WrittenInv, RecvEmpty, Holds, Request!Advance
<1>9. Stage(n)'
  BY <1>1, <1>8 DEF Stage, Prefix, Packet
<1>. QED
  BY <1>1, <1>7, <1>9 DEF InStep, Request!IsOwnAck

\* The steps of the caller that touch neither ring.
LEMMA CallerMoves ==
  ASSUME MessagesFit, InStep, Request!WriteRefused \/ Request!CheckDtr \/ Request!Complete PROVE InStep'
<1>. PICK n \in Nat : Stage(n)
  BY DEF InStep
<1>1. /\ send' = send /\ recv' = recv /\ send_write' = send_write /\ send_read' = send_read
      /\ recv_write' = recv_write /\ recv_read' = recv_read /\ open' = open
      /\ answering' = answering /\ served' = served
  BY DEF Request!WriteRefused, Request!CheckDtr, Request!Complete, Request!rpm
<1>2. /\ QuietInv' <=> QuietInv
      /\ msg_id' = msg_id => /\ WrittenInv(n, H + ReqLen)' <=> WrittenInv(n, H + ReqLen)
                             /\ AnsweredInv(n, H)' <=> AnsweredInv(n, H)
                             /\ AnsweredInv(n, H + AckLen)' <=> AnsweredInv(n, H + AckLen)
  BY <1>1 DEF QuietInv, WrittenInv, AnsweredInv, SendEmpty, RecvEmpty, Holds, Request!Advance
<1>3. Prefix(n)' = Prefix(n)
  BY DEF Prefix, Packet
<1>4. CASE Request!WriteRefused
  <2>1. /\ caller_pc = "idle" /\ ~open /\ msg_id' = msg_id + 1 /\ type' \in Types /\ hdr' = <<>>
        /\ caller_pc' \in {"read", "idle"}
    BY <1>4 DEF Request!WriteRefused
  <2>2. RingTypes'
    BY <1>1, <2>1 DEF InStep, RingTypes, MessagesFit, Request!SizesAssumption
  <2>3. Stage(n)'
    BY <1>1, <1>2, <1>3, <2>1 DEF Stage
  <2>. QED
    BY <2>1, <2>2, <2>3 DEF InStep, Request!IsOwnAck
<1>5. CASE Request!CheckDtr
  <2>1. /\ caller_pc = "read" /\ caller_pc' = IF open THEN "wait_header" ELSE "asserted"
        /\ msg_id' = msg_id /\ type' = type /\ hdr' = hdr
    BY <1>5 DEF Request!CheckDtr
  <2>2. RingTypes'
    BY <1>1, <2>1 DEF InStep, RingTypes
  <2>3. \/ QuietInv /\ ~open
        \/ WrittenInv(n, H + ReqLen)
        \/ \E len \in {H, H + AckLen} : AnsweredInv(n, len)
    BY <2>1 DEF Stage
  <2>4. \/ QuietInv' /\ ~open'
        \/ WrittenInv(n, H + ReqLen)'
        \/ \E len \in {H, H + AckLen} : AnsweredInv(n, len)'
    BY <1>1, <1>2, <2>1, <2>3
  <2>5. open' => caller_pc' = "wait_header"
    BY <1>1, <2>1
  <2>6. ~open' => caller_pc' = "asserted"
    BY <1>1, <2>1
  <2>7. Stage(n)'
    BY <1>1, <1>3, <2>1, <2>4, <2>5, <2>6 DEF Stage
  <2>. QED
    BY <2>1, <2>2, <2>7 DEF InStep, Request!IsOwnAck
<1>6. CASE Request!Complete
  <2>1. caller_pc = "complete" /\ caller_pc' = "idle" /\ msg_id' = msg_id /\ type' = type /\ hdr' = hdr
    BY <1>6 DEF Request!Complete
  <2>2. RingTypes'
    BY <1>1, <2>1 DEF InStep, RingTypes
  <2>3. Stage(n)'
    BY <1>1, <1>2, <1>3, <2>1 DEF Stage
  <2>. QED
    BY <2>1, <2>2, <2>3 DEF InStep, Request!IsOwnAck
<1>. QED
  BY <1>4, <1>5, <1>6

LEMMA WaitSteps ==
  ASSUME MessagesFit, InStep, Request!ReadHeader \/ Request!ReadData PROVE InStep'
<1>. PICK n \in Nat : Stage(n)
  BY DEF InStep
<1>1. /\ send' = send /\ recv' = recv /\ send_write' = send_write /\ send_read' = send_read
      /\ recv_write' = recv_write /\ open' = open /\ msg_id' = msg_id /\ type' = type
      /\ answering' = answering /\ served' = served
  BY DEF Request!ReadHeader, Request!ReadData, Request!rpm
<1>2. recv_read \in Request!Indices /\ recv_write \in Request!Indices
  BY DEF InStep, RingTypes
<1>3. Prefix(n)' = Prefix(n)
  BY DEF Prefix, Packet
<1>4. CASE Request!ReadHeader
  <2>1. /\ caller_pc = "wait_header" /\ caller_pc' = "wait_data" /\ hdr' = Request!Get(recv, recv_read, H)
        /\ recv_read' = Request!Advance(recv_read, H) /\ Request!Behind(recv_write, recv_read) >= H
    BY <1>4 DEF Request!ReadHeader, Request!HeaderThere
  <2>2. recv_write # recv_read
    BY <1>2, <2>1, NoDistance, Sizes
  <2>3. PICK len \in {H, H + AckLen} : AnsweredInv(n, len)
    BY <2>1, <2>2 DEF Stage, QuietInv, WrittenInv, RecvEmpty
  <2>4. /\ SendEmpty /\ msg_id = n /\ n > 0 /\ Holds(recv, recv_read, msg_id, H)
        /\ recv_write = Request!Advance(recv_read, len) /\ answering = IF len = H THEN n ELSE 0
    BY <2>3 DEF AnsweredInv
  <2>5. hdr' = [k \in 1..H |-> <<msg_id, k>>]
    BY <2>1, <2>4, GetPacket
  <2>6. hdr'[1][1] = msg_id'
    <3>1. 1 \in 1..H
      BY Sizes
    <3>. QED
      BY <1>1, <2>5, <3>1
  <2>7. recv_read' \in Request!Indices
    BY <1>2, <2>1, HeaderWords, AdvanceValue
  <2>8. HeaderReadInv(n)'
    <3>1. CASE len = H
      BY <1>1, <2>1, <2>4, <3>1 DEF HeaderReadInv, RecvEmpty, SendEmpty
    <3>2. CASE len # H
      <4>1. Request!Advance(Request!Advance(recv_read, H), AckLen) = Request!Advance(recv_read, H + AckLen)
        BY <1>2, Sizes, AdvanceSum
      <4>2. recv_write' = Request!Advance(recv_read', AckLen)
        BY <1>1, <2>1, <2>4, <3>2, <4>1
      <4>. QED
        BY <1>1, <2>4, <3>2, <4>2 DEF HeaderReadInv, SendEmpty, Request!Advance
    <3>. QED
      BY <3>1, <3>2
  <2>9. RingTypes'
    BY <1>1, <2>7 DEF InStep, RingTypes
  <2>10. Stage(n)'
    BY <1>1, <1>3, <2>1, <2>8 DEF Stage
  <2>. QED
    BY <2>6, <2>9, <2>10 DEF InStep, Request!IsOwnAck
<1>5. CASE Request!ReadData
  <2>1. /\ caller_pc = "wait_data" /\ caller_pc' = "complete" /\ hdr' = hdr
        /\ recv_read' = Request!Advance(recv_read, AckLen) /\ Request!Behind(recv_write, recv_read) >= AckLen
    BY <1>5 DEF Request!ReadData, Request!AfterData, Request!DataThere
  <2>2. recv_write # recv_read
    BY <1>2, <2>1, NoDistance, Sizes
  <2>3. SendEmpty /\ msg_id = n /\ answering = 0 /\ recv_write = Request!Advance(recv_read, AckLen)
    BY <2>1, <2>2 DEF Stage, HeaderReadInv, RecvEmpty
  <2>4. QuietInv'
    BY <1>1, <2>1, <2>3 DEF QuietInv, SendEmpty, RecvEmpty
  <2>5. RingTypes'
    BY <1>1, <1>2, <2>1, <2>3 DEF InStep, RingTypes
  <2>6. Stage(n)'
    BY <1>1, <1>3, <2>1, <2>3, <2>4 DEF Stage
  <2>. QED
    BY <1>1, <2>1, <2>5, <2>6 DEF InStep, Request!IsOwnAck
<1>. QED
  BY <1>4, <1>5

LEMMA CloseStep ==
  ASSUME MessagesFit, InStep, Request!ChannelCloses \/ UNCHANGED Request!vars PROVE InStep'
<1>. PICK n \in Nat : Stage(n)
  BY DEF InStep
<1>1. /\ send' = send /\ recv' = recv /\ send_write' = send_write /\ send_read' = send_read
      /\ recv_write' = recv_write /\ recv_read' = recv_read /\ msg_id' = msg_id /\ type' = type
      /\ answering' = answering /\ served' = served /\ caller_pc' = caller_pc /\ hdr' = hdr
      /\ open' \in {open, FALSE}
  BY DEF Request!ChannelCloses, Request!vars, Request!caller, Request!rpm
<1>2. /\ QuietInv' <=> QuietInv
      /\ WrittenInv(n, H)' <=> WrittenInv(n, H)
      /\ WrittenInv(n, H + ReqLen)' <=> WrittenInv(n, H + ReqLen)
      /\ AnsweredInv(n, H)' <=> AnsweredInv(n, H)
      /\ AnsweredInv(n, H + AckLen)' <=> AnsweredInv(n, H + AckLen)
      /\ HeaderReadInv(n)' <=> HeaderReadInv(n)
  BY <1>1 DEF QuietInv, WrittenInv, AnsweredInv, HeaderReadInv, SendEmpty, RecvEmpty, Holds, Request!Advance
<1>3. Prefix(n)' = Prefix(n)
  BY DEF Prefix, Packet
<1>4. open' => open
  BY <1>1 DEF InStep, RingTypes
<1>5. RingTypes'
  BY <1>1 DEF InStep, RingTypes
<1>6. Stage(n)'
  BY <1>1, <1>2, <1>3, <1>4 DEF Stage
<1>. QED
  BY <1>1, <1>5, <1>6 DEF InStep, Request!IsOwnAck

\* The RPM takes a packet only when a whole request stands in the ring.
LEMMA ServedWhenWritten ==
  ASSUME MessagesFit, RingTypes, NEW n \in Nat, Stage(n), Request!RpmServes
  PROVE  caller_pc \in {"read", "wait_header", "asserted"} /\ WrittenInv(n, H + ReqLen)
<1>1. answering = 0 /\ (send_write - send_read) % N >= H + ReqLen
  BY DEF Request!RpmServes, Request!Published
<1>2. send_read \in Request!Indices /\ send_write \in Request!Indices
  BY DEF RingTypes
<1>3. ~SendEmpty
  BY <1>1, <1>2, Sizes, NoDistance DEF SendEmpty
<1>4. caller_pc # "write_data"
  <2>1. SUFFICES ASSUME caller_pc = "write_data" PROVE FALSE
    OBVIOUS
  <2>2. send_write = Request!Advance(send_read, H)
    BY <2>1 DEF Stage, WrittenInv
  <2>3. (send_write - send_read) % N = H
    BY <1>2, <2>2, HeaderWords, Distance
  <2>. QED
    BY <1>1, <2>3, Sizes
<1>5. caller_pc \in {"read", "wait_header", "asserted"}
  BY <1>3, <1>4 DEF Stage, QuietInv, HeaderReadInv
<1>. QED
  BY <1>3, <1>5 DEF Stage, QuietInv, AnsweredInv

LEMMA RpmServesStep ==
  ASSUME MessagesFit, InStep, Request!RpmServes PROVE InStep'
<1>. PICK n \in Nat : Stage(n)
  BY DEF InStep
<1>. DEFINE packet == Request!Get(send, send_read, H + ReqLen)
<1>1. /\ served' = Append(served, packet) /\ answering' = packet[1][1]
      /\ recv' = Request!Put(recv, recv_write, Request!Header(packet[1][1]))
      /\ send_read' = Request!Advance(send_read, H + ReqLen) /\ recv_write' = Request!Advance(recv_write, H)
      /\ send' = send /\ send_write' = send_write /\ recv_read' = recv_read /\ open' = open
      /\ caller_pc' = caller_pc /\ msg_id' = msg_id /\ type' = type /\ hdr' = hdr
  BY DEF Request!RpmServes, Request!caller
<1>2. caller_pc \in {"read", "wait_header", "asserted"} /\ WrittenInv(n, H + ReqLen)
  BY ServedWhenWritten DEF InStep
<1>3. /\ recv_write = recv_read /\ msg_id = n + 1 /\ send_write = Request!Advance(send_read, H + ReqLen)
      /\ Holds(send, send_read, n + 1, H + ReqLen)
      /\ {send_write, recv_read} \subseteq Request!Indices
  BY <1>2 DEF WrittenInv, RecvEmpty, InStep, RingTypes
<1>4. packet = Packet(n + 1)
  <2>. DEFINE id == n + 1
              len == H + ReqLen
  <2>1. Holds(send, send_read, id, len)
    BY <1>3
  <2>. HIDE DEF id, len
  <2>2. Request!Get(send, send_read, len) = [k \in 1..len |-> <<id, k>>]
    BY <2>1, GetPacket
  <2>. QED
    BY <2>2 DEF id, len, Packet
<1>5. packet[1][1] = n + 1
  <2>1. 1 \in 1..(H + ReqLen)
    BY Sizes
  <2>2. Packet(n + 1)[1] = <<n + 1, 1>>
    BY <2>1 DEF Packet
  <2>. HIDE DEF packet
  <2>. QED
    BY <1>4, <2>2
<1>. HIDE DEF packet
<1>6. served' = Prefix(n + 1)
  BY <1>1, <1>4, PrefixGrows DEF Stage
<1>7. answering' = n + 1 /\ recv' = Request!Put(recv, recv_read, Request!Header(n + 1))
  BY <1>1, <1>3, <1>5
<1>8. Holds(recv', recv_read, n + 1, H)
  BY <1>3, <1>7, HeaderWords, FirstPart
<1>9. recv_write' \in Request!Indices
  BY <1>1, <1>3, HeaderWords, AdvanceValue
<1>10. RingTypes'
  BY <1>1, <1>3, <1>7, <1>9 DEF InStep, RingTypes
<1>11. AnsweredInv(n + 1, H)'
  BY <1>1, <1>3, <1>7, <1>8 DEF AnsweredInv, SendEmpty, Holds, Request!Advance
<1>12. Stage(n + 1)'
  <2>1. served' = Prefix(n + 1)'
    BY <1>6 DEF Prefix, Packet
  <2>. QED
    BY <1>1, <1>2, <1>11, <2>1 DEF Stage
<1>13. n + 1 \in Nat
  OBVIOUS
<1>. QED
  BY <1>1, <1>10, <1>12, <1>13 DEF InStep, Request!IsOwnAck

LEMMA RpmPublishesStep ==
  ASSUME MessagesFit, InStep, Request!RpmPublishesData PROVE InStep'
<1>. PICK n \in Nat : Stage(n)
  BY DEF InStep
<1>1. /\ answering # 0 /\ answering' = 0
      /\ recv' = Request!Put(recv, recv_write, Request!Payload(answering, AckLen))
      /\ recv_write' = Request!Advance(recv_write, AckLen)
      /\ send' = send /\ send_write' = send_write /\ send_read' = send_read
      /\ recv_read' = recv_read /\ open' = open /\ served' = served
      /\ caller_pc' = caller_pc /\ msg_id' = msg_id /\ type' = type /\ hdr' = hdr
  BY DEF Request!RpmPublishesData, Request!caller
<1>2. recv_read \in Request!Indices /\ recv_write \in Request!Indices
  BY DEF InStep, RingTypes
<1>3. AckLen \in 0..(N - 1)
  BY Sizes
<1>4. recv_write' \in Request!Indices
  BY <1>1, <1>2, <1>3, AdvanceValue
<1>5. RingTypes'
  BY <1>1, <1>4 DEF InStep, RingTypes
<1>6. served' = Prefix(n)'
  BY <1>1 DEF Stage, Prefix, Packet
<1>7. CASE caller_pc = "wait_data"
  <2>1. answering = n /\ n > 0 /\ recv_write = recv_read /\ SendEmpty /\ msg_id = n
    BY <1>1, <1>7 DEF Stage, HeaderReadInv, RecvEmpty
  <2>2. HeaderReadInv(n)'
    BY <1>1, <2>1 DEF HeaderReadInv, SendEmpty, Request!Advance
  <2>3. Stage(n)'
    BY <1>1, <1>6, <1>7, <2>2 DEF Stage
  <2>. QED
    BY <1>1, <1>5, <2>3 DEF InStep, Request!IsOwnAck
<1>8. CASE caller_pc # "wait_data"
  <2>1. /\ caller_pc \in {"read", "wait_header", "asserted"}
        /\ \E len \in {H, H + AckLen} : AnsweredInv(n, len)
    BY <1>1, <1>8 DEF Stage, QuietInv, WrittenInv
  <2>2. /\ SendEmpty /\ msg_id = n /\ answering = n /\ n > 0 /\ recv_write = Request!Advance(recv_read, H)
        /\ Holds(recv, recv_read, n, H)
    BY <1>1, <2>1 DEF AnsweredInv
  <2>3. Holds(recv', recv_read, n, H + AckLen)
    BY <1>1, <1>2, <2>2, Sizes, PayloadWords, SecondPart
  <2>4. Holds(recv', recv_read, n, H)
    BY <2>3, Sizes, HoldsLess
  <2>5. recv_write' = Request!Advance(recv_read, H + AckLen)
    BY <1>1, <1>2, <2>2, Sizes, AdvanceSum
  <2>6. AnsweredInv(n, H + AckLen)'
    <3>1. H + AckLen # H
      BY Sizes
    <3>. QED
      BY <1>1, <2>2, <2>4, <2>5, <3>1 DEF AnsweredInv, SendEmpty, Holds, Request!Advance
  <2>7. Stage(n)'
    BY <1>1, <1>6, <2>1, <2>6 DEF Stage
  <2>. QED
    BY <1>1, <1>5, <2>7 DEF InStep, Request!IsOwnAck
<1>. QED
  BY <1>7, <1>8

LEMMA NextKeeps == ASSUME MessagesFit, WordsInv, [Request!Next]_(Request!vars) PROVE WordsInv'
<1>1. ahead' \in BOOLEAN /\ (ahead => ahead')
  BY DEF WordsInv, Request!Next, Request!Caller, Request!Rpm, Request!WriteHeader,
         Request!WriteData, Request!WriteRefused, Request!CheckDtr, Request!ReadHeader,
         Request!ReadData, Request!HeaderTimesOut, Request!DataTimesOut, Request!Complete,
         Request!ChannelCloses, Request!RpmServes, Request!RpmPublishesData, Request!vars
<1>2. SUFFICES ASSUME ~ahead' PROVE InStep'
  BY <1>1 DEF WordsInv
<1>3. InStep
  BY <1>1, <1>2 DEF WordsInv
<1>4. CASE Request!WriteHeader
  BY <1>3, <1>4, WriteHeaderStep
<1>5. CASE Request!WriteData
  <2>1. type # "CMD"
    BY <1>2, <1>5 DEF Request!WriteData
  <2>. QED
    BY <1>3, <1>5, <2>1, WriteDataStep
<1>6. CASE Request!WriteRefused \/ Request!CheckDtr \/ Request!Complete
  BY <1>3, <1>6, CallerMoves
<1>7. CASE Request!ReadHeader \/ Request!ReadData
  BY <1>3, <1>7, WaitSteps
<1>8. CASE Request!HeaderTimesOut \/ Request!DataTimesOut
  BY <1>2, <1>8 DEF Request!HeaderTimesOut, Request!DataTimesOut
<1>9. CASE Request!ChannelCloses \/ UNCHANGED Request!vars
  BY <1>3, <1>9, CloseStep
<1>10. CASE Request!RpmServes
  BY <1>3, <1>10, RpmServesStep
<1>11. CASE Request!RpmPublishesData
  BY <1>3, <1>11, RpmPublishesStep
<1>. QED
  BY <1>4, <1>5, <1>6, <1>7, <1>8, <1>9, <1>10, <1>11 DEF Request!Next, Request!Caller, Request!Rpm

LEMMA WordsInvariance == ASSUME MessagesFit PROVE Request!Spec => []WordsInv
<1>1. Request!Init => WordsInv
  BY InitInStep
<1>2. WordsInv /\ [Request!Next]_(Request!vars) => WordsInv'
  BY NextKeeps
<1>. QED
  BY <1>1, <1>2, PTL DEF Request!Spec

LEMMA InStepSuffices == ASSUME MessagesFit, WordsInv PROVE Request!WordsAreOwn
<1>1. ~ahead => Request!IsOwnAck
  BY DEF WordsInv, InStep
<1>2. ASSUME ~ahead, NEW i \in DOMAIN served
      PROVE  served[i] = Request!Header(i) \o [k \in 1..ReqLen |-> <<i, H + k>>]
  <2>. PICK n \in Nat : served = Prefix(n)
    BY <1>2 DEF WordsInv, InStep, Stage
  <2>1. served[i] = Packet(i)
    BY DEF Prefix
  <2>. QED
    BY <2>1, PacketParts
<1>. QED
  BY <1>1, <1>2 DEF Request!WordsAreOwn, Request!AckIsForRequest, Request!RequestsArriveWhole

\* As long as every call so far has waited for its acknowledgement and got it, the
\* acknowledgement rpm_smd_send_data ends with is its own request's, though it compares
\* no ids (rpm-smd.c:82), and the RPM takes every request whole and in order, though
\* smd_write never looks at what the RPM has read (smd.c:250): whatever the sizes of the
\* ring and of the messages, as long as both messages fit, and whenever the channel closes.
THEOREM NobodyGetsAnothersWords == ASSUME MessagesFit PROVE Request!Spec => []Request!WordsAreOwn
<1>1. WordsInv => Request!WordsAreOwn
  BY InStepSuffices
<1>. QED
  BY <1>1, WordsInvariance, PTL

-----------------------------------------------------------------------------
(* The channel and its requests in one model.                               *)

RequestInv == part = "request" => WordsInv

LEMMA RequestInvInit == ASSUME MessagesFit, MCInit PROVE RequestInv
  BY InitInStep DEF MCInit, RequestInv

LEMMA RequestInvStep == ASSUME MessagesFit, RequestInv, [MCNext]_allVars PROVE RequestInv'
<1>. SUFFICES ASSUME part' = "request" PROVE WordsInv'
  BY DEF RequestInv
<1>1. part = "request" /\ WordsInv
  BY DEF RequestInv, MCNext, MCBootThread, MCInterruptHandler, MCRpm, MCCaller, MCServes, allVars
<1>2. CASE MCCaller \/ MCServes
  BY <1>1, <1>2, NextKeeps DEF MCCaller, MCServes, Request!Next
<1>3. CASE UNCHANGED allVars
  <2>1. UNCHANGED Request!vars
    BY <1>3 DEF allVars, rings, callers, Request!vars, Request!caller, Request!rpm
  <2>. QED
    BY <1>1, <2>1, NextKeeps
<1>. QED
  BY <1>1, <1>2, <1>3 DEF MCNext, MCBootThread, MCInterruptHandler, MCRpm

LEMMA RequestInvSuffices == ASSUME MessagesFit, RequestInv PROVE WordsAreOwn
  BY InStepSuffices DEF RequestInv, WordsAreOwn

\* With the channel and its requests in one model, as the run checks them: as long as
\* every call waits for its acknowledgement it gets its own, and the RPM reads every
\* request whole and in order (smd_write, smd_read, rpm_smd_recv_data), whatever the
\* sizes, however many calls are made and whenever the channel closes.
THEOREM RequestsKeepTheirWords == ASSUME MessagesFit PROVE MCSpec => []WordsAreOwn
<1>1. MCInit => RequestInv
  BY RequestInvInit
<1>2. RequestInv /\ [MCNext]_allVars => RequestInv'
  BY RequestInvStep
<1>3. RequestInv => WordsAreOwn
  BY RequestInvSuffices
<1>. QED
  BY <1>1, <1>2, <1>3, PTL DEF MCSpec
=============================================================================
