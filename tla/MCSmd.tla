-------------------------------- MODULE MCSmd --------------------------------
(***************************************************************************)
(* SmdRpmDxe for TLC: the life of the channel (SmdChannel), or the         *)
(* requests over a channel that is open (RpmRequest, whose ChannelCloses   *)
(* is all it sees of the other); part says which a behaviour is of.        *)
(***************************************************************************)
EXTENDS SmdChannel

\* The run takes a ring of seven words, so that a request of three and an acknowledgement
\* of four wrap at every place.
CONSTANTS
  N, H, ReqLen, AckLen, IndexRange,        \* sizes of the rings, the messages and the indices
  MaxRequests, Types,                      \* how many requests there are, and of which types
  HeaderTimeouts, DataTimeouts, MayClose   \* what the RPM and the handler may do to a call

VARIABLES part,
          send, send_write, send_read, recv, recv_write, recv_read,
          caller_pc, msg_id, type, hdr, response, open, ahead, served, answering

rings == <<send, send_write, send_read, recv, recv_write, recv_read>>
callers == <<caller_pc, msg_id, type, hdr, response, open, ahead, served, answering>>
allVars == <<vars, part, rings, callers>>

Request == INSTANCE RpmRequest WITH pc <- caller_pc

ASSUME SizesAssumption == Request!SizesAssumption

-----------------------------------------------------------------------------
NoRequests ==
    /\ send = 0 /\ send_write = 0 /\ send_read = 0 /\ recv = 0 /\ recv_write = 0 /\ recv_read = 0
    /\ caller_pc = "none" /\ msg_id = 0 /\ type = 0 /\ hdr = 0 /\ response = 0 /\ open = 0 /\ ahead = 0
    /\ served = 0 /\ answering = 0
MCInit ==
    \/ part = "channel" /\ Init /\ NoRequests
    \/ part = "request" /\ Init /\ setting = (CHOOSE s \in Settings : s.protocol) /\ Request!Init

MCBootThread == part = "channel" /\ BootThread /\ UNCHANGED <<part, rings, callers>>
MCInterruptHandler == part = "channel" /\ InterruptHandler /\ UNCHANGED <<part, rings, callers>>
MCRpm == part = "channel" /\ Rpm /\ UNCHANGED <<part, rings, callers>>
MCCaller == part = "request" /\ Request!Caller /\ UNCHANGED <<vars, part>>
MCServes == part = "request" /\ (Request!Rpm \/ Request!ChannelCloses) /\ UNCHANGED <<vars, part>>

MCNext == MCBootThread \/ MCInterruptHandler \/ MCRpm \/ MCCaller \/ MCServes
MCSpec ==
    /\ MCInit /\ [][MCNext]_allVars
    /\ WF_allVars(MCBootThread) /\ WF_allVars(MCInterruptHandler) /\ WF_allVars(MCCaller)

-----------------------------------------------------------------------------
(* As long as every call waits for its acknowledgement, it gets its own,   *)
(* and the RPM reads every request whole (smd_write, smd_read).            *)
WordsAreOwn == part = "request" => Request!WordsAreOwn

(* A call of rpm_send_data comes back, however silent the RPM is           *)
(* (rpm_smd_recv_data, smd_read).                                          *)
SendReturns == caller_pc = "read" ~> caller_pc \in {"idle", "asserted"}
=============================================================================
