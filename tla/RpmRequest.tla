------------------------------ MODULE RpmRequest ------------------------------
(***************************************************************************)
(* A request to the RPM and its acknowledgement over an open SMD channel:  *)
(* rpm_smd_send_data and rpm_smd_recv_data (rpm-smd.c) over smd_write,     *)
(* smd_read and the two FIFO copies (smd.c).                               *)
(*                                                                         *)
(* Each direction has a ring of N words, a write index that only the       *)
(* producer moves and a read index that only the consumer moves.  A packet *)
(* is a header of H words and a payload; its k-th word is <<id, k>>, so a  *)
(* word that was overwritten, or read out of place, can be told.  The RPM  *)
(* is external: it reads whole packets in order, acknowledges each, and    *)
(* publishes header and payload one after the other, as smd_write does.    *)
(* How long it takes is its own affair; the code gives up after a bounded  *)
(* number of polls, which here is a choice (HeaderTimeouts, DataTimeouts). *)
(*                                                                         *)
(* The data_read, data_written and mask_recv_intr flags are left out: this *)
(* code writes them and never reads them.                                  *)
(***************************************************************************)
EXTENDS Integers, Sequences

CONSTANTS
  N,               \* words of a ring (fifo_size / 4)
  H,               \* words of smd_pkt_hdr
  ReqLen,          \* words of a request's payload
  AckLen,          \* words of an acknowledgement's payload
  IndexRange,      \* 2^32 of the uint32_t indices, made small
  MaxRequests,     \* bound on the requests sent
  Types,           \* message types in use: RPM_REQUEST_TYPE, RPM_CMD_TYPE
  HeaderTimeouts,  \* the RPM may be slower than smd_read's first loop
  DataTimeouts,    \* ... than its second loop
  MayClose         \* the interrupt handler may close the channel under way

SizesAssumption ==
  /\ {N, H, ReqLen, AckLen, IndexRange, MaxRequests} \subseteq Nat \ {0}
  /\ H + AckLen < N
  /\ N <= IndexRange
  /\ Types \subseteq {"REQUEST", "CMD"}
  /\ {HeaderTimeouts, DataTimeouts, MayClose} \subseteq BOOLEAN

VARIABLES
  send, send_write, send_read,  \* send_buf, ch0.write_index, ch0.read_index
  recv, recv_write, recv_read,  \* recv_buf, ch1.write_index, ch1.read_index
  pc, msg_id, type,             \* the caller in rpm_smd_send_data
  hdr, response,                \* the words smd_read copied out; <<>> when none
  open,                         \* is_channel_open and both DTRs
  ahead,                        \* a call has ended without its acknowledgement
  served, answering             \* RPM: ids read so far; the id whose payload it owes, or 0

caller == <<pc, msg_id, type, hdr, response>>
rpm    == <<served, answering>>
vars   == <<send, send_write, send_read, recv, recv_write, recv_read, caller, open, ahead, rpm>>

Indices == 0..(N - 1)
Blank   == <<0, 0>>

Header(id)       == [k \in 1..H |-> <<id, k>>]
Payload(id, len) == [k \in 1..len |-> <<id, H + k>>]

Init ==
  /\ send = [i \in Indices |-> Blank]
  /\ recv = [i \in Indices |-> Blank]
  /\ send_write = 0 /\ send_read = 0
  /\ recv_write \in Indices /\ recv_read = recv_write
  /\ pc = "idle" /\ msg_id = 0 /\ type = "REQUEST"
  /\ hdr = <<>> /\ response = <<>>
  /\ open = TRUE
  /\ ahead = FALSE
  /\ served = <<>> /\ answering = 0

-----------------------------------------------------------------------------
(* memcpy_to_fifo and memcpy_from_fifo: word by word, round the ring, with  *)
(* no look at what the other side has read or written.                      *)
\* Names ending in Mutant are wrong on purpose and used by no action.
Advance(index, len) == (index + len) % N

Put(buf, index, words) ==
  [i \in Indices |-> LET k == 1 + ((i - index) % N)
                     IN  IF k \in DOMAIN words THEN words[k] ELSE buf[i]]

Get(buf, index, len) == [k \in 1..len |-> buf[Advance(index, k - 1)]]

\* The unsigned difference both polling loops of smd_read compare with a length.
Behind(write_index, read_index) == (write_index - read_index) % IndexRange

-----------------------------------------------------------------------------
(* The caller.                                                              *)

\* smd_write copies the header in, which moves write_index past it and no further.
AfterHeaderMutant == Advance(send_write, H + ReqLen)
AfterHeader == Advance(send_write, H)

WriteHeader ==
  /\ pc = "idle"
  /\ msg_id < MaxRequests
  /\ open
  /\ msg_id' = msg_id + 1
  /\ type' \in Types
  /\ send' = Put(send, send_write, Header(msg_id'))
  /\ send_write' = AfterHeader
  /\ hdr' = <<>> /\ response' = <<>>
  /\ pc' = "write_data"
  /\ UNCHANGED <<send_read, recv, recv_write, recv_read, open, ahead, rpm>>

\* A command is not waited for; a request is.
WriteData ==
  /\ pc = "write_data"
  /\ send' = Put(send, send_write, Payload(msg_id, ReqLen))
  /\ send_write' = Advance(send_write, ReqLen)
  /\ pc' = IF type = "REQUEST" THEN "read" ELSE "idle"
  /\ ahead' = (ahead \/ type = "CMD")
  /\ UNCHANGED <<send_read, recv, recv_write, recv_read, msg_id, type, hdr, response, open, rpm>>

\* smd_write refuses, and the request is waited for all the same.
WriteRefused ==
  /\ pc = "idle"
  /\ msg_id < MaxRequests
  /\ ~open
  /\ msg_id' = msg_id + 1
  /\ type' \in Types
  /\ hdr' = <<>> /\ response' = <<>>
  /\ pc' = IF type' = "REQUEST" THEN "read" ELSE "idle"
  /\ UNCHANGED <<send, send_write, send_read, recv, recv_write, recv_read, open, ahead, rpm>>

\* smd_read looks at the remote DTR once, as it starts.
CheckDtr ==
  /\ pc = "read"
  /\ pc' = IF open THEN "wait_header" ELSE "asserted"
  /\ UNCHANGED <<send, send_write, send_read, recv, recv_write, recv_read, msg_id, type,
                 hdr, response, open, ahead, rpm>>

HeaderThere == Behind(recv_write, recv_read) >= H

\* The loop's bound is reached first.
NeverGivesUpMutant == FALSE
GivesUp == HeaderTimeouts /\ ~HeaderThere

ReadHeader ==
  /\ pc = "wait_header"
  /\ HeaderThere
  /\ hdr' = Get(recv, recv_read, H)
  /\ recv_read' = Advance(recv_read, H)
  /\ pc' = "wait_data"
  /\ UNCHANGED <<send, send_write, send_read, recv, recv_write, msg_id, type, response, open, ahead, rpm>>

\* Every acknowledgement has AckLen words, whatever header announced it.
DataThere == Behind(recv_write, recv_read) >= AckLen

AfterDataMutant == recv_read
AfterData == Advance(recv_read, AckLen)

ReadData ==
  /\ pc = "wait_data"
  /\ DataThere
  /\ response' = Get(recv, recv_read, AckLen)
  /\ recv_read' = AfterData
  /\ pc' = "complete"
  /\ UNCHANGED <<send, send_write, send_read, recv, recv_write, msg_id, type, hdr, open, ahead, rpm>>

HeaderTimesOut ==
  /\ pc = "wait_header"
  /\ GivesUp
  /\ pc' = "complete"
  /\ ahead' = TRUE
  /\ UNCHANGED <<send, send_write, send_read, recv, recv_write, recv_read, msg_id, type,
                 hdr, response, open, rpm>>

\* The header stays consumed.
DataTimesOut ==
  /\ DataTimeouts
  /\ pc = "wait_data"
  /\ ~DataThere
  /\ pc' = "complete"
  /\ ahead' = TRUE
  /\ UNCHANGED <<send, send_write, send_read, recv, recv_write, recv_read, msg_id, type,
                 hdr, response, open, rpm>>

\* rpm_smd_recv_data's verdict is not looked at; smd_signal_read_complete, return.
Complete ==
  /\ pc = "complete"
  /\ pc' = "idle"
  /\ UNCHANGED <<send, send_write, send_read, recv, recv_write, recv_read, msg_id, type,
                 hdr, response, open, ahead, rpm>>

Caller ==
  \/ WriteHeader \/ WriteData \/ WriteRefused \/ CheckDtr
  \/ ReadHeader \/ ReadData \/ HeaderTimesOut \/ DataTimesOut \/ Complete

\* smd_irq_handler closes the channel (SmdChannel has how).
ChannelCloses ==
  /\ MayClose
  /\ open
  /\ open' = FALSE
  /\ UNCHANGED <<send, send_write, send_read, recv, recv_write, recv_read, caller, ahead, rpm>>

-----------------------------------------------------------------------------
(* The RPM (external).                                                      *)

Published == (send_write - send_read) % N
Free      == N - 1 - ((recv_write - recv_read) % N)

\* It takes the next packet whole, and publishes the acknowledgement's header when
\* the ring has room for all of it.
RpmServes ==
  /\ answering = 0
  /\ Published >= H + ReqLen
  /\ Free >= H + AckLen
  /\ LET packet == Get(send, send_read, H + ReqLen)
         id     == packet[1][1]
     IN  /\ served' = Append(served, packet)
         /\ answering' = id
         /\ recv' = Put(recv, recv_write, Header(id))
  /\ send_read' = Advance(send_read, H + ReqLen)
  /\ recv_write' = Advance(recv_write, H)
  /\ UNCHANGED <<send, send_write, recv_read, caller, open, ahead>>

RpmPublishesData ==
  /\ answering # 0
  /\ recv' = Put(recv, recv_write, Payload(answering, AckLen))
  /\ recv_write' = Advance(recv_write, AckLen)
  /\ answering' = 0
  /\ UNCHANGED <<send, send_write, send_read, recv_read, caller, open, ahead, served>>

Rpm == RpmServes \/ RpmPublishesData

Next == Caller \/ ChannelCloses \/ Rpm

Spec == Init /\ [][Next]_vars

\* The caller's thread always runs on; nothing is assumed of the RPM.
FairSpec == Spec /\ WF_vars(Caller)

-----------------------------------------------------------------------------
\* As long as every call so far has waited for its acknowledgement and got it, the
\* acknowledgement a request ends with is its own, though nothing in the code
\* compares ids, ...
IsOwnAck == hdr # <<>> => hdr[1][1] = msg_id
AckIsForRequest == ~ahead => IsOwnAck

\* ... and every request the RPM takes is the next one written, whole: nothing in the
\* ring is overwritten before it is read ("Takes care of fifo overlap", smd.c:250).
RequestsArriveWhole ==
  ~ahead =>
    \A i \in DOMAIN served : served[i] = Header(i) \o [k \in 1..ReqLen |-> <<i, H + k>>]

\* Together: nobody gets another's words.
WordsAreOwn == AckIsForRequest /\ RequestsArriveWhole

\* "Read the response" (rpm-smd.c:82): a request never ends with another's.
ReadsOwnResponse == IsOwnAck

\* A call of rpm_send_data comes back, however silent the RPM is.
SendReturns == pc = "read" ~> pc \in {"idle", "asserted"}
=============================================================================
