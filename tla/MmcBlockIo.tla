----------------------------- MODULE MmcBlockIo -----------------------------
(***************************************************************************)
(* Block I/O on an MMC or SD card: MMCHSReadBlocks and MMCHSWriteBlocks    *)
(* (MMCHS.c) check the request and cut it into transfers of at most        *)
(* SDHCI_ADMA_MAX_TRANS_SZ bytes; mmc_sdhci_read and mmc_sdhci_write       *)
(* (mmc_sdhci.c) issue one command for each and, after a failure of more   *)
(* than one block, a stop command.  The card answers, moves all or some of *)
(* the blocks, or does not answer.                                         *)
(*                                                                         *)
(* Lengths count blocks.  A call of sdhci_send_command is one step: module *)
(* SdhciCommand has its inside.                                            *)
(***************************************************************************)
EXTENDS Integers

CONSTANTS
  LastBlock,      \* BlockMedia.LastBlock
  LastProtected,  \* 253951 in MMCHSWriteBlocks
  Protects,       \* config.slot <= 1
  CardTypes,      \* card types met
  BlockSize,      \* 512
  CountMod,       \* blocks the 16-bit block count register wraps at, 65536
  LenMod,         \* blocks a UINT32 byte count wraps at, 2^32 / 512
  ArgMod,         \* what the 32-bit argument of a command wraps at
  MaxBlocks,      \* bound on the blocks of a request
  MaxRequests,    \* bound on the requests of a behaviour
  SingleDataErrors \* a transfer of one block may fail after its response

AllTypes == {"stdMMC", "MMCHC", "SDHC", "stdSD"}

ParametersAssumption ==
  /\ LastBlock \in Nat /\ LastProtected \in Nat /\ Protects \in BOOLEAN
  /\ CardTypes \subseteq AllTypes /\ SingleDataErrors \in BOOLEAN
  /\ BlockSize \in Nat \ {0} /\ CountMod \in Nat \ {0, 1}
  /\ LenMod \in Nat \ {0} /\ ArgMod \in Nat \ {0}
  /\ MaxBlocks \in Nat /\ MaxRequests \in Nat

VARIABLES
  type,           \* card->type
  medium, buffer, \* contents of the card and of the caller's buffer
  req, status,    \* the request and what it returned
  pc, rc,         \* where it is, and the result of mmc_read or mmc_write
  addr, left, sptr, \* mmc_read/mmc_write: data_addr, data_len, progress in the buffer
  card            \* state of the card, and whether it is in an open-ended transfer

vars == <<type, medium, buffer, req, status, pc, rc, addr, left, sptr, card>>

Blocks == 0..LastBlock
ReadOnly == IF Protects THEN {b \in Blocks : b <= LastProtected} ELSE {}
Faults == {"none", "media", "null", "size"}
Requests == [id : 1..MaxRequests, op : {"read", "write"}, lba : 0..(LastBlock + 1),
             n : 0..MaxBlocks, fault : Faults]

\* A block's contents: its own at first, then the i-th block of a request;
\* Fresh in a buffer not yet filled, Junk where a block arrived damaged.
Payload(r, i) == <<r.id, i>>
Fresh == <<>>
Junk == <<0>>
Values == {Fresh, Junk} \cup ((0..MaxRequests) \X (0..(LastBlock + MaxBlocks)))

Init ==
  /\ type \in CardTypes
  /\ medium = [b \in Blocks |-> <<0, b>>]
  /\ buffer = <<>> /\ status = "success" /\ pc = "idle" /\ rc = 0
  /\ req = [id |-> 0, op |-> "read", lba |-> 0, n |-> 0, fault |-> "none"]
  /\ addr = 0 /\ left = 0 /\ sptr = 0
  /\ card = [state |-> "tran", multi |-> FALSE]

-----------------------------------------------------------------------------
(* MMCHSReadBlocks, MMCHSWriteBlocks *)

Submit(r) ==
  /\ pc = "idle" /\ r.id = req.id + 1
  /\ req' = r /\ status' = "pending" /\ pc' = "checks"
  /\ buffer' = [i \in 0..(r.n - 1) |-> Fresh]
  /\ UNCHANGED <<type, medium, rc, addr, left, sptr, card>>

\* Lba + n - 1 is computed in 64 unsigned bits: 0 + 0 - 1 is beyond any card.
Beyond == req.lba + req.n > LastBlock + 1 \/ req.lba + req.n = 0

ShieldedMutant == Protects /\ req.lba < LastProtected  \* the last one is forgotten
Shielded == Protects /\ req.lba <= LastProtected

\* The checks, in the order of the code.
Checked ==
  IF req.fault = "media" THEN "media_changed"
  ELSE IF req.lba > LastBlock \/ Beyond THEN "invalid"
  ELSE IF req.fault = "size" THEN "bad_size"
  ELSE IF req.fault = "null" THEN "invalid"
  ELSE IF req.n = 0 THEN "success"
  ELSE IF req.op = "write" /\ Shielded THEN "unsupported"
  ELSE "pending"

\* A request that passes them goes on with its length cut to a UINT32.
Checks ==
  /\ pc = "checks"
  /\ status' = Checked
  /\ IF Checked = "pending"
     THEN /\ addr' = req.lba /\ left' = req.n % LenMod /\ sptr' = 0 /\ rc' = 0
          /\ pc' = IF left' = 0 THEN "return" ELSE "command"
     ELSE pc' = "idle" /\ UNCHANGED <<rc, addr, left, sptr>>
  /\ UNCHANGED <<type, medium, buffer, req, card>>

-----------------------------------------------------------------------------
(* mmc_read, mmc_write *)

\* SDHCI_ADMA_MAX_TRANS_SZ in blocks: the most the count register can hold.
MaxTrans == CountMod - 1

Chunk == IF left > MaxTrans THEN MaxTrans ELSE left

\* A chunk's result: a failure ends the request, the last success does too.
AdvancedMutant == addr                            \* data_addr not advanced
Advanced == addr + Chunk

More == left > Chunk

ChunkEnds(val) ==
  IF val = 0 /\ More
  THEN /\ addr' = Advanced /\ sptr' = sptr + Chunk /\ left' = left - Chunk
       /\ pc' = "command" /\ UNCHANGED rc
  ELSE pc' = "return" /\ rc' = val /\ UNCHANGED <<addr, sptr, left>>

\* 0 is EFI_SUCCESS, everything else EFI_DEVICE_ERROR.
Return ==
  /\ pc = "return" /\ pc' = "idle"
  /\ status' = IF rc = 0 THEN "success" ELSE "device_error"
  /\ UNCHANGED <<type, medium, buffer, req, rc, addr, left, sptr, card>>

-----------------------------------------------------------------------------
(* mmc_sdhci_read, mmc_sdhci_write *)

\* A response R1, as far as mmc_parse_response looks at it; an empty one is
\* what cmd.resp[0] holds when none was received.
R1(state, bad) == [state |-> state, bad |-> bad]
NoResponse == R1("none", FALSE)

ParsesMutant(r) == ~r.bad                         \* TRAN state not asked for
Parses(r) == ~r.bad /\ r.state = "tran"
ParseResponse(r) == IF Parses(r) THEN 0 ELSE 1

\* Byte addresses for standard capacity MMC cards, block numbers for all
\* others.
ByteMode == type = "stdMMC"
Argument == (IF ByteMode THEN addr * BlockSize ELSE addr) % ArgMod

\* Where the card starts: standard capacity cards of both kinds count bytes.
CountsBytes == type \in {"stdMMC", "stdSD"}
Start == IF CountsBytes THEN Argument \div BlockSize ELSE Argument
Accepted ==
  /\ CountsBytes => Argument % BlockSize = 0
  /\ Start + Chunk <= LastBlock + 1

\* The first k blocks of the chunk are in place; on a read that broke off,
\* the next one may have arrived damaged.
Moved(k, broken) ==
  IF req.op = "write"
  THEN /\ medium' = [b \in Blocks |-> IF b >= Start /\ b < Start + k
                                      THEN Payload(req, sptr + (b - Start)) ELSE medium[b]]
       /\ UNCHANGED buffer
  ELSE /\ buffer' = [i \in DOMAIN buffer |->
                       IF i >= sptr /\ i < sptr + k THEN medium[Start + (i - sptr)]
                       ELSE IF broken /\ i = sptr + k THEN Junk ELSE buffer[i]]
       /\ UNCHANGED medium

Busy == IF req.op = "read" THEN "data" ELSE "rcv"

\* More than one block and a failure: the stop command's result is returned.
CommandFails(resp) ==
  IF Chunk > 1 THEN pc' = "stop" /\ UNCHANGED <<rc, addr, left, sptr>>
               ELSE ChunkEnds(ParseResponse(resp))

\* The command is not answered: lost, or illegal in the card's state.
SendLost ==
  /\ pc = "command"
  /\ CommandFails(NoResponse)
  /\ UNCHANGED <<type, medium, buffer, req, status, card>>

\* The card takes the command but its response arrives damaged.
SendResponseLost ==
  /\ pc = "command" /\ card.state = "tran" /\ Accepted
  /\ CommandFails(NoResponse)
  /\ card' = [state |-> Busy, multi |-> Chunk > 1]
  /\ UNCHANGED <<type, medium, buffer, req, status>>

\* The card reports an error in its response, of the address or of its own
\* (MMC_R1_CC_ERROR), and no data comes.
SendRefused ==
  /\ pc = "command" /\ card.state = "tran"
  /\ CommandFails(R1("tran", TRUE))
  /\ UNCHANGED <<type, medium, buffer, req, status, card>>

\* The response is good and the transfer breaks off after k blocks.
SendBreaksOff ==
  /\ pc = "command" /\ card.state = "tran" /\ Accepted
  /\ Chunk = 1 => SingleDataErrors
  /\ \E k \in 0..Chunk :
       /\ Moved(k, TRUE)
       /\ \/ Chunk > 1 /\ card' = [state |-> Busy, multi |-> TRUE]
          \/ (Chunk = 1 \/ k = Chunk) /\ UNCHANGED card
  /\ CommandFails(R1("tran", FALSE))
  /\ UNCHANGED <<type, req, status>>

\* The command and its transfer complete; the block count register decides
\* how many blocks that is.
SendCompletes ==
  /\ pc = "command" /\ card.state = "tran" /\ Accepted
  /\ Moved(Chunk % CountMod, FALSE)
  /\ ChunkEnds(ParseResponse(R1("tran", FALSE)))
  /\ UNCHANGED <<type, req, status, card>>

(* mmc_stop_command *)

\* The card answers with the state it was in, and leaves it.
StopAnswered ==
  /\ pc = "stop" /\ card.state \in {"data", "rcv"}
  /\ card' = [state |-> IF card.state = "rcv" THEN "prg" ELSE "tran", multi |-> FALSE]
  /\ ChunkEnds(ParseResponse(R1(card.state, FALSE)))
  /\ UNCHANGED <<type, medium, buffer, req, status>>

\* Illegal outside a transfer, or lost: sdhci_send_command fails.
StopLost ==
  /\ pc = "stop"
  /\ ChunkEnds(1)
  /\ UNCHANGED <<type, medium, buffer, req, status, card>>

-----------------------------------------------------------------------------
(* The card *)

\* A single block the host no longer waits for has been sent, or a write
\* has been programmed.
CardSettles ==
  /\ card.state = "prg" \/ (card.state = "data" /\ ~card.multi)
  /\ card' = [state |-> "tran", multi |-> FALSE]
  /\ UNCHANGED <<type, medium, buffer, req, status, pc, rc, addr, left, sptr>>

Send == SendLost \/ SendResponseLost \/ SendRefused \/ SendBreaksOff \/ SendCompletes
Stop == StopAnswered \/ StopLost

Next ==
  \/ \E r \in Requests : Submit(r)
  \/ Checks \/ Return \/ Send \/ Stop \/ CardSettles

Spec == Init /\ [][Next]_vars

-----------------------------------------------------------------------------
\* The whole of a request is as promised by a block device: whatever the
\* card does, only its own blocks are touched, no protected block is written,
\* and success means that every block has been moved.
Device == INSTANCE BlockDevice
ImplementsBlockDevice == Device!Spec

\* A request reported as a success has moved every one of its blocks.
SuccessIsReal == pc = "idle" /\ status = "success" => Device!Transferred

\* The first blocks of a protected card, which hold its boot loaders, never
\* change.
ProtectedKept == \A b \in ReadOnly : medium[b] = <<0, b>>
=============================================================================
