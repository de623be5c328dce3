------------------------------- MODULE BamPipe -------------------------------
(***************************************************************************)
(* One pipe of the Bus Access Manager, the DMA engine (BamDxe): a circular *)
(* FIFO of descriptors that the driver fills and the hardware empties up   *)
(* to the offset it was last told.  The client is as those of the boot     *)
(* loader the driver comes from: one transfer at a time, then the wait,    *)
(* then the update of the offsets; after an error it sets the pipe up      *)
(* again.                                                                  *)
(***************************************************************************)
EXTENDS Integers, SequencesExt

CONSTANTS FifoSize,         \* descriptors of the FIFO, a power of two
          MaxLen,           \* BAM_MAX_DESC_DATA_LEN
          Transfers, BusErrors

VARIABLES pipe,     \* struct bam_pipe, with the FIFO in memory
          hw,       \* the hardware: offsets, interrupts, what it has moved
          job       \* the client: where it is, and the transfer it asked for
bamVars == <<pipe, hw, job>>

Places == 0..FifoSize - 1
NoDesc == [at |-> 0, size |-> 0, flags |-> {}]
NoTransfer == [id |-> 0, len |-> 0]
BamInit ==
    /\ pipe = [current |-> 0, offset |-> 0, initialized |-> FALSE, fifo |-> [i \in Places |-> NoDesc]]
    /\ hw = [on |-> FALSE, read |-> 0, event |-> 0, status |-> {}, moved |-> <<>>, errors |-> BusErrors]
    /\ job = [pc |-> "off", ask |-> NoTransfer, queued |-> 0, awaits |-> "end", left |-> Transfers]

BamAt(pc) == job.pc = pc

(***************************************************************************)
(* Set-up: bam_init; bam_sys_pipe_init resets the pipe and marks the FIFO  *)
(* as not there; bam_pipe_fifo_init.                                       *)
(***************************************************************************)
InitBam == BamAt("off") /\ job' = [job EXCEPT !.pc = "bam"] /\ UNCHANGED <<pipe, hw>>
SysPipeInit ==
    /\ BamAt("bam")
    /\ hw' = [hw EXCEPT !.on = TRUE, !.read = 0, !.event = 0, !.status = {}, !.moved = <<>>]
    /\ pipe' = [pipe EXCEPT !.initialized = FALSE]
    /\ job' = [job EXCEPT !.pc = "pipe"]
PipeFifoInit ==
    /\ BamAt("pipe")
    /\ pipe' = [pipe EXCEPT !.current = 0, !.offset = 1, !.initialized = TRUE]
    /\ job' = [job EXCEPT !.pc = "ready"]
    /\ UNCHANGED hw

(***************************************************************************)
(* Descriptors.  A transfer is cut into descriptors of MaxLen, the last    *)
(* with the flags; its bytes are numbered from 1.                          *)
(***************************************************************************)
Pieces(len) == (len + MaxLen - 1) \div MaxLen
Piece(len, i, flags) ==
    [at |-> (i - 1) * MaxLen + 1, size |-> IF i < Pieces(len) THEN MaxLen ELSE len - (i - 1) * MaxLen, flags |-> IF i = Pieces(len) THEN flags ELSE {}]
PastEndMutant(place) == IF place = FifoSize THEN 0 ELSE place + 1
NextPlace(place) == IF place = FifoSize - 1 THEN 0 ELSE place + 1
AddOneDesc(p, desc) == [p EXCEPT !.fifo = [i \in Places |-> IF i = p.current THEN desc ELSE @[i]], !.current = NextPlace(@)]

AddDescs(p, descs) ==
    LET added[i \in 0..Len(descs)] == IF i = 0 THEN p ELSE AddOneDesc(added[i - 1], descs[i])
    IN  added[Len(descs)]

(* bam_sys_gen_event: not for a whole FIFO.                                *)
UnmaskedMutant(offset) == IF offset = FifoSize THEN FifoSize - 1 ELSE offset % FifoSize
InFifo(offset) == offset % FifoSize
Notified(p, n) == IF n >= FifoSize THEN hw.event ELSE InFifo(p.offset + n - 1)

(* bam_add_desc.                                                           *)
TooLong(len) == len > FifoSize * MaxLen
Flags == [end |-> {"EOT"}, processed |-> {"INT"}]
NewTransfer == [NoTransfer EXCEPT !.id = 1 - job.ask.id]
AddDesc(len, awaits) ==
    /\ BamAt("ready") /\ job.left > 0
    /\ IF TooLong(len)
       THEN job' = [job EXCEPT !.left = @ - 1] /\ UNCHANGED <<pipe, hw>>
       ELSE LET n == Pieces(len)
            IN /\ pipe' = AddDescs(pipe, [i \in 1..n |-> Piece(len, i, Flags[awaits])])
               /\ hw' = [hw EXCEPT !.event = Notified(pipe, n), !.moved = <<>>]
               /\ job' = [job EXCEPT !.left = @ - 1, !.pc = "wait", !.ask = [NewTransfer EXCEPT !.len = len], !.awaits = awaits]

(* Several calls of bam_add_one_desc, then bam_sys_gen_event for them all. *)
QueueDesc(awaits) ==
    /\ BamAt("ready") \/ BamAt("queue")
    /\ job.left > 0 /\ job.queued < FifoSize - 1
    /\ LET ask == IF BamAt("ready") THEN NewTransfer ELSE job.ask
       IN /\ pipe' = AddOneDesc(pipe, [at |-> ask.len + 1, size |-> MaxLen, flags |-> Flags[awaits]])
          /\ job' = [job EXCEPT !.pc = "queue", !.ask = [ask EXCEPT !.len = @ + MaxLen], !.queued = @ + 1, !.awaits = awaits]
    /\ hw' = [hw EXCEPT !.moved = <<>>]
GenEvent ==
    /\ BamAt("queue")
    /\ hw' = [hw EXCEPT !.event = Notified(pipe, job.queued)]
    /\ job' = [job EXCEPT !.pc = "wait", !.queued = 0, !.left = @ - 1]
    /\ UNCHANGED pipe

----------------------------------------------------------------------------
(***************************************************************************)
(* The hardware moves the bytes of one descriptor after another until its  *)
(* offset is the one it was told.                                          *)
(***************************************************************************)
BytesOf(desc) == [i \in 1..desc.size |-> desc.at + i - 1]
Raised(desc) == (IF "EOT" \in desc.flags THEN {"end"} ELSE {}) \cup (IF "INT" \in desc.flags THEN {"processed"} ELSE {})
Process ==
    /\ hw.on /\ hw.read # hw.event
    /\ LET desc == pipe.fifo[hw.read]
       IN hw' = [hw EXCEPT !.read = (@ + 1) % FifoSize, !.status = @ \cup Raised(desc), !.moved = @ \o BytesOf(desc)]
    /\ UNCHANGED <<pipe, job>>
Error ==
    /\ hw.on /\ hw.read # hw.event /\ hw.errors > 0
    /\ hw' = [hw EXCEPT !.status = @ \cup {"error"}, !.errors = @ - 1]
    /\ UNCHANGED <<pipe, job>>

(***************************************************************************)
(* bam_wait_for_interrupt for the last descriptor: the status is read, and *)
(* all its bits are cleared a step later, after the hardware may have gone *)
(* on.  Of several descriptors with the flag the client waits until the    *)
(* offset has come to the last.                                            *)
(***************************************************************************)
Wait ==
    /\ BamAt("wait")
    /\ \/ "error" \in hw.status /\ job' = [job EXCEPT !.pc = "failed"]
       \/ "error" \notin hw.status /\ job.awaits \in hw.status /\ job' = [job EXCEPT !.pc = "clear"]
       \/ hw.status = {"end"} /\ job.awaits = "processed" /\ job' = [job EXCEPT !.pc = "failed"]
    /\ UNCHANGED <<pipe, hw>>
AllRead == hw.read = hw.event
ClearInterrupts ==
    /\ BamAt("clear")
    /\ hw' = [hw EXCEPT !.status = @ \ {"end", "processed"}]
    /\ job' = [job EXCEPT !.pc = IF AllRead THEN "done" ELSE "wait"]
    /\ UNCHANGED pipe
SetUpAgain == BamAt("failed") /\ job' = [job EXCEPT !.pc = "bam", !.ask = NoTransfer] /\ UNCHANGED <<pipe, hw>>

(* bam_read_offset_update.                                                 *)
ReadOffsetUpdate ==
    /\ BamAt("done")
    /\ pipe' = [pipe EXCEPT !.current = hw.read, !.offset = hw.read + 1]
    /\ job' = [job EXCEPT !.pc = "ready"]
    /\ UNCHANGED hw

BamNext ==
    \/ InitBam \/ SysPipeInit \/ PipeFifoInit \/ GenEvent \/ Process \/ Error \/ Wait \/ ClearInterrupts \/ SetUpAgain \/ ReadOffsetUpdate
    \/ \E awaits \in {"end", "processed"} :
        \/ QueueDesc(awaits)
        \/ \E len \in {1, MaxLen, MaxLen + 1, (FifoSize - 1) * MaxLen, FifoSize * MaxLen, FifoSize * MaxLen + 1} : AddDesc(len, awaits)
BamSpec == BamInit /\ [][BamNext]_bamVars

----------------------------------------------------------------------------
(* The hardware moves the bytes of the transfer in their order and no      *)
(* other, never a descriptor of a round before, wherever in the FIFO the   *)
(* transfer begins; when the wait succeeds it has moved them all, and the  *)
(* driver and the hardware agree on where the next descriptor goes.        *)
TransferMoved ==
    /\ ~(BamAt("bam") \/ BamAt("failed")) => IsPrefix(hw.moved, [i \in 1..job.ask.len |-> i])
    /\ BamAt("done") => Len(hw.moved) = job.ask.len
    /\ BamAt("ready") => pipe.current = hw.read /\ hw.read = hw.event
=============================================================================
