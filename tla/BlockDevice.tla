---------------------------- MODULE BlockDevice -----------------------------
(***************************************************************************)
(* What EFI_BLOCK_IO_PROTOCOL promises its callers, and MMCHS.c publishes: *)
(* a request moves its own blocks between its buffer and the medium, in    *)
(* any order and perhaps only in part, touches no other block, never       *)
(* writes a protected one, and is reported as a success only when all of   *)
(* its blocks have been moved.                                             *)
(***************************************************************************)
EXTENDS Integers

CONSTANTS
  Blocks,         \* block numbers of the medium
  ReadOnly,       \* the protected ones among them
  Requests,       \* [id, op, lba, n]: the requests callers make
  Values          \* what a block may hold

VARIABLES medium, buffer, req, status
vars == <<medium, buffer, req, status>>

\* What request r puts into its i-th block, and what its buffer holds first.
Payload(r, i) == <<r.id, i>>
Fresh == <<>>
Buffer(r) == [i \in 0..(r.n - 1) |-> Fresh]

Init ==
  /\ medium = [b \in Blocks |-> <<0, b>>]
  /\ buffer = <<>> /\ req.id = 0 /\ status = "success"

Submit ==
  /\ status # "pending" /\ status' = "pending"
  /\ req' \in Requests /\ req'.id = req.id + 1
  /\ buffer' = Buffer(req')
  /\ UNCHANGED medium

Inside(b) == b >= req.lba /\ b < req.lba + req.n

\* Until the request ends, a read leaves anything in its buffer; a write
\* brings blocks of its range to the new contents.
Move ==
  /\ status = "pending"
  /\ IF req.op = "read"
     THEN buffer' \in [0..(req.n - 1) -> Values] /\ UNCHANGED medium
     ELSE /\ DOMAIN medium' = Blocks
          /\ \A b \in Blocks :
               \/ medium'[b] = medium[b]
               \/ /\ Inside(b) /\ b \notin ReadOnly
                  /\ medium'[b] = Payload(req, b - req.lba)
          /\ UNCHANGED buffer
  /\ UNCHANGED <<req, status>>

Transferred ==
  \A i \in 0..(req.n - 1) :
    /\ req.lba + i \in Blocks
    /\ medium[req.lba + i] = IF req.op = "read" THEN buffer[i] ELSE Payload(req, i)

Finish ==
  /\ status = "pending"
  /\ \/ status' = "success" /\ Transferred
     \/ status' \in {"invalid", "unsupported", "device_error", "media_changed", "bad_size"}
  /\ UNCHANGED <<medium, buffer, req>>

Next == Submit \/ Move \/ Finish
Spec == Init /\ [][Next]_vars
=============================================================================
