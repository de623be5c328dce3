---------------------------- MODULE KeypadTextIn ----------------------------
(***************************************************************************)
(* The keypad's text-input driver (Drivers/KeypadDxe): two key queues, the *)
(* list of key notifications and the event that runs them.                 *)
(*                                                                         *)
(* Two actors.  The application runs at TPL_APPLICATION.  At TPL_CALLBACK  *)
(* run the driver's timer event and KeyNotifyProcessHandler, one at a time *)
(* and to their end, so the application makes no step while the handler is *)
(* under way; the functions the handler calls may use the protocol.  What  *)
(* the code does between RaiseTPL(TPL_NOTIFY) and RestoreTPL is one step.  *)
(*                                                                         *)
(* The keypad device is external: a poll brings any short batch of strokes *)
(* (KEYPAD_DEVICE_PROTOCOL.GetKeys).  A stroke is [key, state]; state      *)
(* stands for KeyShiftState and KeyToggleState, and 0 in a registration    *)
(* for "any".  Presses are numbered so that two of one stroke can be told. *)
(* KeypadErr is left out: nothing in the driver sets it.                   *)
(***************************************************************************)
EXTENDS Integers, Sequences, FiniteSets, SequencesExt, KeyQueue

CONSTANTS
  Keys, States, \* what the device can report, and what can be registered
  Null,         \* the key of a partial keystroke, SCAN_NULL and CHAR_NULL
  MaxBatch,     \* most strokes one poll brings
  MaxPresses,   \* bound on the strokes in a behaviour
  Handles,      \* the registrations memory can hold
  Functions,    \* notification functions
  MaxChanges,   \* bound on the changes notification functions make to the list
  MaxEvents,    \* bound on strokes and changes together
  CallbackOps   \* what a notification function may do: "read", "register", "unregister"

ASSUME ParametersAssumption ==
  /\ {MaxBatch, MaxPresses, MaxChanges, MaxEvents} \subseteq Nat
  /\ CallbackOps \subseteq {"read", "register", "unregister"}

Strokes   == [key : Keys, state : States]
Registers == {s \in Strokes : s.key # Null}

VARIABLES
  EfiKeyQueue, EfiKeyQueueForNotify,
  NotifyList,          \* sequence of [handle, fn, stroke]
  IsSupportPartialKey,
  signalled,           \* KeyNotifyProcessEvent waits to be dispatched
  handler,             \* KeyNotifyProcessHandler: [pc, key, link, own, next], see IdleState
  app,                 \* ReadKeyStroke: "reading" in its loop; how it last ended
  pressed,             \* strokes reported so far
  promised,            \* WaitForKey reported a key that was not read, reset or pushed out since
  resets,              \* flips at every Reset
  changes              \* changes notification functions have made to the list

queues == <<EfiKeyQueue, EfiKeyQueueForNotify>>
vars == <<queues, NotifyList, IsSupportPartialKey, signalled, handler, app, pressed,
          promised, resets, changes>>

NoPress   == [key |-> Null, state |-> 0, n |-> 0]
NoHandle  == "list head"

\* own: the function served has unregistered its own registration, so that link is a node
\* that was freed; next: what that node's ForwardLink said when it was taken off the list.
\* pc = "lost": the walk has read freed memory that is no longer what it was, and what the
\* program does from there on is not defined.
IdleState == [pc |-> "idle", key |-> NoPress, link |-> NoHandle, own |-> FALSE, next |-> NoHandle]

Init ==
  /\ EfiKeyQueue = NewQueue(NoPress) /\ EfiKeyQueueForNotify = NewQueue(NoPress)
  /\ NotifyList = <<>>
  /\ IsSupportPartialKey = FALSE
  /\ signalled = FALSE
  /\ handler = IdleState
  /\ app = "idle"
  /\ pressed = 0
  /\ promised = FALSE
  /\ resets = FALSE
  /\ changes = 0

-----------------------------------------------------------------------------
(* Helpers.                                                                 *)

\* 0 in the registered state matches every state; 0 in the other does not.
IsKeyRegistered(registered, input) ==
  registered.key = input.key /\ registered.state \in {0, input.state}

IsPartial(press) == press.key = Null

\* Copies of a press that KeypadReturnApiPushEfikeyBufTail queues for the handler:
\* one for every registration it matches.
Matching(press) == {i \in DOMAIN NotifyList : IsKeyRegistered(NotifyList[i].stroke, press)}
Copies(press) == [i \in 1..Cardinality(Matching(press)) |-> press]

\* The presses one poll of the device brings and the driver keeps.
Polls == UNION {[1..n -> Strokes] : n \in 0..MaxBatch}
Presses(strokes) ==
  [i \in DOMAIN strokes |-> [key |-> strokes[i].key, state |-> strokes[i].state, n |-> pressed + i]]
Keeps(press) == IsSupportPartialKey \/ ~IsPartial(press)
Kept(presses) ==
  LET kept[i \in 0..Len(presses)] ==
        IF i = 0 THEN <<>>
        ELSE IF Keeps(presses[i]) THEN Append(kept[i - 1], presses[i]) ELSE kept[i - 1]
  IN  kept[Len(presses)]

AfterPushes(queue, presses) ==
  LET after[i \in 0..Len(presses)] ==
        IF i = 0 THEN queue ELSE PushEfikeyBufTail(after[i - 1], presses[i])
  IN  after[Len(presses)]

ForHandler(kept) ==
  LET copies[i \in 0..Len(kept)] == IF i = 0 THEN <<>> ELSE copies[i - 1] \o Copies(kept[i])
  IN  copies[Len(kept)]

Signals(copies) == signalled \/ copies # <<>>

\* KeypadTimerHandler, at TPL_NOTIFY: poll the device and push what it reports.
\* EfiKeyQueue' is left to the caller, which may read from the queue it is given.
Poll(kept, strokes) ==
  LET copies == ForHandler(kept)
  IN  /\ pressed + Len(strokes) <= MaxPresses
      /\ pressed + Len(strokes) + changes <= MaxEvents
      /\ pressed' = pressed + Len(strokes)
      /\ EfiKeyQueueForNotify' = AfterPushes(EfiKeyQueueForNotify, copies)
      /\ signalled' = Signals(copies)

\* No key is pushed out of the reading queue when these are pushed.
AllFit(kept) == Waiting(EfiKeyQueue) + Len(kept) < MaxCount

\* The reading queue after a poll that brings these strokes.
Polled(strokes) == AfterPushes(EfiKeyQueue, Kept(Presses(strokes)))

\* KeypadReadKeyStrokeWorker: poll, then take the oldest key.
Worker(strokes) ==
  LET kept  == Kept(Presses(strokes))
      queue == Polled(strokes)
  IN  /\ Poll(kept, strokes)
      /\ EfiKeyQueue' = PopEfikeyBufHead(queue)
      /\ promised' = (/\ promised
                      /\ AllFit(kept)
                      /\ IsEfikeyBufEmpty(queue) \/ IsPartial(HeadKey(queue)))

\* RegisterKeyNotify: an existing registration that covers the new one is returned.
Covers(r, fn, stroke) == IsKeyRegistered(r.stroke, stroke) /\ r.fn = fn

Register(fn, stroke) ==
  IF \E i \in DOMAIN NotifyList : Covers(NotifyList[i], fn, stroke)
    THEN UNCHANGED NotifyList
    ELSE \E h \in Handles \ {NotifyList[i].handle : i \in DOMAIN NotifyList} :
           NotifyList' = Append(NotifyList, [handle |-> h, fn |-> fn, stroke |-> stroke])

Unregister(h) ==
  \E i \in DOMAIN NotifyList :
    NotifyList[i].handle = h /\ NotifyList' = RemoveAt(NotifyList, i)

-----------------------------------------------------------------------------
(* The timer event and the application, while the handler is not running.   *)

AppRunsMutant == TRUE
AppRuns == handler.pc = "idle"

TimerPoll ==
  /\ AppRuns
  /\ \E strokes \in Polls \ {<<>>} :
       LET kept == Kept(Presses(strokes))
       IN  /\ Poll(kept, strokes)
           /\ EfiKeyQueue' = AfterPushes(EfiKeyQueue, kept)
           /\ promised' = (promised /\ AllFit(kept))
  /\ UNCHANGED <<NotifyList, IsSupportPartialKey, handler, app, resets, changes>>

\* KeypadWaitForKey: drop partial keys at the head, signal if a key is left.
SkippedMutant(queue) == IF IsPartial(HeadKey(queue)) THEN 0 ELSE 0
Skipped(queue) ==
  CHOOSE n \in 0..Waiting(queue) :
    /\ \A i \in 1..n : IsPartial(Contents(queue)[i])
    /\ n = Waiting(queue) \/ ~IsPartial(Contents(queue)[n + 1])

WaitForKey ==
  /\ AppRuns /\ app # "reading"
  /\ \E strokes \in Polls :
       LET kept  == Kept(Presses(strokes))
           queue == AfterPushes(EfiKeyQueue, kept)
       IN  /\ Poll(kept, strokes)
           /\ EfiKeyQueue' = [queue EXCEPT !.Head = (queue.Head + Skipped(queue)) % MaxCount]
           /\ promised' = (Skipped(queue) < Waiting(queue))
  /\ UNCHANGED <<NotifyList, IsSupportPartialKey, handler, app, resets, changes>>

ReadKeyStroke ==
  /\ AppRuns /\ app # "reading"
  /\ app' = "reading"
  /\ UNCHANGED <<queues, NotifyList, IsSupportPartialKey, signalled, handler, pressed,
                 promised, resets, changes>>

\* One turn of ReadKeyStroke's loop.
ReadTurn ==
  /\ AppRuns /\ app = "reading"
  /\ \E strokes \in Polls :
       /\ Worker(strokes)
       /\ app' = IF IsEfikeyBufEmpty(Polled(strokes)) THEN "not_ready"
                 ELSE IF IsPartial(HeadKey(Polled(strokes))) THEN "reading" ELSE "idle"
  /\ UNCHANGED <<NotifyList, IsSupportPartialKey, handler, resets, changes>>

ReadKeyStrokeEx ==
  /\ AppRuns /\ app # "reading"
  /\ \E strokes \in Polls : Worker(strokes)
  /\ UNCHANGED <<NotifyList, IsSupportPartialKey, handler, app, resets, changes>>

Reset ==
  /\ AppRuns /\ app # "reading"
  /\ EfiKeyQueue' = Cleared(EfiKeyQueue)
  /\ EfiKeyQueueForNotify' = Cleared(EfiKeyQueueForNotify)
  /\ IsSupportPartialKey' = FALSE
  /\ resets' = ~resets
  /\ promised' = FALSE
  /\ UNCHANGED <<NotifyList, signalled, handler, app, pressed, changes>>

SetState ==
  /\ AppRuns /\ app # "reading"
  /\ IsSupportPartialKey' \in BOOLEAN
  /\ UNCHANGED <<queues, NotifyList, signalled, handler, app, pressed, promised, resets, changes>>

RegisterKeyNotify ==
  /\ AppRuns /\ app # "reading"
  /\ \E fn \in Functions, stroke \in Registers : Register(fn, stroke)
  /\ UNCHANGED <<queues, IsSupportPartialKey, signalled, handler, app, pressed, promised, resets, changes>>

UnregisterKeyNotify ==
  /\ AppRuns /\ app # "reading"
  /\ \E h \in Handles : Unregister(h)
  /\ UNCHANGED <<queues, IsSupportPartialKey, signalled, handler, app, pressed, promised, resets, changes>>

-----------------------------------------------------------------------------
(* KeyNotifyProcessHandler.                                                 *)

\* The dispatcher clears the event before it calls the handler.
Dispatch ==
  /\ AppRuns /\ signalled
  /\ signalled' = FALSE
  /\ handler' = [handler EXCEPT !.pc = "pop"]
  /\ UNCHANGED <<queues, NotifyList, IsSupportPartialKey, app, pressed, promised, resets, changes>>

LinkAt(i) == IF i \in DOMAIN NotifyList THEN NotifyList[i].handle ELSE NoHandle

AfterPop(queue) == IF IsEfikeyBufEmpty(queue) THEN "idle" ELSE "walk"

HandlerPops ==
  /\ handler.pc = "pop"
  /\ EfiKeyQueueForNotify' = PopEfikeyBufHead(EfiKeyQueueForNotify)
  /\ handler' = IF AfterPop(EfiKeyQueueForNotify) = "idle"
                  THEN IdleState
                  ELSE [IdleState EXCEPT !.pc = "walk", !.key = HeadKey(EfiKeyQueueForNotify),
                                         !.link = LinkAt(1)]
  /\ UNCHANGED <<EfiKeyQueue, NotifyList, IsSupportPartialKey, signalled, app, pressed,
                 promised, resets, changes>>

Position(h) == CHOOSE i \in DOMAIN NotifyList : NotifyList[i].handle = h
LinkIsAlive == \E i \in DOMAIN NotifyList : NotifyList[i].handle = handler.link

Standing(pc, link, own) ==
  [IdleState EXCEPT !.pc = pc, !.key = handler.key, !.link = link, !.own = own]

\* GetNextNode from a node that is in the list.
OnwardMutant == [handler EXCEPT !.pc = "walk"]
Onward == Standing("walk", LinkAt(Position(handler.link) + 1), FALSE)

\* GetNextNode from a node that was freed: its memory may still hold the old link.
OnwardFromFreed == {Standing("walk", handler.next, TRUE), Standing("lost", handler.link, TRUE)}

HandlerWalks ==
  /\ handler.pc = "walk"
  /\ \/ /\ handler.link = NoHandle
        /\ handler' = [IdleState EXCEPT !.pc = "pop"]
     \/ /\ LinkIsAlive
        /\ handler' = IF IsKeyRegistered(NotifyList[Position(handler.link)].stroke, handler.key)
                        THEN Standing("call", handler.link, FALSE) ELSE Onward
     \/ /\ handler.link # NoHandle /\ ~LinkIsAlive
        /\ handler' = [handler EXCEPT !.pc = "lost"]
  /\ UNCHANGED <<queues, NotifyList, IsSupportPartialKey, signalled, app, pressed, promised, resets, changes>>

\* The notification function: nothing, a read, or a change of the list.
CallbackReturns ==
  /\ handler.pc = "call"
  /\ IF LinkIsAlive THEN handler' = Onward ELSE handler' \in OnwardFromFreed
  /\ UNCHANGED <<queues, NotifyList, IsSupportPartialKey, signalled, app, pressed, promised, resets, changes>>

MayChange == changes < MaxChanges /\ pressed + changes < MaxEvents

CallbackReads ==
  /\ "read" \in CallbackOps
  /\ handler.pc = "call"
  /\ \E strokes \in Polls : Worker(strokes)
  /\ UNCHANGED <<NotifyList, IsSupportPartialKey, handler, app, resets, changes>>

\* The memory of the function's own registration may be used again for the new one.
CallbackRegisters ==
  /\ "register" \in CallbackOps
  /\ handler.pc = "call"
  /\ MayChange /\ changes' = changes + 1
  /\ \E fn \in Functions, stroke \in Registers : Register(fn, stroke)
  /\ UNCHANGED <<queues, IsSupportPartialKey, signalled, handler, app, pressed, promised, resets>>

\* Of any registration, the one being served too.
CallbackUnregisters ==
  /\ "unregister" \in CallbackOps
  /\ handler.pc = "call"
  /\ MayChange /\ changes' = changes + 1
  /\ \E h \in Handles :
       /\ Unregister(h)
       /\ handler' = IF h = handler.link
                       THEN [handler EXCEPT !.own = TRUE, !.next = LinkAt(Position(h) + 1)]
                       ELSE handler
  /\ UNCHANGED <<queues, IsSupportPartialKey, signalled, app, pressed, promised, resets>>

Handler == HandlerPops \/ HandlerWalks \/ CallbackReturns
Callback == CallbackReads \/ CallbackRegisters \/ CallbackUnregisters

App ==
  \/ WaitForKey \/ ReadKeyStroke \/ ReadTurn \/ ReadKeyStrokeEx \/ Reset \/ SetState
  \/ RegisterKeyNotify \/ UnregisterKeyNotify

Next == TimerPoll \/ App \/ Dispatch \/ Handler \/ Callback

Spec == Init /\ [][Next]_vars

\* A signalled event is dispatched and its handler runs on; a notification function
\* that returns is what CallbackReturns in Handler stands for.
FairSpec == Spec /\ WF_vars(Dispatch) /\ WF_vars(Handler)

-----------------------------------------------------------------------------
Press == [key : Keys \cup {Null}, state : States \cup {0}, n : 0..MaxPresses]
Links == Handles \cup {NoHandle}
Registrations == [handle : Handles, fn : Functions, stroke : Registers]

TypeOK ==
  /\ {EfiKeyQueue, EfiKeyQueueForNotify} \subseteq QueuesOf(Press)
  /\ NotifyList \in Seq(Registrations)
  /\ {IsSupportPartialKey, signalled, promised, resets} \subseteq BOOLEAN
  /\ handler \in [pc : {"idle", "pop", "walk", "call", "lost"}, key : Press,
                   link : Links, own : BOOLEAN, next : Links]
  /\ app \in {"idle", "reading", "not_ready"}
  /\ pressed \in 0..MaxPresses
  /\ changes \in 0..MaxChanges

\* A key put aside for notification functions is not stranded: the handler gets to
\* it, or a reset does, unless the handler has lost its way in freed memory, which
\* WalkOnLiveList says how it comes to.
NotifyDrains ==
  ~IsEfikeyBufEmpty(EfiKeyQueueForNotify) ~>
    IsEfikeyBufEmpty(EfiKeyQueueForNotify) \/ handler.pc = "lost"

\* "if there is pending value key, signal the event" (KeypadTextIn.c:314): once
\* WaitForKey has reported a key, ReadKeyStroke finds one, unless it was read or reset
\* away, or pushed out by newer ones, meanwhile.
WaitTellsTruth == [][app = "reading" /\ app' = "not_ready" => ~promised]_vars

\* The walk over NotifyList (KeypadTextIn.c:658-666), which holds no lock while a
\* notification function runs, stands on a registration that has been freed, or gets lost
\* from one, only where the function it served unregistered its own registration; whatever
\* else functions and the application add and remove, it stands on a live one.
WalkOnLiveList ==
  /\ handler.pc \in {"walk", "call"} => handler.link = NoHandle \/ LinkIsAlive \/ handler.own
  /\ handler.pc = "lost" => handler.own

\* With it, the list and the queues keep their shape.
NotifyListSound == TypeOK /\ WalkOnLiveList

\* The reading queue is a LossyQueue: presses come out in order, and one is lost only
\* to MaxCount - 1 newer ones (the ring's places but one).
Batch == {s \in UNION {[1..n -> Press] : n \in 0..MaxBatch} :
            \A i \in DOMAIN s : s[i].n > 0 /\ (i > 1 => s[i].n > s[i - 1].n)}
ReadQueue == INSTANCE LossyQueue WITH
  contents <- Contents(EfiKeyQueue), arrived <- pressed, epoch <- resets,
  Capacity <- MaxCount - 1, Batches <- Batch, Skippable <- IsPartial
ImplementsLossyQueue == ReadQueue!Spec
=============================================================================
