-------------------------- MODULE ConSplitterPointer --------------------------
(***************************************************************************)
(* The console splitter's two virtual pointers (ConSplitterDxe): the mice  *)
(* and the touch screens that it is started on, each kind in a list of its *)
(* own, seen by the client as one mouse and one touch screen.  One axis    *)
(* stands for the three, which the code treats alike.                      *)
(***************************************************************************)
EXTENDS Integers, FiniteSetsExt, SequencesExt

CONSTANTS Resolution,       \* of each mouse; 0 for one without the axis
          MaxX,             \* of each touch screen; AbsoluteMinX is 0 (see README)
          VirtualResolution, VirtualMaxX,
          Room,             \* entries by which ConSplitterGrowBuffer enlarges a list
          PointerCalls      \* bound on the calls and movements of a behaviour

VARIABLES ptr,      \* the lists, their room, InputEventSignalState; the handles opened
          dev,      \* the devices: movement or position not yet read
          client    \* ghost: what the devices handed over and what the client got
ptrVars == <<ptr, dev, client>>

Mice == DOMAIN Resolution
Screens == DOMAIN MaxX
Devices == Mice \cup Screens
Kinds == {"simple", "absolute"}
KindOf(d) == IF d \in Mice THEN "simple" ELSE "absolute"

Idle == [moved |-> 0, at |-> 0, fresh |-> FALSE, buttons |-> {}]
Nothing == [call |-> "none", kind |-> "simple", answer |-> "none", at |-> 0, owed |-> 0, broken |-> {}]
PtrInit ==
    /\ ptr = [list |-> [k \in Kinds |-> <<>>], room |-> [k \in Kinds |-> 0], signal |-> [k \in Kinds |-> FALSE],
              open |-> {}, calls |-> PointerCalls]
    /\ dev = [d \in Devices |-> Idle]
    /\ client = [got |-> 0, handed |-> 0, last |-> Nothing]

Calling == ptr.calls > 0
Counted(p) == [p EXCEPT !.calls = @ - 1]
Did(call, k, answer) == [client EXCEPT !.last = [Nothing EXCEPT !.call = call, !.kind = k, !.answer = answer]]

----------------------------------------------------------------------------
(***************************************************************************)
(* Driver binding.  ConSplitterStart opens the device; the list grows when *)
(* it is full, and a growth that fails leaves the device open.             *)
(***************************************************************************)
Listed(d) == d \in ToSet(ptr.list[KindOf(d)])
AddDevice(p, d) == [p EXCEPT !.list[KindOf(d)] = Append(@, d)]
Grown(p, k) == IF Len(p.list[k]) >= p.room[k] THEN [p EXCEPT !.room[k] = @ + Room] ELSE p
Start(d) ==
    /\ Calling /\ d \notin ptr.open
    /\ LET k == KindOf(d)
           opened == Counted([ptr EXCEPT !.open = @ \cup {d}])
       IN \/ ptr' = AddDevice(Grown(opened, k), d)
          \/ Len(ptr.list[k]) >= ptr.room[k] /\ ptr' = opened      \* EFI_OUT_OF_RESOURCES
    /\ client' = Did("start", KindOf(d), "none")
    /\ UNCHANGED dev

(* The entries behind the one removed move up; the last one stays behind   *)
(* the new end.                                                            *)
KeepFirstMutant(list, d) == IF d \in ToSet(list) THEN Front(list) ELSE list
Deleted(list, d) == Remove(list, d)
Stop(d) ==
    /\ Calling /\ d \in ptr.open
    /\ ptr' = Counted([ptr EXCEPT !.open = @ \ {d}, !.list[KindOf(d)] = Deleted(@, d)])
    /\ client' = Did("stop", KindOf(d), "none")
    /\ UNCHANGED dev

----------------------------------------------------------------------------
(***************************************************************************)
(* Devices.                                                                *)
(***************************************************************************)
Bounded(d, m) == m >= -2 /\ m <= 2
Moves(d, dx) ==
    /\ Calling /\ ptr' = Counted(ptr)
    /\ IF d \in Mice THEN Bounded(d, dev[d].moved + dx) /\ dev' = [dev EXCEPT ![d].moved = @ + dx, ![d].fresh = TRUE]
       ELSE dev' = [dev EXCEPT ![d].at = IF dx > 0 THEN MaxX[d] ELSE 1, ![d].fresh = TRUE]
    /\ client' = [client EXCEPT !.last = Nothing]
Presses(d, b) ==
    /\ Calling /\ ptr' = Counted(ptr)
    /\ dev' = [dev EXCEPT ![d].buttons = IF b \in @ THEN @ \ {b} ELSE @ \cup {b}, ![d].fresh = TRUE]
    /\ client' = [client EXCEPT !.last = Nothing]

----------------------------------------------------------------------------
(***************************************************************************)
(* The virtual pointers.                                                   *)
(***************************************************************************)
(* Reset reaches every device, whatever the ones before it answer.         *)
Reset(k) ==
    /\ Calling /\ ptr' = Counted([ptr EXCEPT !.signal[k] = FALSE])
    /\ dev' = [d \in Devices |-> IF Listed(d) /\ KindOf(d) = k THEN [dev[d] EXCEPT !.moved = 0, !.fresh = FALSE] ELSE dev[d]]
    /\ client' = Did("reset", k, "none")

(* The event is signalled again until the state is read.                   *)
WaitForInput(k) ==
    /\ Calling
    /\ LET ready == ptr.signal[k] \/ \E d \in ToSet(ptr.list[k]) : dev[d].fresh
       IN /\ ptr' = Counted([ptr EXCEPT !.signal[k] = ready])
          /\ client' = Did("wait", k, IF ready THEN "signalled" ELSE "silent")
    /\ UNCHANGED dev

(* Division in C rounds towards zero.                                      *)
Quotient(a, b) == IF a >= 0 THEN a \div b ELSE -((-a) \div b)
Scaled(d, dx) == IF Resolution[d] = 0 THEN 0 ELSE Quotient(dx * VirtualResolution, Resolution[d])

(* An error of any device is the answer, even with the state of another.   *)
Answer(list, broken) ==
    IF ToSet(list) \cap broken # {} THEN "device_error"
    ELSE IF \E d \in ToSet(list) : dev[d].fresh THEN "success" ELSE "not_ready"
Answering(list, broken) == {d \in ToSet(list) : d \notin broken /\ dev[d].fresh}
Read(read) == dev' = [d \in Devices |-> IF d \in read THEN [dev[d] EXCEPT !.moved = 0, !.fresh = FALSE] ELSE dev[d]]
OverwriteMutant(list, read) == LET last == SelectLastInSeq(list, LAMBDA d : d \in read) IN IF last = 0 THEN 0 ELSE Scaled(list[last], dev[list[last]].moved)
Movement(list, read) == MapThenSumSet(LAMBDA d : Scaled(d, dev[d].moved), read)
GetState(broken) ==
    /\ Calling /\ ptr' = Counted([ptr EXCEPT !.signal["simple"] = FALSE])
    /\ LET list == ptr.list["simple"]
           read == Answering(list, broken)
       IN /\ Read(read)
          /\ client' = [client EXCEPT !.got = @ + Movement(list, read),
                                      !.handed = @ + MapThenSumSet(LAMBDA d : IF Resolution[d] = 0 THEN 0 ELSE (dev[d].moved * VirtualResolution) \div Resolution[d], read),
                                      !.last = [Nothing EXCEPT !.call = "read", !.answer = Answer(list, broken), !.broken = broken]]

(* The last touch screen with a new state gives the position; one without  *)
(* a range leaves the position as it is.                                   *)
InVirtualRange(d, at) == (at * VirtualMaxX) \div MaxX[d]
Position(list, read) ==
    LET last == SelectLastInSeq(list, LAMBDA d : d \in read /\ MaxX[d] # 0)
    IN IF last = 0 THEN 0 ELSE InVirtualRange(list[last], dev[list[last]].at)
AbsoluteGetState(broken) ==
    /\ Calling /\ ptr' = Counted([ptr EXCEPT !.signal["absolute"] = FALSE])
    /\ LET list == ptr.list["absolute"]
           read == Answering(list, broken)
       IN /\ Read(read)
          /\ client' = [client EXCEPT !.last = [Nothing EXCEPT !.call = "read", !.kind = "absolute", !.answer = Answer(list, broken),
                                                               !.at = Position(list, read), !.owed = Cardinality(read), !.broken = broken]]

SimplePointerStart(d) == d \in Mice /\ Start(d)
SimplePointerStop(d) == d \in Mice /\ Stop(d)
SimplePointerReset == Reset("simple")
SimplePointerWaitForInput == WaitForInput("simple")
AbsolutePointerStart(d) == d \in Screens /\ Start(d)
AbsolutePointerStop(d) == d \in Screens /\ Stop(d)
AbsolutePointerReset == Reset("absolute")
AbsolutePointerWaitForInput == WaitForInput("absolute")

PtrNext ==
    \/ \E d \in Devices : Presses(d, "left") \/ \E dx \in {-1, 1} : Moves(d, dx)
    \/ \E d \in Devices : SimplePointerStart(d) \/ SimplePointerStop(d) \/ AbsolutePointerStart(d) \/ AbsolutePointerStop(d)
    \/ SimplePointerReset \/ SimplePointerWaitForInput \/ AbsolutePointerReset \/ AbsolutePointerWaitForInput
    \/ \E broken \in {{}} \cup {{d} : d \in Devices} : GetState(broken) \/ AbsoluteGetState(broken)
PtrSpec == PtrInit /\ [][PtrNext]_ptrVars

----------------------------------------------------------------------------
(* What the mice handed over is what the client got, whichever mice came   *)
(* and went; a wait that stays silent and a read that succeeds leave no    *)
(* device of the splitter with something unread; and a position lies in    *)
(* the range of the virtual touch screen.                                  *)
NothingUnread(k, broken) == \A d \in ptr.open : (KindOf(d) = k /\ Listed(d) /\ d \notin broken) => ~dev[d].fresh
InputDelivered ==
    /\ client.got = client.handed
    /\ client.last.answer = "silent" => NothingUnread(client.last.kind, {})
    /\ client.last.call = "read" => /\ NothingUnread(client.last.kind, client.last.broken)
                                    /\ client.last.at \in 0..VirtualMaxX
    /\ \A k \in Kinds : /\ ToSet(ptr.list[k]) \subseteq ptr.open
                        /\ IsInjective(ptr.list[k])
=============================================================================
