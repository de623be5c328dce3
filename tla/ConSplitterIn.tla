---------------------------- MODULE ConSplitterIn ---------------------------
(***************************************************************************)
(* The virtual ConIn of the console splitter (ConSplitterDxe): it gathers  *)
(* the keyboards in two lists, one of SimpleTextInput and one of its       *)
(* extension, merges their keys, registers every key notification with     *)
(* each of them and keeps their toggle states (Caps Lock) the same.        *)
(*                                                                         *)
(* The splitter raises no TPL: a keyboard's notifications run between any  *)
(* two steps of ConSplitterTextInSetState, the one call of several steps   *)
(* that shares state with them.  The keyboards are external: they are      *)
(* modelled by what the splitter and KeypadDxe ask of each other.          *)
(***************************************************************************)
EXTENDS Integers, SequencesExt

CONSTANTS
  Devices,        \* keyboards
  ExDevices,      \* sets of them that may have SimpleTextInputEx as well
  Fns, States,    \* notification functions of clients, key states they register
  AllocUnit,      \* CONSOLE_SPLITTER_ALLOC_UNIT, 32
  MemoryFails,    \* ReallocatePool may fail
  Refuses,        \* a keyboard may refuse a call
  MaxPresses,     \* bound on the key presses of a behaviour
  MaxCalls        \* bound on the stops, resets and client calls that set a state or a registration

\* A registration is of the notification function fn for a key, here in one
\* state of it or, with 0, in every state.
ToggleSync == [fn |-> "sync", state |-> 0]
Requests == [fn : Fns, state : States]

ASSUME SplitterAssumption ==
  /\ ExDevices \subseteq SUBSET Devices /\ "none" \notin Devices
  /\ "sync" \notin Fns /\ States \subseteq Nat
  /\ AllocUnit \in Nat \ {0} /\ MemoryFails \in BOOLEAN /\ Refuses \in BOOLEAN
  /\ MaxPresses \in Nat /\ MaxCalls \in Nat

VARIABLES
  ex,                     \* the keyboards that have SimpleTextInputEx
  opened,                 \* keyboards the driver holds BY_DRIVER
  textIn, textInCount,    \* TextInList and its size
  textInEx, exCount,      \* TextInExList and its size
  queueSize,              \* size of KeyQueue
  NotifyList,             \* registrations with their NotifyHandleList
  KeyQueue,
  toggle, exported,       \* PhysicalKeyToggleState (Caps Lock), VirtualKeyStateExported
  KeyEventSignalState,
  call,                   \* the SetState in progress
  dev,                    \* the keyboards
  pressed, last,          \* presses so far, the last key returned of each keyboard
  calls, removed, shifted, \* calls so far, keyboards stopped, one before the last stopped
  refused, torn           \* keyboards that refused the state, a state half set

lists == <<ex, opened, textIn, textInCount, textInEx, exCount, queueSize>>
keys == <<KeyQueue, KeyEventSignalState, pressed, last>>
toggles == <<toggle, exported, call, refused, torn>>
gone == <<removed, shifted>>
vars == <<lists, NotifyList, keys, toggles, dev, calls, gone>>

NoCall == [active |-> FALSE, caps |-> FALSE, exposed |-> FALSE, next |-> 1]
NoHandle == [dev |-> "none", reg |-> ToggleSync]

\* ConSplitterTextInConstructor and ToggleStateSyncInitialization.
Init ==
  /\ ex \in ExDevices /\ opened = {} /\ textIn = <<>> /\ textInEx = <<>>
  /\ textInCount = AllocUnit /\ exCount = AllocUnit /\ queueSize = AllocUnit
  /\ NotifyList = <<[reg |-> ToggleSync, handles |-> [i \in 1..AllocUnit |-> NoHandle]]>>
  /\ KeyQueue = <<>> /\ KeyEventSignalState = FALSE
  /\ toggle = FALSE /\ exported = FALSE /\ call = NoCall
  /\ dev = [d \in Devices |-> [keys |-> <<>>, n |-> 0, caps |-> FALSE,
                               exposed |-> FALSE, regs |-> {}, pend |-> <<>>]]
  /\ pressed = 0 /\ last = [d \in Devices |-> 0]
  /\ calls = 0 /\ removed = {} /\ shifted = FALSE /\ refused = {} /\ torn = FALSE

Idle == ~call.active
Call == Idle /\ calls < MaxCalls /\ calls' = calls + 1
Complete(k) == ~k.partial
DropPartial(ks) ==
  LET whole == {i \in DOMAIN ks : Complete(ks[i])}
  IN  IF whole = {} THEN <<>> ELSE SubSeq(ks, Min(whole), Len(ks))

\* The keyboards in D have taken a SetState, those in R refused it.
Toggled(devs, D, caps) ==
  [d \in Devices |-> IF d \in D THEN [devs[d] EXCEPT !.caps = caps, !.exposed = TRUE] ELSE devs[d]]
Taken(D, R) == (R = {} \/ Refuses) /\ refused' = (refused \cup R) \ (D \ R)

-----------------------------------------------------------------------------
(* The keyboards *)

\* IsKeyRegistered, and the same function.
Covers(r, s) == r.fn = s.fn /\ r.state \in {0, s.state}

\* RegisterKeyNotify of a keyboard whose registrations are regs: a
\* registration that covers the new one stands for it.
Register(d, regs, r) ==
  LET old == {s \in regs : Covers(s, r)}
      s == IF old = {} THEN r ELSE CHOOSE x \in old : TRUE
  IN  [regs |-> regs \cup {s}, handle |-> [dev |-> d, reg |-> s]]

\* UnregisterKeyNotify: another keyboard's handle is unknown.
Unregister(d, regs, h) == IF h.dev = d THEN regs \ {h.reg} ELSE regs

\* A key is pressed, or Caps Lock; a partial key is reported if the state is
\* exposed, and ToggleStateSyncKeyNotify is called for it some time later.
Press(d) ==
  /\ pressed < MaxPresses /\ d \in opened
  /\ pressed' = pressed + 1
  /\ LET n == dev[d].n + 1
         At(partial) == [dev |-> d, n |-> n, partial |-> partial]
         caps == ~dev[d].caps
     IN \/ dev' = [dev EXCEPT ![d].keys = Append(@, At(FALSE)), ![d].n = n]
        \/ /\ d \in ex
           /\ dev' = [dev EXCEPT ![d].caps = caps, ![d].n = n,
                ![d].keys = IF dev[d].exposed THEN Append(@, At(TRUE)) ELSE @,
                ![d].pend = IF dev[d].exposed /\ ToggleSync \in dev[d].regs
                            THEN Append(@, caps) ELSE @]
 
  /\ UNCHANGED <<lists, NotifyList, KeyQueue, KeyEventSignalState, last, toggles, calls, gone>>

-----------------------------------------------------------------------------
(* Toggle states *)

\* A changed state is set on every keyboard and recorded.
SyncNeeded(caps) == caps # toggle

ToggleStateSyncKeyNotify(d) ==
  /\ dev[d].pend # <<>>
  /\ LET caps == Head(dev[d].pend)
         D == ToSet(textInEx)
         heard == [dev EXCEPT ![d].pend = Tail(@)]
     IN IF SyncNeeded(caps)
        THEN \E R \in SUBSET D :
               /\ Taken(D, R) /\ dev' = Toggled(heard, D \ R, caps)
               /\ toggle' = caps /\ torn' = call.active
        ELSE /\ dev' = heard /\ torn' = (torn \/ call.active)
             /\ UNCHANGED <<refused, toggle>>
 
  /\ UNCHANGED <<lists, NotifyList, keys, exported, call, calls, gone>>

\* ConSplitterTextInSetState, one keyboard at a time.
SetState(caps, exposed) ==
  /\ Call
  /\ call' = [active |-> TRUE, caps |-> caps, exposed |-> exposed, next |-> 1]
  /\ torn' = FALSE
  /\ UNCHANGED <<lists, NotifyList, keys, toggle, exported, refused, dev, gone>>

\* The first keyboard that refuses ends the call; nothing is recorded.
SetStateStep ==
  /\ call.active /\ call.next <= Len(textInEx)
  /\ LET d == textInEx[call.next]
     IN \/ /\ Taken({d}, {}) /\ dev' = Toggled(dev, {d}, call.caps)
           /\ call' = [call EXCEPT !.next = @ + 1] /\ UNCHANGED torn
        \/ /\ Taken({d}, {d}) /\ UNCHANGED dev
           /\ call' = NoCall /\ torn' = TRUE
  /\ UNCHANGED <<lists, NotifyList, keys, toggle, exported, calls, gone>>

SetStateDone ==
  /\ call.active /\ call.next > Len(textInEx)
  /\ toggle' = call.caps /\ exported' = call.exposed /\ call' = NoCall
  /\ UNCHANGED <<lists, NotifyList, keys, refused, torn, dev, calls, gone>>

-----------------------------------------------------------------------------
(* ConSplitterTextInReset, ConSplitterTextInResetEx *)

\* The keyboards in R fail.  Those reset lose their keys and their state; if
\* all are, the state is reinitialised on the extended ones and the key queue
\* emptied.
ResetDevice(k, noted) == [k EXCEPT !.keys = <<>>, !.caps = FALSE, !.exposed = FALSE, !.pend = noted]

Reset(D) ==
  /\ Call
  /\ KeyEventSignalState' = FALSE
  /\ \E R \in SUBSET D, X \in SUBSET ToSet(textInEx), keep \in BOOLEAN :
       /\ R \cup X = {} \/ Refuses
       /\ R # {} => X = {}
       /\ LET reset == [d \in Devices |-> IF d \in D \ R
                           THEN ResetDevice(dev[d], IF keep THEN dev[d].pend ELSE <<>>) ELSE dev[d]]
          IN dev' = IF R = {} THEN Toggled(reset, ToSet(textInEx) \ X, FALSE) ELSE reset
       /\ IF R = {}
          THEN /\ toggle' = FALSE /\ exported' = FALSE /\ KeyQueue' = <<>>
               /\ refused' = X /\ torn' = FALSE
          ELSE torn' = TRUE /\ UNCHANGED <<toggle, exported, KeyQueue, refused>>
  /\ UNCHANGED <<lists, NotifyList, pressed, last, call, gone>>

-----------------------------------------------------------------------------
(* Reading *)

Returns(k) == last' = [last EXCEPT ![k.dev] = k.n]

\* ConSplitterTextInReadKeyStroke: the first complete key of the key queue;
\* then of the keyboards that answer, each read until it has no more.
ReadKeyStroke ==
  /\ Idle
  /\ KeyEventSignalState' = FALSE
  /\ IF DropPartial(KeyQueue) # <<>>
     THEN /\ Returns(Head(DropPartial(KeyQueue)))
          /\ KeyQueue' = Tail(DropPartial(KeyQueue))
          /\ UNCHANGED dev
     ELSE /\ KeyQueue' = <<>>
          /\ \E mute \in SUBSET ToSet(textIn) :
               /\ mute = {} \/ Refuses
               /\ LET Full(d) == DropPartial(dev[d].keys)
                      ready == {i \in DOMAIN textIn : textIn[i] \notin mute /\ Full(textIn[i]) # <<>>}
                      first == IF ready = {} THEN Len(textIn) + 1 ELSE Min(ready)
                      drained == {textIn[i] : i \in 1..(first - 1)} \ mute
                  IN /\ dev' = [d \in Devices |->
                          IF d \in drained THEN [dev[d] EXCEPT !.keys = <<>>]
                          ELSE IF ready # {} /\ d = textIn[first]
                          THEN [dev[d] EXCEPT !.keys = Tail(DropPartial(@))] ELSE dev[d]]
                     /\ IF ready = {} THEN UNCHANGED last ELSE Returns(Head(Full(textIn[first])))
  /\ UNCHANGED <<lists, NotifyList, pressed, toggles, calls, gone>>

\* ConSplitterTextInReadKeyStrokeEx: the oldest saved key; if there is none,
\* one key of each keyboard in D is saved, a partial one only if they are exported.
SavedMutant(D) ==                            \* each overwrites the one before
  LET read == {i \in DOMAIN textInEx : textInEx[i] \in D}
  IN  IF read = {} THEN <<>> ELSE <<Head(dev[textInEx[Max(read)]].keys)>>
Saved(D) ==
  LET After[i \in 0..Len(textInEx)] ==
        IF i = 0 THEN <<>>
        ELSE LET d == textInEx[i]
             IN IF d \in D /\ (exported \/ Complete(Head(dev[d].keys)))
                THEN Append(After[i - 1], Head(dev[d].keys)) ELSE After[i - 1]
  IN  After[Len(textInEx)]

\* ConSplitterTextInExDequeueKey
Dequeued(queue) == Tail(queue)

ReadKeyStrokeEx ==
  /\ Idle
  /\ KeyEventSignalState' = FALSE
  /\ IF KeyQueue # <<>>
     THEN Returns(Head(KeyQueue)) /\ KeyQueue' = Dequeued(KeyQueue) /\ UNCHANGED dev
     ELSE \E mute \in SUBSET ToSet(textInEx) :
            LET D == {d \in ToSet(textInEx) \ mute : dev[d].keys # <<>>}
                saved == Saved(D)
            IN /\ mute = {} \/ Refuses
               /\ dev' = [d \in Devices |-> IF d \in D THEN [dev[d] EXCEPT !.keys = Tail(@)] ELSE dev[d]]
               /\ IF saved = <<>> THEN UNCHANGED <<last, KeyQueue>>
                  ELSE Returns(saved[1]) /\ KeyQueue' = Dequeued(saved)
  /\ UNCHANGED <<lists, NotifyList, pressed, toggles, calls, gone>>

\* ConSplitterTextInWaitForKey: a keyboard with a key signals its event, and
\* drops the partial keys before it.
WaitForKey ==
  /\ Idle
  /\ IF KeyEventSignalState
     THEN UNCHANGED <<KeyEventSignalState, dev>>
     ELSE /\ dev' = [d \in Devices |-> IF d \in ToSet(textIn)
                                       THEN [dev[d] EXCEPT !.keys = DropPartial(@)] ELSE dev[d]]
          /\ KeyEventSignalState' = (\E d \in ToSet(textIn) : dev'[d].keys # <<>>)
  /\ UNCHANGED <<lists, NotifyList, KeyQueue, pressed, last, toggles, calls, gone>>

-----------------------------------------------------------------------------
(* ConSplitterTextInRegisterKeyNotify, ConSplitterTextInUnregisterKeyNotify *)

Registered(r) == \E i \in DOMAIN NotifyList : Covers(NotifyList[i].reg, r)

\* A registration that covers the new one is returned and nothing changes;
\* a keyboard that refuses makes the ones before it unregister.
RegisterKeyNotify(r) ==
  /\ Call /\ ~Registered(r)
  /\ \E n \in 1..(Len(textInEx) + 1) :   \* the first keyboard that refuses
       LET Made(i) == Register(textInEx[i], dev[textInEx[i]].regs, r)
           all == n = Len(textInEx) + 1
       IN /\ all \/ Refuses
          /\ dev' = [d \in Devices |->
               IF \E i \in 1..(n - 1) : textInEx[i] = d
               THEN LET m == Register(d, dev[d].regs, r)
                    IN [dev[d] EXCEPT !.regs = IF all THEN m.regs ELSE Unregister(d, m.regs, m.handle)]
               ELSE dev[d]]
          /\ NotifyList' = IF ~all THEN NotifyList
               ELSE Append(NotifyList, [reg |-> r, handles |->
                      [i \in 1..exCount |-> IF i < n THEN Made(i).handle ELSE NoHandle]])
  /\ UNCHANGED <<lists, keys, toggles, gone>>

\* Every keyboard is given the handle at its place in the list.
HandleFor(n, i) == n.handles[i]

UnregisterKeyNotify(r) ==
  /\ Call
  /\ \E k \in DOMAIN NotifyList :
       LET n == NotifyList[k]
       IN /\ n.reg = r
          /\ NotifyList' = RemoveAt(NotifyList, k)
          /\ dev' = [d \in Devices |->
               IF \E i \in DOMAIN textInEx : textInEx[i] = d
               THEN LET i == CHOOSE j \in DOMAIN textInEx : textInEx[j] = d
                    IN [dev[d] EXCEPT !.regs = Unregister(d, @, HandleFor(n, i))]
               ELSE dev[d]]
  /\ UNCHANGED <<lists, keys, toggles, gone>>

-----------------------------------------------------------------------------
(* ConSplitterConInDriverBindingStart *)

\* ConSplitterGrowBuffer, when a list is full.
NoRoomMutant(list, count) == Len(list) > count
NoRoom(list, count) == Len(list) >= count
Grows(list, count) == IF NoRoom(list, count) THEN count + AllocUnit ELSE count

\* ConSplitterTextInAddDevice, and the extra CheckEvent.
AddTextIn(d) ==
  /\ Idle /\ d \notin opened
  /\ opened' = opened \cup {d}
  /\ textIn' = Append(textIn, d) /\ textInCount' = Grows(textIn, textInCount)
  /\ UNCHANGED <<ex, keys, toggle, exported, call, torn, calls, gone>>

Checked(k) == [k EXCEPT !.keys = DropPartial(@)]

StartPlain(d) ==
  /\ d \notin ex /\ AddTextIn(d)
  /\ dev' = [dev EXCEPT ![d] = Checked(@)]
  /\ UNCHANGED <<textInEx, exCount, queueSize, NotifyList, refused>>

\* Without memory for the first list the device stays open, in no list.
StartOutOfMemory(d) ==
  /\ MemoryFails /\ Idle /\ d \notin opened /\ NoRoom(textIn, textInCount)
  /\ opened' = opened \cup {d}
  /\ UNCHANGED <<ex, textIn, textInCount, textInEx, exCount, queueSize, NotifyList, keys, toggles, dev, calls, gone>>

(* ConSplitterTextInExAddDevice *)

\* Every NotifyHandleList grows, then KeyQueue, then TextInExList.
Enlarged(n) ==
  [n EXCEPT !.handles = [j \in 1..(exCount + AllocUnit) |-> IF j <= exCount THEN @[j] ELSE NoHandle]]

\* Memory runs out after the first k of them.
StartExOutOfMemory(d) ==
  /\ MemoryFails /\ d \in ex /\ AddTextIn(d)
  /\ NoRoom(textInEx, exCount)
  /\ \E k \in 0..(Len(NotifyList) + 1) :
       /\ NotifyList' = [i \in DOMAIN NotifyList |->
                           IF i <= k THEN Enlarged(NotifyList[i]) ELSE NotifyList[i]]
       /\ queueSize' = IF k > Len(NotifyList) THEN exCount + AllocUnit ELSE queueSize
  /\ dev' = [dev EXCEPT ![d] = Checked(@)]
  /\ UNCHANGED <<textInEx, exCount, refused>>

AllGrow ==
  /\ exCount' = Grows(textInEx, exCount)
  /\ queueSize' = IF NoRoom(textInEx, exCount) THEN exCount + AllocUnit ELSE queueSize

Roomy == IF NoRoom(textInEx, exCount) THEN [i \in DOMAIN NotifyList |-> Enlarged(NotifyList[i])]
                                      ELSE NotifyList

\* The registrations of the first k entries of NotifyList on keyboard d.
RegisterFirst(d, k) ==
  LET Made[i \in 0..k] ==
        IF i = 0 THEN [regs |-> dev[d].regs, handles |-> <<>>]
        ELSE LET m == Register(d, Made[i - 1].regs, NotifyList[i].reg)
             IN [regs |-> m.regs, handles |-> Append(Made[i - 1].handles, m.handle)]
  IN  Made[k]

\* Entry k + 1 is refused: those before it are unregistered again.  The
\* keyboard stays in the first list.
UndoneMutant(made) == made.regs              \* nothing is unregistered
Undone(made) == made.regs \ {h.reg : h \in ToSet(made.handles)}

StartExRefused(d) ==
  /\ Refuses /\ d \in ex /\ AddTextIn(d)
  /\ AllGrow /\ NotifyList' = Roomy
  /\ \E k \in 0..(Len(NotifyList) - 1) :
       dev' = [dev EXCEPT ![d] = [Checked(@) EXCEPT !.regs = Undone(RegisterFirst(d, k))]]
  /\ UNCHANGED <<textInEx, refused>>

\* Registered, added, and given the toggle state, which it may refuse.
Given(R, d) == {d} \ R

StartEx(d) ==
  /\ d \in ex /\ AddTextIn(d)
  /\ AllGrow
  /\ textInEx' = Append(textInEx, d)
  /\ LET made == RegisterFirst(d, Len(NotifyList))
     IN /\ NotifyList' = [i \in DOMAIN NotifyList |->
                            [Roomy[i] EXCEPT !.handles[Len(textInEx) + 1] = made.handles[i]]]
        /\ \E R \in {{}, {d}} :
             /\ Taken({d}, R)
             /\ dev' = Toggled([dev EXCEPT ![d] = [Checked(@) EXCEPT !.regs = made.regs]],
                               Given(R, d), toggle)

-----------------------------------------------------------------------------
(* ConSplitterConInDriverBindingStop *)

\* ConSplitterTextInDeleteDevice, ConSplitterTextInExDeleteDevice
Without(list, d) == RemoveFirst(list, d)

\* A keyboard whose extended protocol is not in TextInExList, since its start
\* failed there, is not found and nothing is done.  The registrations stay on
\* the keyboard, and each NotifyHandleList stays as it is.
Stop(d) ==
  /\ Call /\ d \in opened
  /\ d \in ex => d \in ToSet(textInEx)
  /\ opened' = opened \ {d}
  /\ textIn' = Without(textIn, d)
  /\ textInEx' = Without(textInEx, d)
  /\ removed' = removed \cup {d}
  /\ shifted' = (shifted \/ (d \in ToSet(textInEx) /\ Last(textInEx) # d))
  /\ UNCHANGED <<ex, textInCount, exCount, queueSize, NotifyList, keys, toggles, dev>>

-----------------------------------------------------------------------------
Start(d) ==
  \/ StartPlain(d) \/ StartOutOfMemory(d) \/ StartExOutOfMemory(d)
  \/ StartExRefused(d) \/ StartEx(d)

Read == ReadKeyStroke \/ ReadKeyStrokeEx \/ WaitForKey

Next ==
  \/ \E d \in Devices : Start(d) \/ Stop(d) \/ Press(d) \/ ToggleStateSyncKeyNotify(d)
  \/ \E r \in Requests : RegisterKeyNotify(r) \/ UnregisterKeyNotify(r)
  \/ \E c, e \in BOOLEAN : SetState(c, e)
  \/ SetStateStep \/ SetStateDone
  \/ Reset(ToSet(textIn)) \/ Reset(ToSet(textInEx))
  \/ Read

Spec == Init /\ [][Next]_vars

\* Keyboards are interchangeable.
Symmetry == Permutations(Devices)

-----------------------------------------------------------------------------
Registrations == Requests \cup {ToggleSync}
Handles == [dev : Devices, reg : Registrations] \cup {NoHandle}
Keys == [dev : Devices, n : 1..MaxPresses, partial : BOOLEAN]

TypeOK ==
  /\ opened \subseteq Devices /\ textInCount \in Nat /\ exCount \in Nat /\ queueSize \in Nat
  /\ IsInjective(textIn) /\ ToSet(textIn) \subseteq opened
  /\ IsInjective(textInEx) /\ ToSet(textInEx) \subseteq ToSet(textIn) \cap ex
  /\ \A i \in DOMAIN NotifyList : NotifyList[i].reg \in Registrations
  /\ ToSet(KeyQueue) \subseteq Keys /\ KeyEventSignalState \in BOOLEAN
  /\ toggle \in BOOLEAN /\ exported \in BOOLEAN
  /\ call \in [active : BOOLEAN, caps : BOOLEAN, exposed : BOOLEAN, next : Nat \ {0}]
  /\ \A d \in Devices : dev[d].regs \subseteq Registrations /\ ToSet(dev[d].keys) \subseteq Keys

\* No list is written beyond its size, whatever happens when memory runs out in
\* the middle of enlarging them: KeyQueue has a place for a key of every keyboard,
\* and a NotifyHandleList one for a handle of each.
BuffersFit ==
  /\ Len(textIn) <= textInCount /\ Len(textInEx) <= exCount /\ exCount <= queueSize
  /\ Len(KeyQueue) <= queueSize
  /\ \A i \in DOMAIN NotifyList : Len(textInEx) <= Len(NotifyList[i].handles)

\* The keys of a keyboard are returned in the order of the presses, none twice,
\* by whichever of the two protocols a client reads: those that wait came after
\* the last one returned, and in the key queue before those on the keyboard.
KeysInOrder ==
  \A d \in Devices :
    LET own == dev[d].keys
    IN /\ \A i \in DOMAIN own : own[i].n > last[d] /\ \A j \in 1..(i - 1) : own[j].n < own[i].n
       /\ \A i \in DOMAIN KeyQueue : KeyQueue[i].dev = d =>
            /\ KeyQueue[i].n > last[d]
            /\ \A j \in 1..(i - 1) : KeyQueue[j].dev = d => KeyQueue[j].n < KeyQueue[i].n
            /\ \A j \in DOMAIN own : KeyQueue[i].n < own[j].n

\* Together: keys and registrations have room, and keys keep their order.
KeysKept == TypeOK /\ BuffersFit /\ KeysInOrder

\* A complete key that waits is still waiting after a step, or was returned by
\* it, or the step was a reset.
Waiting(d) == ToSet(dev[d].keys) \cup {k \in ToSet(KeyQueue) : k.dev = d}

NoKeyLost ==
  [][\A d \in Devices : \A k \in Waiting(d) :
       \/ k \in Waiting(d)' \/ last'[d] = k.n \/ k.partial
       \/ Reset(ToSet(textIn)) \/ Reset(ToSet(textInEx))]_vars

\* The functions a keyboard calls are those registered now: whatever was refused
\* half way left nothing behind and what was unregistered is gone from every
\* keyboard, as long as keyboards are only added or the last one is removed.
RegistrationsAgree ==
  ~shifted => \A d \in ex \ removed :
    dev[d].regs = IF d \in ToSet(textInEx) THEN {NotifyList[i].reg : i \in DOMAIN NotifyList} ELSE {}

\* When no notification is under way the keyboards that take the state have
\* the state recorded, unless a call that sets it ended or was overtaken half way.
TogglesAgree ==
  Idle /\ ~torn /\ (\A d \in Devices : dev[d].pend = <<>>)
    => \A d \in ToSet(textInEx) \ refused : dev[d].caps = toggle /\ dev[d].exposed

\* Together: every keyboard is what the splitter takes it for.
KeyboardsAgree == RegistrationsAgree /\ TogglesAgree
=============================================================================
