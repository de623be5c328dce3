---------------------------- MODULE KeypadBinding ----------------------------
(***************************************************************************)
(* The driver binding of the keypad (Keypad.c): Supported, Start, Stop,    *)
(* with the timer of the device running between their steps and any step   *)
(* of Start able to fail.  Names stand for what KEYPAD_CONSOLE_IN_DEV      *)
(* holds: "wait", "waitEx", "timer" and "notify" are its events, "key" a   *)
(* registration in its list, "names" its name table, be it empty: Start    *)
(* does not look whether AddUnicodeString2 found memory for an entry.      *)
(***************************************************************************)
EXTENDS Integers, Sequences

CONSTANTS BindingCalls, BindingFaults   \* bounds: calls of Start and Stop, steps that fail
BindingAssumption == {BindingCalls, BindingFaults} \subseteq Nat

VARIABLES held,     \* what the driver has: "protocol", the device's "memory" and what is in it, "interfaces"
          binding,  \* the call that runs: steps left; calls and failures left; a Stop that failed
          ticks     \* the timer: armed, a tick pending; what the last tick found
bindVars == <<held, binding, ticks>>

Events == {"wait", "waitEx", "timer", "notify"}
BindInit ==
    /\ held = {} /\ ticks = [armed |-> FALSE, due |-> FALSE, met |-> "none"]
    /\ binding = [steps |-> <<>>, half |-> FALSE, left |-> BindingCalls, faults |-> BindingFaults]

Free(r) == [do |-> "free", r |-> r]
Acquire(r) == [do |-> "get", r |-> r]
Running == binding.steps # <<>>
Goes(do) == Running /\ Head(binding.steps).do = do
Resource == Head(binding.steps).r
CanCall == ~Running /\ binding.left > 0
Begin(steps) == binding' = [binding EXCEPT !.steps = steps, !.left = @ - 1]

(***************************************************************************)
(* KeypadControllerDriverSupported opens and closes the protocol, which    *)
(* the driver itself may hold.  Start's steps, and what its error exit     *)
(* gives back; the timer is armed before the last event there is made.     *)
(* With no memory for the device the error exit still empties the list of  *)
(* registrations "in" it, KbdFreeNotifyList(&ConsoleIn->NotifyList) with   *)
(* ConsoleIn NULL: what lies at that low address is taken for a list head. *)
(* It may look like an empty list, and the exit goes on; or the program is *)
(* astray, and what it does from there on is not defined.                  *)
(***************************************************************************)
Supported == "protocol" \notin held
StartSteps == <<Acquire("memory"), Acquire("wait"), Acquire("waitEx"), Acquire("timer"), Acquire("armed"), Acquire("notify"), Acquire("reset"), Acquire("names"), Acquire("interfaces")>>
NoTimerMutant == <<Free("wait"), Free("waitEx"), Free("notify"), Free("key"), Free("names"), Free("memory"), Free("protocol")>>
ErrorExit == <<Free("wait"), Free("timer"), Free("waitEx"), Free("notify"), Free("key"), Free("names"), Free("memory"), Free("protocol")>>
Start == CanCall /\ Supported /\ held' = {"protocol"} /\ Begin(StartSteps) /\ UNCHANGED ticks
GetNext ==
    /\ Goes("get")
    /\ held' = IF Resource \in {"armed", "reset"} THEN held ELSE held \cup {Resource}
    /\ ticks' = [ticks EXCEPT !.armed = @ \/ Resource = "armed"]
    /\ binding' = [binding EXCEPT !.steps = Tail(@)]
GetFails ==
    /\ Goes("get") /\ Resource # "names" /\ binding.faults > 0
    /\ binding' = [binding EXCEPT !.steps = ErrorExit, !.faults = @ - 1]
    /\ UNCHANGED <<held, ticks>>
Astray == [do |-> "astray", r |-> "key"]
NoListWalked ==
    /\ Goes("free") /\ Resource = "key" /\ "memory" \notin held
    /\ binding' = [binding EXCEPT !.steps = <<Astray>>]
    /\ UNCHANGED <<held, ticks>>

(***************************************************************************)
(* KeypadControllerDriverStop: the timer is closed before it is known      *)
(* whether the interfaces can be uninstalled; if not, that is all.         *)
(* KbdFreeNotifyList empties the list.                                     *)
(***************************************************************************)
StopSteps == <<Free("timer"), [do |-> "uninstall", r |-> "interfaces"], Free("protocol"), Free("wait"), Free("waitEx"), Free("notify"), Free("key"), Free("names"), Free("memory")>>
Stop == CanCall /\ "interfaces" \in held /\ Begin(StopSteps) /\ UNCHANGED <<held, ticks>>
FreeNext ==
    /\ Goes("free") \/ Goes("uninstall")
    /\ held' = held \ {Resource}
    /\ ticks' = IF Resource = "timer" THEN [ticks EXCEPT !.armed = FALSE, !.due = FALSE] ELSE ticks
    /\ binding' = [binding EXCEPT !.steps = Tail(@), !.half = @ /\ Resource # "interfaces"]
UninstallFails ==
    /\ Goes("uninstall") /\ binding.faults > 0
    /\ binding' = [binding EXCEPT !.steps = <<>>, !.faults = @ - 1, !.half = TRUE]
    /\ UNCHANGED <<held, ticks>>

(* A client registers a key; the timer ticks, between any two steps below  *)
(* TPL_NOTIFY, and its handler uses the device.                            *)
RegisterKey == ~Running /\ "interfaces" \in held /\ "key" \notin held /\ held' = held \cup {"key"} /\ UNCHANGED <<binding, ticks>>
Tick == ticks.armed /\ ~ticks.due /\ ticks' = [ticks EXCEPT !.due = TRUE] /\ UNCHANGED <<held, binding>>
TimerHandler == ticks.due /\ ticks' = [ticks EXCEPT !.due = FALSE, !.met = IF "memory" \in held THEN "device" ELSE "freed"] /\ UNCHANGED <<held, binding>>

BindNext == Start \/ GetNext \/ GetFails \/ NoListWalked \/ Stop \/ FreeNext \/ UninstallFails \/ RegisterKey \/ Tick \/ TimerHandler
BindSpec == BindInit /\ [][BindNext]_bindVars

----------------------------------------------------------------------------
Whole == {"protocol", "memory", "names", "interfaces"} \cup Events

(* Between the calls of the binding the driver holds all of a device or    *)
(* nothing, whichever step of Start failed (after a Stop that failed only  *)
(* the timer is missing); whoever can reach the interfaces finds the       *)
(* memory and the events behind them; no tick of the timer finds the       *)
(* device freed.  The one exception: a Start that gets no memory for the   *)
(* device may go astray in its error exit, which then has nothing but the  *)
(* protocol to give back; no other call does.                              *)
DeviceWhole ==
    /\ ~Running => held \ {"key"} \in {{}, IF binding.half THEN Whole \ {"timer"} ELSE Whole}
    /\ ~Running /\ "key" \in held => "interfaces" \in held
    /\ "interfaces" \in held => Whole \ {"timer"} \subseteq held
    /\ ticks.met # "freed"
    /\ Goes("astray") => held = {"protocol"} /\ ~binding.half
=============================================================================
