--------------------------------- MODULE Inputs --------------------------------
(****************************************************************************)
(* Buttons and BLE presence together, as they feed the application event    *)
(* queue (src/src/app_events.c): each posts without waiting, and what finds *)
(* the queue full is dropped.  What the dispatcher does with the events is  *)
(* in ZigbeePower and WifiAp.  As in PowerLogic, a definition named Mut...  *)
(* is a plausible bug.                                                      *)
(****************************************************************************)
EXTENDS Buttons, BlePresence, Sequences

CONSTANTS
    ActionOf,       \* per button: the actions of its gestures, "none" for none
    EventCap        \* capacity of the event queue, 24 in the code

Actions == {"on", "off", "toggle", "force_off", "config_ap", "zigbee_commission", "zigbee_reset"}
Event == [type : {"action"}, what : Actions] \cup [type : {"arrived"}, what : Devices]

ASSUME InputsAssumption ==
    /\ ActionOf \in [ButtonIds -> [{"short", "double", "long"} -> Actions \cup {"none"}]]
    /\ EventCap \in Nat \ {0}

VARIABLES
    events,     \* the application event queue
    unposted    \* buttons of this pass whose gesture is still to be posted

inputVars == <<buttonVars, presenceVars, events, unposted>>

TypeOK ==
    /\ ButtonsOK /\ PresenceOK
    /\ events \in Seq(Event) /\ Len(events) <= EventCap
    /\ unposted \subseteq ButtonIds

MutPosted(event) == Append(events, event)
Posted(event) == IF Len(events) < EventCap THEN Append(events, event) ELSE events

(* button_task posts the gestures of a pass one by one.                     *)
ScanButtons ==
    /\ unposted = {}
    /\ ButtonTask
    /\ unposted' = {id \in ButtonIds : gesture'[id] # "none" /\ ActionOf[id][gesture'[id]] # "none"}
    /\ UNCHANGED <<presenceVars, events>>
EmitAction(id) ==
    /\ id \in unposted
    /\ unposted' = unposted \ {id}
    /\ events' = Posted([type |-> "action", what |-> ActionOf[id][gesture[id]]])
    /\ UNCHANGED <<buttonVars, presenceVars>>

(* An arrival that finds the queue full is not posted again.                *)
PostArrival ==
    /\ Arrive
    /\ events' = Posted([type |-> "arrived", what |-> host.device])
    /\ UNCHANGED <<buttonVars, unposted>>
Listen ==
    /\ (\E d \in Devices : Hear(d)) \/ SetPresent \/ Stamp \/ PresenceTask \/ BleEnvironment
    /\ UNCHANGED <<buttonVars, events, unposted>>

Dispatch ==
    /\ events # <<>> /\ events' = Tail(events)
    /\ UNCHANGED <<buttonVars, presenceVars, unposted>>

Init == ButtonsInit /\ PresenceInit /\ events = <<>> /\ unposted = {}

Next ==
    \/ ScanButtons \/ (\E id \in ButtonIds : EmitAction(id))
    \/ PostArrival \/ Listen \/ Dispatch

Spec == Init /\ [][Next]_inputVars

===============================================================================
