------------------------------ MODULE ZigbeePower -----------------------------
(****************************************************************************)
(* The power service seen from Zigbee: the dispatcher of src/src/app_main.c *)
(* that turns application events into requests and reports, and the On/Off  *)
(* attribute that src/src/zigbee_service.c keeps for the coordinator.       *)
(*                                                                          *)
(* The Zigbee stack itself (attribute table, task queue, start and stop) is *)
(* modelled from how zigbee_service.c uses it.  Its task queue is taken to  *)
(* accept every callback: posting waits at the bound ReportCap.             *)
(****************************************************************************)
EXTENDS PowerService

CONSTANTS
    Scenarios,      \* who acts besides power_task: see Scenario
    ReportCap       \* bound: callbacks waiting in the stack's task queue

(* The configurations in use, the requests of the web, serial and MQTT      *)
(* tasks, the events of buttons and BLE, the values the coordinator writes, *)
(* and whether the stack is up, restarts for the AP, or is never started:   *)
(* the Wi-Fi profile.                                                       *)
Scenario == [configs : SUBSET Configs, local : SUBSET PL!Actions,
             other : SUBSET OtherEvents, remote : SUBSET BOOLEAN,
             zigbee : {"up", "restarts", "never"}]

ASSUME ReportingAssumption ==
    /\ OtherEvents \subseteq PL!Actions \cup {"ble"}
    /\ Scenarios \subseteq Scenario
    /\ ReportCap \in Nat \ {0}

VARIABLES
    scenario,   \* one of Scenarios, fixed
    attr,       \* the On/Off attribute
    started,    \* s_started
    callbacks,  \* update_attribute_cb calls in the stack's task queue
    doing,      \* the event the dispatcher is working on
    report,     \* the value it has read and not posted yet
    refresh,    \* the value signal_handler has read and not posted yet
    matched     \* zcl_handler has found the power on, as the coordinator wrote

stackVars == <<attr, started, callbacks, refresh, matched>>
dispatcherVars == <<doing, report>>
zigbeeVars == <<scenario, stackVars, dispatcherVars>>
allVars == <<vars, zigbeeVars>>
powerVars == <<config, logic, sensed, pc, senseVars, announced>>

Optional(S) == {<<>>} \cup {<<x>> : x \in S}
Commands == PL!Actions \cup {"ble"}

StackTypeOK ==
    /\ TypeOK /\ scenario \in Scenarios
    /\ attr \in BOOLEAN /\ started \in BOOLEAN
    /\ callbacks \in Seq(BOOLEAN) /\ Len(callbacks) <= ReportCap
    /\ doing \in Optional(Commands \cup {"power", "ble_on"})
    /\ report \in Optional(BOOLEAN) /\ refresh \in Optional(BOOLEAN)
    /\ matched \in BOOLEAN

-------------------------------------------------------------------------------
(* dispatcher_task: one event at a time.                                    *)

Take ==
    /\ doing = <<>> /\ report = <<>>
    /\ Receive
    /\ doing' = <<Head(events)>>
    /\ UNCHANGED <<report, stackVars>>

(* BC250_EVENT_BLE_ARRIVED: the power is read, then, if it is on, the state,*)
(* then On is requested.                                                    *)
DecideArrival ==
    /\ doing = <<"ble">>
    /\ doing' = IF IsOn THEN <<"ble_on">> ELSE <<"on">>
    /\ UNCHANGED <<vars, report, stackVars>>
DecidePending ==
    /\ doing = <<"ble_on">>
    /\ doing' = IF logic.state = "off_pending" THEN <<"on">> ELSE <<>>
    /\ UNCHANGED <<vars, report, stackVars>>

(* dispatch_button_action, for the actions that concern the power.          *)
Command ==
    /\ doing # <<>> /\ doing[1] \in PL!Actions
    /\ requests' = Send(requests, RequestCap, doing[1])
    /\ doing' = <<>>
    /\ UNCHANGED <<powerVars, events, report, stackVars>>

(* bc250_zigbee_update_power_state reads the power of now, not the one of   *)
(* the event, and posts it as a second step.                                *)
ReadPower ==
    /\ doing = <<"power">>
    /\ doing' = <<>>
    /\ report' = IF started THEN <<IsOn>> ELSE <<>>
    /\ UNCHANGED <<vars, stackVars>>

(* A callback posted to a stopped stack is refused and forgotten.           *)
PostReport ==
    /\ report # <<>>
    /\ report' = <<>>
    /\ \/ /\ started /\ Len(callbacks \o refresh) < ReportCap
          /\ callbacks' = Append(callbacks, report[1])
       \/ ~started /\ UNCHANGED callbacks
    /\ UNCHANGED <<vars, doing, attr, started, refresh, matched>>

Dispatcher ==
    /\ Take \/ DecideArrival \/ DecidePending \/ Command \/ ReadPower \/ PostReport
    /\ UNCHANGED scenario

-------------------------------------------------------------------------------
(* The Zigbee task.  It runs callbacks and handlers one after the other, so *)
(* none of them between the two steps of signal_handler or of zcl_handler.  *)
InHandler == refresh # <<>> \/ matched

(* update_attribute_cb: the handler ignores what the firmware itself sets.  *)
UpdateAttribute ==
    /\ ~InHandler /\ callbacks # <<>>
    /\ callbacks' = Tail(callbacks)
    /\ attr' = Head(callbacks)
    /\ UNCHANGED <<vars, started, refresh, matched, dispatcherVars>>

(* zcl_handler, after the stack has set the attribute for the coordinator.  *)
(* What differs from the power is a command; On while the power is on is    *)
(* one only if the state, which is read next, is a pending shutdown.        *)
RemoteWrite(on) ==
    /\ ~InHandler /\ started
    /\ attr' = on
    /\ matched' = (on /\ IsOn)
    /\ events' = IF on = IsOn THEN events
                 ELSE Send(events, EventCap, IF on THEN "on" ELSE "off")
    /\ UNCHANGED <<powerVars, requests, started, callbacks, refresh, dispatcherVars>>
ConfirmOn ==
    /\ matched
    /\ matched' = FALSE
    /\ events' = IF logic.state = "off_pending" THEN Send(events, EventCap, "on") ELSE events
    /\ UNCHANGED <<powerVars, requests, attr, started, callbacks, refresh, dispatcherVars>>

(* DEVICE_FIRST_START or DEVICE_REBOOT: s_started is set first, then the    *)
(* power is read, and the value read is posted.                             *)
StackStarts ==
    /\ scenario.zigbee # "never" /\ ~started
    /\ started' = TRUE
    /\ refresh' = <<IsOn>>
    /\ UNCHANGED <<vars, attr, callbacks, matched, dispatcherVars>>
PostRefresh ==
    /\ refresh # <<>>
    /\ callbacks' = Append(callbacks, refresh[1])
    /\ refresh' = <<>>
    /\ UNCHANGED <<vars, attr, started, matched, dispatcherVars>>

(* zigbee_teardown for the configuration AP; the next setup creates the     *)
(* attribute anew, off.                                                     *)
StackStops ==
    /\ scenario.zigbee = "restarts" /\ started /\ ~InHandler
    /\ started' = FALSE
    /\ attr' = FALSE
    /\ callbacks' = <<>>
    /\ UNCHANGED <<vars, refresh, matched, dispatcherVars>>

ZigbeeTask ==
    /\ UpdateAttribute \/ ConfirmOn \/ StackStarts \/ PostRefresh
    /\ UNCHANGED scenario

-------------------------------------------------------------------------------
(* A stack that is up has started and refreshed the attribute.              *)
ZInit ==
    /\ Init
    /\ scenario \in {s \in Scenarios : config \in s.configs}
    /\ started = (scenario.zigbee = "up")
    /\ attr = (started /\ IsOn)
    /\ callbacks = <<>> /\ doing = <<>> /\ report = <<>> /\ refresh = <<>>
    /\ matched = FALSE

Surroundings ==
    \/ \E act \in scenario.local : RequestPower(act) /\ UNCHANGED zigbeeVars
    \/ \E e \in scenario.other : PostOther(e) /\ UNCHANGED zigbeeVars
    \/ Dispatcher
    \/ ZigbeeTask
    \/ \E on \in scenario.remote : RemoteWrite(on) /\ UNCHANGED scenario
    \/ StackStops /\ UNCHANGED scenario

ZNext == (PowerTask /\ UNCHANGED zigbeeVars) \/ Surroundings

ZSpec == ZInit /\ [][ZNext]_allVars

-------------------------------------------------------------------------------
(* Properties                                                               *)

(* Something is on its way that will set the attribute to the power of then.*)
RefreshComing ==
    \/ "power" \in {events[i] : i \in DOMAIN events} \cup {doing[i] : i \in DOMAIN doing}
    \/ report # <<>> \/ callbacks # <<>> \/ refresh # <<>>

(* Between passes of power_task the attribute shows the power, or an update *)
(* is on its way: none is lost, and none overtaken by an older one, though  *)
(* the power is read in one task, sampled in another and set in a third.    *)
(* A stack that starts meanwhile, the coordinator's own writes, a flood of  *)
(* events and a latch toggled within one pass are not covered: each of them *)
(* may leave the attribute behind.                                          *)
Undisturbed ==
    scenario.zigbee = "up" /\ scenario.remote = {} /\ scenario.other = {} /\ PL!UsesSense
AttributeFollowsPower ==
    Undisturbed /\ pc = "ticked" /\ attr # IsOn => RefreshComing

(* No command, notification or update is left to process.                   *)
NothingToProcess ==
    /\ pc = "ticked" /\ requests = <<>> /\ events = <<>> /\ doing = <<>>
    /\ ~matched /\ ~RefreshComing

(* "Zigbee On/Off continues to report power on during the pending delay"    *)
(* (docs/API.md 41), at least when everything has been processed.           *)
PendingOffReportsOn ==
    started /\ NothingToProcess /\ logic.state = "off_pending" => attr

===============================================================================
