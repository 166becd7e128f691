----------------------------- MODULE PowerService -----------------------------
(****************************************************************************)
(* The power service (src/src/power_service.c): power_task around the state *)
(* machine of PowerLogic, with the debounced power sense, the request queue *)
(* any task may send to, and the notifications it posts to the application  *)
(* event queue (src/src/app_events.c).                                      *)
(*                                                                          *)
(* The clock advances only between passes of power_task, by 1 to MaxStep    *)
(* units; within a pass the code uses one reading of the clock.             *)
(*                                                                          *)
(* As in PowerLogic, a definition named Mut... is a plausible bug.          *)
(****************************************************************************)
EXTENDS Sequences, Integers

CONSTANTS
    Configs, ButtonPulse, HandoffDelay, StartTimeout, ShutdownTimeout,
    ForceOffHold, RetryCooldown, MaxStep, AgeCap,   \* as in PowerLogic
    SenseOn,        \* sense_on_ms: how long the input must read on
    SenseOff,       \* sense_off_ms: how long it must read off
    RequestCap,     \* capacity of s_requests, 8 in the code
    EventCap,       \* capacity of the application event queue, 24 in the code
    OtherEvents     \* what other tasks post to the application event queue

Settle == IF SenseOn > SenseOff THEN SenseOn ELSE SenseOff

(* Nonzero filters are validated (config_validation.c 200).                 *)
ASSUME ServiceAssumption ==
    /\ SenseOn \in 1 .. AgeCap /\ SenseOff \in 1 .. AgeCap
    /\ RequestCap \in Nat \ {0} /\ EventCap \in Nat \ {0}
    /\ "power" \notin OtherEvents

VARIABLES
    config, logic, sensed, pc,  \* as in PowerLogic
    previousRaw,    \* the last reading of the sense input
    rawAge,         \* how long it has read that, saturating at AgeCap
    settling,       \* time left before requests are served
    wasSensed,      \* the filtered sense before this pass
    announced,      \* the state of the last notification
    requests,       \* s_requests
    events          \* the application event queue

PL == INSTANCE PowerLogic

(* What PowerLogic assumes of the timing and the configurations.            *)
ASSUME LogicAssumption == PL!TimingAssumption /\ PL!ConfigsAssumption

senseVars == <<previousRaw, rawAge, settling, wasSensed>>
vars == <<config, logic, sensed, pc, previousRaw, rawAge, settling, wasSensed,
          announced, requests, events>>

TypeOK ==
    /\ PL!TypeOK
    /\ previousRaw \in BOOLEAN /\ wasSensed \in BOOLEAN
    /\ rawAge \in 0 .. AgeCap /\ settling \in 0 .. Settle
    /\ announced \in PL!States
    /\ requests \in Seq(PL!Actions) /\ Len(requests) <= RequestCap
    /\ events \in Seq(PL!Actions \cup OtherEvents \cup {"power"}) /\ Len(events) <= EventCap

-------------------------------------------------------------------------------
(* A queue send with no timeout: an item that finds the queue full is lost. *)
MutSendOverfills(queue, cap, item) == Append(queue, item)
Send(queue, cap, item) == IF Len(queue) < cap THEN Append(queue, item) ELSE queue

(* bc250_power_service_is_on: what every reporter of the power shows.       *)
IsOn == IF PL!UsesSense THEN sensed ELSE logic.psOn

(* update_sense, after the reading changed or stayed for rawAge'.           *)
Filtered(raw, age) ==
    IF raw # sensed /\ age >= (IF raw THEN SenseOn ELSE SenseOff) THEN raw ELSE sensed

(* The latch methods never read the input.                                  *)
MutReadingsAlways == BOOLEAN
Readings == IF PL!UsesSense THEN BOOLEAN ELSE {FALSE}

(* How long the input has read raw, and what is left of the settling time.  *)
MutRawAgeKept(dt, raw) == PL!Older(rawAge, dt)
RawAge(dt, raw) == IF raw = previousRaw THEN PL!Older(rawAge, dt) ELSE 0
MutUnsettledByBounce(dt, raw) ==
    IF raw # previousRaw THEN Settle ELSE IF settling > dt THEN settling - dt ELSE 0
Unsettled(dt, raw) == IF settling > dt THEN settling - dt ELSE 0

(* A pass begins: the clock has advanced and the input is read.             *)
Pass(dt, raw) ==
    LET age == RawAge(dt, raw)
    IN  /\ pc = "ticked" /\ pc' = "sampled"
        /\ logic' = [logic EXCEPT !.stateAge = PL!Older(@, dt),
                                  !.phaseAge = PL!Older(@, dt),
                                  !.failAge  = PL!Older(@, dt)]
        /\ previousRaw' = raw
        /\ rawAge' = age
        /\ sensed' = Filtered(raw, age)
        /\ wasSensed' = sensed
        /\ settling' = Unsettled(dt, raw)
        /\ UNCHANGED <<config, announced, requests, events>>
Sample == \E dt \in 1 .. MaxStep, raw \in Readings : Pass(dt, raw)

MutServingUnsettled == requests # <<>>
Serving == settling = 0 /\ requests # <<>>

(* The queue is drained with the sense and the clock of this pass.          *)
Serve ==
    /\ Serving
    /\ PL!Request(Head(requests))
    /\ requests' = Tail(requests)
    /\ UNCHANGED <<senseVars, announced, events>>

(* The pass ends with the tick, and with a notification when the state or   *)
(* the sense changed.  A full event queue drops it, and announced is set.   *)
MutNewsOfState(l) == l.state # announced
News(l) == l.state # announced \/ sensed # wasSensed
Tick ==
    /\ ~Serving
    /\ PL!Tick
    /\ IF News(logic')
       THEN /\ announced' = logic'.state
            /\ events' = Send(events, EventCap, "power")
       ELSE UNCHANGED <<announced, events>>
    /\ UNCHANGED <<senseVars, requests>>

(* bc250_power_service_request, from any task at any point of a pass.       *)
RequestPower(act) ==
    /\ requests' = Send(requests, RequestCap, act)
    /\ UNCHANGED <<config, logic, sensed, pc, senseVars, announced, events>>

(* Other tasks post to the event queue, and the dispatcher receives.        *)
PostOther(e) ==
    /\ events' = Send(events, EventCap, e)
    /\ UNCHANGED <<config, logic, sensed, pc, senseVars, announced, requests>>
Receive ==
    /\ events # <<>>
    /\ events' = Tail(events)
    /\ UNCHANGED <<config, logic, sensed, pc, senseVars, announced, requests>>

(* bc250_power_service_start and the head of power_task: the first reading  *)
(* is taken as it is.  The first pass reads the input again at once, against *)
(* a previous_raw that is false, so its timer starts now either way.        *)
Init ==
    /\ PL!Init
    /\ previousRaw \in Readings
    /\ rawAge = 0
    /\ settling = IF PL!UsesSense THEN Settle ELSE 0
    /\ wasSensed = sensed
    /\ announced = logic.state
    /\ requests = <<>>
    /\ events = <<>>

PowerTask == Sample \/ Serve \/ Tick

-------------------------------------------------------------------------------
(* Properties                                                               *)

(* The power service is a power state machine: debouncing, queueing and     *)
(* notifying neither add a behaviour to PowerLogic nor let a pass serve a   *)
(* request or tick with a sense or an age PowerLogic does not allow.        *)
ImplementsPowerLogic == PL!Spec

(* Between boot and the end of the settling time nothing starts, stops or   *)
(* presses: requests wait in the queue, however early they came.            *)
NothingBeforeSettled ==
    settling > 0 => logic.state \in {"off", "on"} /\ ~logic.button

(* No queued request waits for ever: the settling time ends, whatever the   *)
(* sense does meanwhile, and the queue is drained again and again.          *)
RequestsAreServed ==
    []<>(requests = <<>>) \/ []<><<Serve>>_vars

===============================================================================
