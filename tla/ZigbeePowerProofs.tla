--------------------------- MODULE ZigbeePowerProofs ---------------------------
(* Proofs about the power service and the On/Off attribute: the service is  *)
(* the power state machine, and no change of the power is lost on its way   *)
(* to the coordinator.                                                      *)
EXTENDS MCZigbeePower, TLAPS

(* The theorems about the power state machine, for the one the service runs.*)
PLP == INSTANCE PowerLogicProofs

-------------------------------------------------------------------------------
(* Queues.                                                                  *)

LEMMA SendFits ==
    ASSUME NEW S, NEW queue \in Seq(S), NEW cap \in Nat, Len(queue) <= cap, NEW item \in S
    PROVE  Send(queue, cap, item) \in Seq(S) /\ Len(Send(queue, cap, item)) <= cap
  BY DEF Send

LEMMA TailFits ==
    ASSUME NEW S, NEW queue \in Seq(S), NEW cap \in Nat, Len(queue) <= cap, queue # <<>>
    PROVE  /\ Tail(queue) \in Seq(S) /\ Len(Tail(queue)) = Len(queue) - 1
           /\ Len(Tail(queue)) <= cap
           /\ Head(queue) \in S
  OBVIOUS

LEMMA OptionalIsShort ==
    ASSUME NEW S, NEW o \in Optional(S)
    PROVE  o \in Seq(S) /\ Len(o) \in {0, 1} /\ (o # <<>> => o = <<o[1]>> /\ o[1] \in S)
  <1>1. CASE o = <<>>
    BY <1>1
  <1>2. ASSUME NEW x \in S, o = <<x>>
        PROVE  o \in Seq(S) /\ Len(o) = 1 /\ o[1] = x
    BY <1>2
  <1>3. QED
    BY <1>1, <1>2 DEF Optional

(* Ages and the settling time stay within their bounds.                     *)
LEMMA OlderBounds ==
    ASSUME NEW a \in 0 .. AgeCap, NEW dt \in 1 .. MaxStep
    PROVE  PL!Older(a, dt) \in 0 .. AgeCap /\ PL!Older(a, dt) >= a
  BY LogicAssumption DEF PL!Older, PL!TimingAssumption

LEMMA SettleBounds == Settle \in Nat
  BY ServiceAssumption, LogicAssumption DEF Settle, PL!TimingAssumption

-------------------------------------------------------------------------------
(* What the variables of the service and of the stack satisfy at any time,  *)
(* apart from the state machine.                                            *)

Items == PL!Actions \cup OtherEvents \cup {"power"}

ServiceSound ==
    /\ config \in Configs
    /\ sensed \in BOOLEAN /\ wasSensed \in BOOLEAN /\ previousRaw \in BOOLEAN
    /\ rawAge \in 0 .. AgeCap /\ settling \in 0 .. Settle
    /\ ~PL!UsesSense => ~sensed /\ ~previousRaw /\ settling = 0
    /\ requests \in Seq(PL!Actions) /\ Len(requests) <= RequestCap
    /\ events \in Seq(Items) /\ Len(events) <= EventCap

StackSound ==
    /\ scenario \in Scenarios
    /\ attr \in BOOLEAN /\ started \in BOOLEAN
    /\ callbacks \in Seq(BOOLEAN)
    /\ doing \in Optional(Commands \cup {"power", "ble_on"})
    /\ report \in Optional(BOOLEAN) /\ refresh \in Optional(BOOLEAN)
    /\ matched \in BOOLEAN
    /\ Len(callbacks) + Len(refresh) <= ReportCap
    /\ ~started => callbacks = <<>> /\ refresh = <<>>

LEMMA InitSound == ZInit => ServiceSound /\ StackSound
  <1> SUFFICES ASSUME ZInit PROVE ServiceSound /\ StackSound
    OBVIOUS
  <1>1. /\ config \in Configs /\ sensed \in BOOLEAN
        /\ previousRaw \in BOOLEAN
        /\ ~PL!UsesSense => ~sensed /\ ~previousRaw
    BY DEF ZInit, Init, PL!Init, Readings
  <1>2. ServiceSound
    BY <1>1, SettleBounds, LogicAssumption, ServiceAssumption
    DEF ServiceSound, ZInit, Init, PL!TimingAssumption
  <1>3. StackSound
    <2>1. /\ callbacks = <<>> /\ refresh = <<>> /\ doing = <<>> /\ report = <<>>
          /\ matched \in BOOLEAN /\ started \in BOOLEAN /\ scenario \in Scenarios
      BY DEF ZInit
    <2>2. attr \in BOOLEAN
      BY <1>1 DEF ZInit, Init, IsOn
    <2>3. QED
      BY <2>1, <2>2, ReportingAssumption DEF StackSound, Optional
  <1>4. QED
    BY <1>2, <1>3

LEMMA PassSound ==
    ASSUME ServiceSound, NEW dt \in 1 .. MaxStep, NEW raw \in Readings, Pass(dt, raw)
    PROVE  ServiceSound'
  <1>1. /\ config' = config /\ requests' = requests /\ events' = events
        /\ sensed' = Filtered(raw, RawAge(dt, raw)) /\ wasSensed' = sensed
        /\ previousRaw' = raw /\ rawAge' = RawAge(dt, raw) /\ settling' = Unsettled(dt, raw)
    BY DEF Pass
  <1>2. raw \in BOOLEAN /\ (~PL!UsesSense => ~raw)
    BY DEF Readings
  <1>3. RawAge(dt, raw) \in 0 .. AgeCap
    BY OlderBounds, LogicAssumption DEF RawAge, ServiceSound, PL!TimingAssumption
  <1>4. Unsettled(dt, raw) \in 0 .. Settle /\ (settling = 0 => Unsettled(dt, raw) = 0)
    BY SettleBounds DEF Unsettled, ServiceSound
  <1>5. /\ Filtered(raw, RawAge(dt, raw)) \in BOOLEAN
        /\ ~PL!UsesSense => ~Filtered(raw, RawAge(dt, raw))
    BY <1>2 DEF Filtered, ServiceSound
  <1>6. PL!UsesSense' = PL!UsesSense
    BY <1>1 DEF PL!UsesSense
  <1>7. QED
    BY <1>1, <1>2, <1>3, <1>4, <1>5, <1>6 DEF ServiceSound

LEMMA PowerTaskSound ==
    ASSUME ServiceSound, PowerTask
    PROVE  ServiceSound'
  <1>1. CASE Sample
    BY <1>1, PassSound DEF Sample
  <1>2. CASE Serve
    <2>1. /\ requests # <<>> /\ requests' = Tail(requests)
          /\ UNCHANGED <<config, sensed, wasSensed, previousRaw, rawAge, settling, events>>
      BY <1>2 DEF Serve, Serving, senseVars, PL!Request
    <2>2. requests' \in Seq(PL!Actions) /\ Len(requests') <= RequestCap
      BY <2>1, ServiceAssumption, TailFits DEF ServiceSound
    <2>3. QED
      BY <2>1, <2>2 DEF ServiceSound, PL!UsesSense
  <1>3. CASE Tick
    <2>1. UNCHANGED <<config, sensed, wasSensed, previousRaw, rawAge, settling, requests>>
      BY <1>3 DEF Tick, senseVars, PL!Tick
    <2>2. events' \in Seq(Items) /\ Len(events') <= EventCap
      <3>1. /\ Send(events, EventCap, "power") \in Seq(Items)
            /\ Len(Send(events, EventCap, "power")) <= EventCap
        BY ServiceAssumption, SendFits DEF ServiceSound, Items
      <3>2. events' = events \/ events' = Send(events, EventCap, "power")
        BY <1>3 DEF Tick
      <3>3. QED
        BY <3>1, <3>2 DEF ServiceSound
    <2>3. QED
      BY <2>1, <2>2 DEF ServiceSound, PL!UsesSense
  <1>4. QED
    BY <1>1, <1>2, <1>3 DEF PowerTask

(* A step that leaves the sense alone and posts or takes items keeps the    *)
(* service sound.                                                           *)
LEMMA QueuesSound ==
    ASSUME ServiceSound, UNCHANGED <<config, sensed, wasSensed, previousRaw, rawAge, settling>>,
           requests' = requests \/ \E act \in PL!Actions : requests' = Send(requests, RequestCap, act),
           \/ events' = events
           \/ events # <<>> /\ events' = Tail(events)
           \/ \E e \in Items : events' = Send(events, EventCap, e)
    PROVE  ServiceSound'
  <1>1. requests' \in Seq(PL!Actions) /\ Len(requests') <= RequestCap
    <2>1. \A act \in PL!Actions : /\ Send(requests, RequestCap, act) \in Seq(PL!Actions)
                                  /\ Len(Send(requests, RequestCap, act)) <= RequestCap
      BY ServiceAssumption, SendFits DEF ServiceSound
    <2>2. QED
      BY <2>1 DEF ServiceSound
  <1>2. events' \in Seq(Items) /\ Len(events') <= EventCap
    <2>1. \A e \in Items : /\ Send(events, EventCap, e) \in Seq(Items)
                           /\ Len(Send(events, EventCap, e)) <= EventCap
      BY ServiceAssumption, SendFits DEF ServiceSound
    <2>2. events # <<>> => Tail(events) \in Seq(Items) /\ Len(Tail(events)) <= EventCap
      BY ServiceAssumption, TailFits DEF ServiceSound
    <2>3. QED
      BY <2>1, <2>2 DEF ServiceSound
  <1>3. QED
    BY <1>1, <1>2 DEF ServiceSound, PL!UsesSense

LEMMA SurroundingsSound ==
    ASSUME ServiceSound, StackSound, Surroundings
    PROVE  ServiceSound'
  <1> USE DEF powerVars, vars, senseVars
  <1>1. ASSUME NEW act \in scenario.local, RequestPower(act) PROVE ServiceSound'
    <2>1. act \in PL!Actions
      BY ReportingAssumption DEF StackSound, Scenario
    <2>2. QED
      BY <1>1, <2>1, QueuesSound DEF RequestPower
  <1>2. ASSUME NEW e \in scenario.other, PostOther(e) PROVE ServiceSound'
    <2>1. e \in Items
      BY ReportingAssumption DEF StackSound, Scenario, Items
    <2>2. QED
      BY <1>2, <2>1, QueuesSound DEF PostOther
  <1>3. CASE Dispatcher
    <2>1. CASE Take
      BY <2>1, QueuesSound DEF Take, Receive
    <2>2. CASE Command
      BY <2>2, QueuesSound DEF Command
    <2>3. CASE DecideArrival \/ DecidePending \/ ReadPower \/ PostReport
      BY <2>3, QueuesSound DEF DecideArrival, DecidePending, ReadPower, PostReport
    <2>4. QED
      BY <1>3, <2>1, <2>2, <2>3 DEF Dispatcher
  <1>4. CASE UpdateAttribute \/ StackStarts \/ PostRefresh \/ StackStops
    BY <1>4, QueuesSound DEF UpdateAttribute, StackStarts, PostRefresh, StackStops
  <1>5. "on" \in Items /\ "off" \in Items
    BY DEF Items, PL!Actions
  <1>6. ASSUME NEW on \in scenario.remote, RemoteWrite(on) PROVE ServiceSound'
    BY <1>5, <1>6, QueuesSound DEF RemoteWrite
  <1>7. CASE ConfirmOn
    BY <1>5, <1>7, QueuesSound DEF ConfirmOn
  <1>8. QED
    BY <1>1, <1>2, <1>3, <1>4, <1>6, <1>7 DEF Surroundings, ZigbeeTask

-------------------------------------------------------------------------------
(* The stack.                                                               *)

LEMMA IsOnBoolean ==
    ASSUME PL!TypeOK
    PROVE  IsOn \in BOOLEAN
  BY DEF IsOn, PL!TypeOK, PL!Logic

(* The dispatcher and the Zigbee task keep the stack sound: a callback is   *)
(* posted only while there is room, and none survives a stop.               *)
LEMMA DispatcherStackSound ==
    ASSUME ServiceSound, StackSound, PL!TypeOK, Dispatcher
    PROVE  StackSound'
  <1> USE DEF stackVars
  <1>1. scenario' = scenario
    BY DEF Dispatcher
  <1>2. CASE Take
    <2>1. Head(events) \in Items
      BY <1>2, ServiceAssumption, TailFits DEF Take, Receive, ServiceSound
    <2>2. Head(events) \in Commands \cup {"power", "ble_on"}
      BY <2>1, ReportingAssumption DEF Items, Commands
    <2>3. QED
      BY <1>1, <1>2, <2>2 DEF Take, StackSound, Optional
  <1>3. CASE DecideArrival \/ DecidePending \/ Command \/ ReadPower
    <2>1. {<<>>, <<"on">>, <<"ble_on">>} \subseteq Optional(Commands \cup {"power", "ble_on"})
      BY DEF Optional, Commands, PL!Actions
    <2>2. doing' \in Optional(Commands \cup {"power", "ble_on"})
      BY <1>3, <2>1 DEF DecideArrival, DecidePending, Command, ReadPower
    <2>3. <<IsOn>> \in Optional(BOOLEAN) /\ <<>> \in Optional(BOOLEAN)
      BY IsOnBoolean DEF Optional
    <2>4. UNCHANGED stackVars
      BY <1>3 DEF DecideArrival, DecidePending, Command, ReadPower
    <2>5. report' \in Optional(BOOLEAN)
      BY <1>3, <2>3 DEF DecideArrival, DecidePending, Command, ReadPower, StackSound
    <2>6. QED
      BY <1>1, <2>2, <2>4, <2>5 DEF StackSound
  <1>4. CASE PostReport
    <2>1. report[1] \in BOOLEAN /\ <<>> \in Optional(BOOLEAN)
      BY <1>4, OptionalIsShort DEF PostReport, StackSound, Optional
    <2>2. refresh \in Seq(BOOLEAN)
      BY OptionalIsShort DEF StackSound
    <2>3. CASE started /\ Len(callbacks \o refresh) < ReportCap
               /\ callbacks' = Append(callbacks, report[1])
      <3>1. callbacks' \in Seq(BOOLEAN) /\ Len(callbacks') = Len(callbacks) + 1
        BY <2>1, <2>3 DEF StackSound
      <3>2. Len(callbacks) + Len(refresh) + 1 <= ReportCap
        BY <2>2, <2>3, ReportingAssumption DEF StackSound
      <3>3. QED
        BY <1>1, <1>4, <2>1, <2>2, <2>3, <3>1, <3>2 DEF PostReport, StackSound
    <2>4. CASE ~started /\ UNCHANGED callbacks
      BY <1>1, <1>4, <2>1, <2>4 DEF PostReport, StackSound
    <2>5. QED
      BY <1>4, <2>3, <2>4 DEF PostReport
  <1>5. QED
    BY <1>2, <1>3, <1>4 DEF Dispatcher

LEMMA ZigbeeStackSound ==
    ASSUME ServiceSound, StackSound, PL!TypeOK, scenario' = scenario,
           UpdateAttribute \/ ConfirmOn \/ StackStarts \/ PostRefresh \/ StackStops
    PROVE  StackSound'
  <1> USE DEF dispatcherVars
  <1>1. CASE UpdateAttribute
    <2>1. callbacks' \in Seq(BOOLEAN) /\ Len(callbacks') = Len(callbacks) - 1 /\ attr' \in BOOLEAN
      BY <1>1, TailFits DEF UpdateAttribute, StackSound
    <2>2. refresh' = refresh /\ refresh \in Seq(BOOLEAN)
      BY <1>1, OptionalIsShort DEF UpdateAttribute, StackSound
    <2>3. started
      BY <1>1 DEF UpdateAttribute, InHandler, StackSound
    <2>4. QED
      BY <1>1, <2>1, <2>2, <2>3, ReportingAssumption DEF UpdateAttribute, StackSound
  <1>2. CASE StackStarts
    <2>1. callbacks = <<>> /\ callbacks' = <<>> /\ started'
      BY <1>2 DEF StackStarts, StackSound
    <2>2. refresh' \in Optional(BOOLEAN) /\ Len(refresh') = 1
      <3>1. refresh' = <<IsOn>> /\ IsOn \in BOOLEAN
        BY <1>2, IsOnBoolean DEF StackStarts
      <3>2. QED
        BY <3>1 DEF Optional
    <2>3. QED
      BY <1>2, <2>1, <2>2, ReportingAssumption DEF StackStarts, StackSound
  <1>3. CASE PostRefresh
    <2>1. refresh[1] \in BOOLEAN /\ Len(refresh) = 1 /\ <<>> \in Optional(BOOLEAN)
      BY <1>3 DEF PostRefresh, StackSound, Optional
    <2>2. callbacks' \in Seq(BOOLEAN) /\ Len(callbacks') = Len(callbacks) + 1
      BY <1>3, <2>1 DEF PostRefresh, StackSound
    <2>3. started
      BY <1>3 DEF PostRefresh, StackSound
    <2>4. QED
      BY <1>3, <2>1, <2>2, <2>3 DEF PostRefresh, StackSound
  <1>4. CASE StackStops
    <2>1. callbacks' = <<>> /\ refresh' = <<>> /\ attr' = FALSE /\ started' = FALSE
      BY <1>4 DEF StackStops, InHandler
    <2>2. <<>> \in Seq(BOOLEAN) /\ Len(<<>>) + Len(<<>>) <= ReportCap
      BY ReportingAssumption
    <2>3. UNCHANGED <<doing, report, refresh, matched>>
      BY <1>4 DEF StackStops
    <2>4. QED
      BY <2>1, <2>2, <2>3 DEF StackSound
  <1>5. CASE ConfirmOn
    BY <1>5 DEF ConfirmOn, StackSound
  <1>6. QED
    BY <1>1, <1>2, <1>3, <1>4, <1>5

LEMMA StackStep ==
    ASSUME ServiceSound, StackSound, PL!TypeOK, [ZNext]_allVars
    PROVE  ServiceSound' /\ StackSound'
  <1>1. UNCHANGED zigbeeVars => StackSound'
    BY DEF zigbeeVars, stackVars, dispatcherVars, StackSound
  <1>2. CASE PowerTask /\ UNCHANGED zigbeeVars
    BY <1>1, <1>2, PowerTaskSound
  <1>3. CASE Surroundings
    <2>1. ServiceSound'
      BY <1>3, SurroundingsSound
    <2>2. CASE Dispatcher
      BY <2>1, <2>2, DispatcherStackSound
    <2>3. CASE ZigbeeTask \/ (StackStops /\ UNCHANGED scenario)
      BY <2>1, <2>3, ZigbeeStackSound DEF ZigbeeTask
    <2>4. ASSUME NEW on \in scenario.remote, RemoteWrite(on), scenario' = scenario
          PROVE  StackSound'
      <3>1. on \in BOOLEAN
        BY ReportingAssumption DEF StackSound, Scenario
      <3>2. QED
        BY <2>4, <3>1 DEF RemoteWrite, InHandler, StackSound, dispatcherVars
    <2>5. QED
      BY <1>1, <1>3, <2>1, <2>2, <2>3, <2>4 DEF Surroundings
  <1>4. CASE UNCHANGED allVars
    BY <1>1, <1>4 DEF allVars, vars, senseVars, ServiceSound, PL!UsesSense
  <1>5. QED
    BY <1>2, <1>3, <1>4 DEF ZNext

-------------------------------------------------------------------------------
(* The service implements the state machine.                                *)

(* The two instances of PowerLogic are one.                                 *)
LEMMA SameAssumptions == PLP!TimingAssumption /\ PLP!ConfigsAssumption
  BY LogicAssumption
  DEF PL!TimingAssumption, PLP!TimingAssumption, PL!ConfigsAssumption, PLP!ConfigsAssumption,
      PL!Config, PLP!Config, PL!Latched, PLP!Latched, PL!Sensed, PLP!Sensed

LEMMA SameInit == PL!Init <=> PLP!Init
  BY DEF PL!Init, PLP!Init, PL!UsesSense, PLP!UsesSense, PL!Sensed, PLP!Sensed

LEMMA SameNext == PL!Next <=> PLP!Next
  BY Zenon
  DEF PL!Sensed, PLP!Sensed, PL!Actions, PLP!Actions, PL!vars, PLP!vars,
      PL!UsesSense, PLP!UsesSense, PL!PressesAtOnce, PLP!PressesAtOnce,
      PL!HasStartPulse, PLP!HasStartPulse, PL!Idle, PLP!Idle, PL!Enter, PLP!Enter,
      PL!PowerOff, PLP!PowerOff, PL!Fail, PLP!Fail, PL!CoolingDown, PLP!CoolingDown,
      PL!BeginStart, PLP!BeginStart, PL!BeginStop, PLP!BeginStop, PL!ForceStop, PLP!ForceStop,
      PL!BeginPending, PLP!BeginPending, PL!RequestStop, PLP!RequestStop,
      PL!PendingDue, PLP!PendingDue, PL!TickPending, PLP!TickPending,
      PL!CancelPending, PLP!CancelPending, PL!SensedOn, PLP!SensedOn,
      PL!OffCancelsStart, PLP!OffCancelsStart, PL!ForceCancelsStart, PLP!ForceCancelsStart,
      PL!SensedOff, PLP!SensedOff, PL!SensedForceOff, PLP!SensedForceOff,
      PL!LatchedOn, PLP!LatchedOn, PL!OpenLatch, PLP!OpenLatch, PL!LatchedOff, PLP!LatchedOff,
      PL!Powered, PLP!Powered, PL!Meaning, PLP!Meaning, PL!Serve, PLP!Serve,
      PL!Honoured, PLP!Honoured, PL!Request, PLP!Request,
      PL!DriveStartPulse, PLP!DriveStartPulse, PL!TickLatchedStart, PLP!TickLatchedStart,
      PL!TickLatchedSteady, PLP!TickLatchedSteady, PL!Detected, PLP!Detected,
      PL!TickHandoff, PLP!TickHandoff, PL!TickStarting, PLP!TickStarting,
      PL!ReleaseStopPulse, PLP!ReleaseStopPulse, PL!TickStopping, PLP!TickStopping,
      PL!TickOn, PLP!TickOn, PL!TickOff, PLP!TickOff, PL!TickFault, PLP!TickFault,
      PL!TickOffPending, PLP!TickOffPending, PL!Tick, PLP!Tick, PL!Older, PLP!Older,
      PL!Sample, PLP!Sample, PL!Init, PLP!Init, PL!Next, PLP!Next

LEMMA SameTypeOK == PL!TypeOK <=> PLP!TypeOK
  BY DEF PL!TypeOK, PLP!TypeOK, PL!Logic, PLP!Logic, PL!States, PLP!States, PL!Age, PLP!Age

(* Only power_task touches the state machine and the sense.                 *)
LEMMA SurroundingsLeavePower ==
    ASSUME Surroundings
    PROVE  UNCHANGED powerVars
  <1> USE DEF vars, powerVars, senseVars
  <1>1. CASE Dispatcher
    BY <1>1 DEF Dispatcher, Take, Receive, DecideArrival, DecidePending, Command, ReadPower, PostReport
  <1>2. CASE ZigbeeTask \/ StackStops
    BY <1>2 DEF ZigbeeTask, UpdateAttribute, ConfirmOn, StackStarts, PostRefresh, StackStops
  <1>3. CASE \/ \E act \in scenario.local : RequestPower(act)
             \/ \E e \in scenario.other : PostOther(e)
             \/ \E on \in scenario.remote : RemoteWrite(on)
    BY <1>3 DEF RequestPower, PostOther, RemoteWrite
  <1>4. QED
    BY <1>1, <1>2, <1>3 DEF Surroundings

(* Each step of the service is one of the state machine, or none: a pass    *)
(* reads a sense it may have, and only requests of the queue are served.    *)
LEMMA StepImplements ==
    ASSUME ServiceSound, StackSound, [ZNext]_allVars
    PROVE  [PL!Next]_(PL!vars)
  <1> USE DEF PL!vars
  <1>1. CASE PowerTask
    <2>1. CASE Sample
      <3>1. PICK dt \in 1 .. MaxStep, raw \in Readings : Pass(dt, raw)
        BY <2>1 DEF Sample
      <3>2. sensed' \in (IF PL!UsesSense THEN BOOLEAN ELSE {FALSE})
        BY <3>1 DEF Pass, Filtered, Readings, ServiceSound
      <3>3. PL!Sample
        BY <3>1, <3>2 DEF Pass, PL!Sample
      <3>4. QED
        BY <3>3 DEF PL!Next
    <2>2. CASE Serve
      <3>1. requests # <<>> /\ PL!Request(Head(requests))
        BY <2>2 DEF Serve, Serving
      <3>2. Head(requests) \in PL!Actions
        BY <3>1, ServiceAssumption, TailFits DEF ServiceSound
      <3>3. QED
        BY <3>1, <3>2 DEF PL!Next
    <2>3. CASE Tick
      BY <2>3 DEF Tick, PL!Next
    <2>4. QED
      BY <1>1, <2>1, <2>2, <2>3 DEF PowerTask
  <1>2. CASE Surroundings
    BY <1>2, SurroundingsLeavePower DEF powerVars
  <1>3. CASE UNCHANGED allVars
    BY <1>3 DEF allVars, vars
  <1>4. QED
    BY <1>1, <1>2, <1>3 DEF ZNext


(* The inductive invariant: the state machine's own, seen from the service, *)
(* and what the queues and the stack hold.                                  *)
ZInv ==
    /\ PLP!IInv /\ announced \in PL!States
    /\ ServiceSound /\ StackSound

LEMMA LogicTyped == PLP!IInv => PL!TypeOK
  BY SameTypeOK DEF PLP!IInv, PLP!TypeOK, PLP!SoundLogic

LEMMA InitZInv == ZInit => ZInv
  <1> SUFFICES ASSUME ZInit PROVE ZInv
    OBVIOUS
  <1>1. PL!Init
    BY DEF ZInit, Init
  <1>2. PLP!IInv
    BY <1>1, SameInit, SameAssumptions, PLP!InitIInv
  <1>3. announced \in PL!States
    BY <1>2, LogicTyped DEF ZInit, Init, PL!TypeOK, PL!Logic
  <1>4. QED
    BY <1>2, <1>3, InitSound DEF ZInv

LEMMA StepZInv == ZInv /\ [ZNext]_allVars => ZInv'
  <1> SUFFICES ASSUME ZInv, [ZNext]_allVars PROVE ZInv'
    OBVIOUS
  <1>1. ServiceSound' /\ StackSound'
    BY LogicTyped, StackStep DEF ZInv
  <1>2. [PLP!Next]_(PLP!vars)
    <2>1. [PL!Next]_(PL!vars)
      BY StepImplements DEF ZInv
    <2>2. QED
      BY <2>1, SameNext DEF PL!vars, PLP!vars
  <1>3. PLP!IInv'
    BY <1>2, SameAssumptions, PLP!StepIInv DEF ZInv
  <1>4. logic'.state \in PL!States
    <2>1. PLP!IInv' => PL!TypeOK'
      BY LogicTyped, PTL
    <2>2. QED
      BY <1>3, <2>1 DEF PL!TypeOK, PL!Logic
  <1>5. announced' = announced \/ announced' = logic'.state
    <2>1. CASE PowerTask
      BY <2>1 DEF PowerTask, Sample, Pass, Serve, Tick
    <2>2. CASE Surroundings
      BY <2>2, SurroundingsLeavePower DEF powerVars
    <2>3. QED
      BY <2>1, <2>2 DEF ZNext, allVars, vars
  <1>6. QED
    BY <1>1, <1>3, <1>4, <1>5 DEF ZInv

LEMMA Invariance == ZSpec => []ZInv
  BY InitZInv, StepZInv, PTL DEF ZSpec

(* The power service is a power state machine.                              *)
THEOREM ServiceImplements == ZSpec => ImplementsPowerLogic
  <1>1. ZInit => PL!Init
    BY DEF ZInit, Init
  <1>2. ZInv /\ [ZNext]_allVars => [PL!Next]_(PL!vars)
    BY StepImplements DEF ZInv
  <1>3. QED
    BY <1>1, <1>2, Invariance, PTL DEF ZSpec, ImplementsPowerLogic, PL!Spec

(* Queues, ages, callbacks and attribute stay within their types and bounds.*)
THEOREM StackTyped == ZSpec => []StackTypeOK
  <1>1. ZInv => StackTypeOK
    <2> SUFFICES ASSUME ZInv PROVE StackTypeOK
      OBVIOUS
    <2>1. PL!TypeOK /\ announced \in PL!States
      BY LogicTyped DEF ZInv
    <2>2. Len(callbacks) <= ReportCap
      BY OptionalIsShort, ReportingAssumption DEF ZInv, StackSound
    <2>3. QED
      BY <2>1, <2>2 DEF ZInv, ServiceSound, StackSound, StackTypeOK, TypeOK, Items
  <1>2. QED
    BY <1>1, Invariance, PTL


-------------------------------------------------------------------------------
(* The settling time.                                                       *)

(* Every step but a pass and a tick leaves logic alone, or a request is     *)
(* served: then nothing is left to settle.                                  *)
LEMMA LogicMoves ==
    ASSUME [ZNext]_allVars
    PROVE  \/ Sample
           \/ Tick
           \/ settling = 0 /\ settling' = 0
           \/ UNCHANGED <<config, logic, sensed, pc, settling, wasSensed>>
  <1>1. CASE PowerTask
    BY <1>1 DEF PowerTask, Serve, Serving, senseVars
  <1>2. CASE Surroundings
    BY <1>2, SurroundingsLeavePower DEF powerVars, senseVars
  <1>3. QED
    BY <1>1, <1>2 DEF ZNext, allVars, vars, senseVars

LEMMA SteadyTick ==
    ASSUME ZInv, Tick, logic.state \in {"off", "on"}, ~logic.button, PL!UsesSense
    PROVE  logic'.state \in {"off", "on"} /\ ~logic'.button
  <1>1. logic \in PL!Logic /\ config \in PL!Config /\ sensed \in BOOLEAN
    BY LogicTyped, LogicAssumption DEF ZInv, PL!TypeOK, PL!ConfigsAssumption
  <1> DEFINE i(s) == PL!Idle(logic, s)
  <1>2. \A s \in BOOLEAN : i(s) \in PL!Logic /\ ~i(s).button /\ i(s).state = logic.state
    BY <1>1 DEF PL!Idle, PL!Logic, PL!Config
  <1>3. \A x \in PL!Logic, st \in {"on", "off"} :
          /\ PL!Enter(x, st).state = st /\ PL!Enter(x, st).button = x.button
    BY DEF PL!Enter, PL!Logic
  <1>4. PL!TickOn \/ PL!TickOff
    BY DEF Tick, PL!Tick, PL!TickLatchedStart, PL!TickLatchedSteady, PL!TickHandoff,
       PL!Detected, PL!TickStarting, PL!TickStopping, PL!TickFault, PL!TickOffPending
  <1>5. \/ logic' = i(TRUE) \/ logic' = PL!Enter(i(FALSE), "off")
        \/ logic' = PL!Enter(i(TRUE), "on") \/ logic' = logic
    BY <1>4 DEF PL!TickOn, PL!TickOff, PL!PowerOff
  <1>6. QED
    BY <1>1, <1>2, <1>3, <1>5

(* Until the settling time is over the controller neither starts nor stops  *)
(* nor presses, whatever was requested and however the input bounces.       *)
THEOREM NothingEarly == ZSpec => []NothingBeforeSettled
  <1>1. ZInit => NothingBeforeSettled
    BY DEF ZInit, Init, PL!Init, NothingBeforeSettled
  <1>2. ZInv /\ NothingBeforeSettled /\ [ZNext]_allVars => NothingBeforeSettled'
    <2> SUFFICES ASSUME ZInv, NothingBeforeSettled, [ZNext]_allVars, settling' > 0
                 PROVE  logic'.state \in {"off", "on"} /\ ~logic'.button
      BY DEF NothingBeforeSettled
    <2>1. CASE Sample
      <3>1. PICK dt \in 1 .. MaxStep, raw \in Readings : Pass(dt, raw)
        BY <2>1 DEF Sample
      <3>2. settling \in Nat /\ settling > 0
        BY <3>1, SettleBounds DEF ZInv, ServiceSound, Pass, Unsettled
      <3>3. logic \in PL!Logic
        BY LogicTyped DEF ZInv, PL!TypeOK
      <3>4. logic'.state = logic.state /\ logic'.button = logic.button
        BY <3>1, <3>3 DEF Pass, PL!Logic
      <3>5. QED
        BY <3>2, <3>4 DEF NothingBeforeSettled
    <2>2. CASE Tick
      <3>1. settling > 0
        BY <2>2 DEF Tick, senseVars
      <3>2. PL!UsesSense
        BY <3>1 DEF ZInv, ServiceSound
      <3>3. QED
        BY <2>2, <3>1, <3>2, SteadyTick DEF NothingBeforeSettled
    <2>3. CASE settling = 0 /\ settling' = 0
      BY <2>3
    <2>4. CASE UNCHANGED <<config, logic, sensed, pc, settling, wasSensed>>
      BY <2>4 DEF NothingBeforeSettled
    <2>5. QED
      BY <2>1, <2>2, <2>3, <2>4, LogicMoves
  <1>3. QED
    BY <1>1, <1>2, Invariance, PTL DEF ZSpec


-------------------------------------------------------------------------------
(* The attribute.                                                           *)

(* A notification that will make the dispatcher read the power again.       *)
PowerComing == doing = <<"power">> \/ \E i \in DOMAIN events : events[i] = "power"

(* What the attribute will show when everything posted has been processed.  *)
Latest == IF report # <<>> THEN report[1]
          ELSE IF callbacks # <<>> THEN callbacks[Len(callbacks)] ELSE attr

(* With nobody else about, the queues hold notifications only, and unless   *)
(* one is on its way the last value posted is the filtered sense, or, until *)
(* the pass that changed it ends, the sense of the pass before.             *)
Follows ==
    /\ started /\ refresh = <<>> /\ ~matched
    /\ events \in Seq({"power"})
    /\ doing \in {<<>>, <<"power">>}
    /\ PowerComing \/ Latest = sensed \/ (pc = "sampled" /\ Latest = wasSensed)

LEMMA SomethingQueued ==
    ASSUME NEW queue \in Seq({"power"}), queue # <<>>
    PROVE  1 \in DOMAIN queue /\ queue[1] = "power" /\ Head(queue) = "power"
  OBVIOUS

LEMMA InitFollows == ZInit /\ Undisturbed => Follows
  <1> SUFFICES ASSUME ZInit, Undisturbed PROVE Follows
    OBVIOUS
  <1>1. started /\ attr = sensed /\ report = <<>> /\ callbacks = <<>>
    BY DEF ZInit, Init, PL!Init, Undisturbed, IsOn
  <1>2. Latest = sensed
    BY <1>1 DEF Latest
  <1>3. QED
    BY <1>1, <1>2 DEF ZInit, Init, Follows

(* The power task: a change of the sense is announced by the tick of the    *)
(* same pass, and a queue that is full already holds a notification.        *)
LEMMA PowerTaskFollows ==
    ASSUME ZInv, Undisturbed, Follows, PowerTask, UNCHANGED zigbeeVars
    PROVE  Follows'
  <1> USE DEF zigbeeVars, stackVars, dispatcherVars, senseVars
  <1>1. /\ started' /\ refresh' = <<>> /\ ~matched' /\ doing' \in {<<>>, <<"power">>}
        /\ Latest' = Latest
    BY DEF Follows, Latest
  <1>2. CASE Sample
    <2>1. pc = "ticked" /\ pc' = "sampled" /\ wasSensed' = sensed /\ events' = events
      BY <1>2 DEF Sample, Pass
    <2>2. QED
      BY <1>1, <2>1 DEF Follows, PowerComing
  <1>3. CASE Serve
    <2>1. UNCHANGED <<pc, sensed, wasSensed, events>>
      BY <1>3 DEF Serve, PL!Request
    <2>2. QED
      BY <1>1, <2>1 DEF Follows, PowerComing
  <1>4. CASE Tick
    <2>1. sensed' = sensed /\ pc = "sampled"
      BY <1>4 DEF Tick, PL!Tick
    <2>2. CASE events' = events /\ sensed = wasSensed
      BY <1>1, <2>1, <2>2 DEF Follows, PowerComing
    <2>3. CASE events' = Send(events, EventCap, "power")
      <3>1. events' \in Seq({"power"}) /\ events' # <<>>
        <4>1. CASE Len(events) < EventCap
          BY <2>3, <4>1 DEF Send, Follows
        <4>2. CASE ~(Len(events) < EventCap)
          BY <2>3, <4>2, ServiceAssumption DEF Send, Follows
        <4>3. QED
          BY <4>1, <4>2
      <3>2. PowerComing'
        BY <3>1, SomethingQueued DEF PowerComing
      <3>3. QED
        BY <1>1, <3>1, <3>2 DEF Follows
    <2>4. QED
      BY <1>4, <2>2, <2>3 DEF Tick, News
  <1>5. QED
    BY <1>2, <1>3, <1>4 DEF PowerTask

(* The dispatcher and the Zigbee task carry values on in their order.       *)
LEMMA DispatcherFollows ==
    ASSUME ZInv, Undisturbed, Follows, Dispatcher
    PROVE  Follows'
  <1> USE DEF stackVars, powerVars, senseVars, vars
  <1>1. CASE Take
    <2>1. events # <<>> /\ events' = Tail(events) /\ doing' = <<Head(events)>>
          /\ UNCHANGED <<attr, started, callbacks, refresh, matched, report>>
      BY <1>1 DEF Take, Receive
    <2>2. doing' = <<"power">>
      BY <2>1, SomethingQueued DEF Follows
    <2>3. events' \in Seq({"power"})
      BY <2>1 DEF Follows
    <2>4. QED
      BY <2>1, <2>2, <2>3 DEF Follows, PowerComing
  <1>2. CASE DecideArrival \/ DecidePending \/ Command
    <2>1. doing # <<>> /\ doing[1] \in Commands \cup {"ble_on"}
      BY <1>2 DEF DecideArrival, DecidePending, Command, Commands
    <2>2. doing[1] = "power"
      BY <2>1 DEF Follows
    <2>3. QED
      BY <2>1, <2>2 DEF Commands, PL!Actions
  <1>3. CASE ReadPower
    <2>1. /\ doing' = <<>> /\ report' = <<sensed>> /\ sensed' = sensed
          /\ UNCHANGED <<events, started, refresh, matched>>
      BY <1>3 DEF ReadPower, Follows, IsOn, Undisturbed
    <2>2. Latest' = sensed'
      BY <2>1 DEF Latest
    <2>3. QED
      BY <2>1, <2>2 DEF Follows
  <1>4. CASE PostReport
    <2>1. /\ report # <<>> /\ report' = <<>>
          /\ callbacks' = Append(callbacks, report[1])
          /\ UNCHANGED <<pc, sensed, wasSensed, events, doing, attr, started, refresh, matched>>
      BY <1>4 DEF PostReport, Follows
    <2>2. callbacks \in Seq(BOOLEAN)
      BY DEF ZInv, StackSound
    <2>3. Latest' = Latest
      BY <2>1, <2>2 DEF Latest
    <2>4. QED
      BY <2>1, <2>3 DEF Follows, PowerComing
  <1>5. QED
    BY <1>1, <1>2, <1>3, <1>4 DEF Dispatcher

LEMMA UpdateFollows ==
    ASSUME ZInv, Undisturbed, Follows, UpdateAttribute
    PROVE  Follows'
  <1>1. /\ callbacks # <<>> /\ callbacks' = Tail(callbacks) /\ attr' = Head(callbacks)
        /\ UNCHANGED <<pc, sensed, wasSensed, events, doing, report, started, refresh, matched>>
    BY DEF UpdateAttribute, vars, dispatcherVars, senseVars
  <1>2. callbacks \in Seq(BOOLEAN)
    BY DEF ZInv, StackSound
  <1>3. Latest' = Latest
    <2>1. CASE Len(callbacks) = 1
      BY <1>1, <1>2, <2>1 DEF Latest
    <2>2. CASE Len(callbacks) # 1
      BY <1>1, <1>2, <2>2 DEF Latest
    <2>3. QED
      BY <2>1, <2>2
  <1>4. QED
    BY <1>1, <1>3 DEF Follows, PowerComing

LEMMA StepFollows ==
    ASSUME ZInv, Undisturbed => Follows, [ZNext]_allVars
    PROVE  (Undisturbed => Follows)'
  <1>1. scenario' = scenario /\ config' = config
    <2>1. [PL!Next]_(PL!vars)
      BY StepImplements DEF ZInv
    <2>2. config' = config
      BY <2>1 DEF PL!Next, PL!Sample, PL!Request, PL!Tick, PL!vars
    <2>3. QED
      BY <2>2 DEF ZNext, Surroundings, zigbeeVars, Dispatcher, ZigbeeTask, allVars
  <1>2. Undisturbed' = Undisturbed
    BY <1>1 DEF Undisturbed, PL!UsesSense
  <1> SUFFICES ASSUME Undisturbed, Follows PROVE Follows'
    BY <1>2
  <1>3. CASE PowerTask /\ UNCHANGED zigbeeVars
    BY <1>3, PowerTaskFollows
  <1>4. CASE Surroundings
    <2>1. scenario.other = {} /\ scenario.remote = {} /\ scenario.zigbee = "up"
      BY DEF Undisturbed
    <2>2. ASSUME NEW act \in scenario.local, RequestPower(act), UNCHANGED zigbeeVars
          PROVE  Follows'
      BY <2>2 DEF RequestPower, zigbeeVars, stackVars, dispatcherVars, senseVars,
         Follows, PowerComing, Latest
    <2>3. CASE Dispatcher
      BY <2>3, DispatcherFollows
    <2>4. CASE ZigbeeTask
      BY <2>1, <2>4, UpdateFollows DEF ZigbeeTask, ConfirmOn, StackStarts, PostRefresh, Follows
    <2>5. ~StackStops
      BY <2>1 DEF StackStops
    <2>6. QED
      BY <1>4, <2>1, <2>2, <2>3, <2>4, <2>5 DEF Surroundings
  <1>5. CASE UNCHANGED allVars
    BY <1>5 DEF allVars, vars, zigbeeVars, stackVars, dispatcherVars, senseVars,
       Follows, PowerComing, Latest
  <1>6. QED
    BY <1>3, <1>4, <1>5 DEF ZNext

(* Between passes the attribute shows the power, or an update is on its way:*)
(* whatever the capacities of the queues, no change of the sense is lost.   *)
THEOREM AttributeFollows == ZSpec => []AttributeFollowsPower
  <1>1. (Undisturbed => Follows) => AttributeFollowsPower
    <2> SUFFICES ASSUME Undisturbed, Follows, pc = "ticked", attr # IsOn
                 PROVE  RefreshComing
      BY DEF AttributeFollowsPower
    <2>1. attr # sensed
      BY DEF IsOn, Undisturbed
    <2>2. CASE PowerComing
      BY <2>2 DEF PowerComing, RefreshComing
    <2>3. CASE Latest = sensed
      BY <2>1, <2>3 DEF Latest, RefreshComing
    <2>4. QED
      BY <2>2, <2>3 DEF Follows
  <1>2. ZInit => (Undisturbed => Follows)
    BY InitFollows
  <1>3. ZInv /\ (Undisturbed => Follows) /\ [ZNext]_allVars => (Undisturbed => Follows)'
    BY StepFollows
  <1>4. QED
    BY <1>1, <1>2, <1>3, Invariance, PTL DEF ZSpec


-------------------------------------------------------------------------------
(* The debounce.                                                            *)

(* An input that reads other than the filtered sense has done so only since *)
(* the sense last changed.                                                  *)
Spacing ==
    /\ sinceFlip \in 0 .. AgeCap
    /\ previousRaw # sensed => sinceFlip >= rawAge

LEMMA OlderGrows ==
    ASSUME NEW a \in 0 .. AgeCap, NEW b \in 0 .. AgeCap, a >= b, NEW dt \in 1 .. MaxStep
    PROVE  PL!Older(a, dt) >= PL!Older(b, dt)
  BY LogicAssumption DEF PL!Older, PL!TimingAssumption

LEMMA ClockStep ==
    ASSUME [ClockNext]_clockVars
    PROVE  [ZNext]_allVars
  BY DEF ClockNext, ClockTask, ClockSample, clockVars, ZNext, PowerTask, Sample, Surroundings

LEMMA ClockRefines == ClockSpec => ZSpec
  <1>1. ClockInit => ZInit
    BY DEF ClockInit
  <1>2. [ClockNext]_clockVars => [ZNext]_allVars
    BY ClockStep
  <1>3. QED
    BY <1>1, <1>2, PTL DEF ClockSpec, ZSpec

LEMMA SampleSpacing ==
    ASSUME ZInv, Spacing, ClockSample
    PROVE  Spacing'
  <1>1. PICK dt \in 1 .. MaxStep, raw \in Readings :
          /\ Pass(dt, raw)
          /\ sinceFlip' = IF sensed' # sensed THEN 0 ELSE PL!Older(sinceFlip, dt)
    BY DEF ClockSample
  <1>2. previousRaw' = raw /\ rawAge' = RawAge(dt, raw) /\ sensed' = Filtered(raw, RawAge(dt, raw))
    BY <1>1 DEF Pass
  <1>3. rawAge \in 0 .. AgeCap /\ AgeCap \in Nat /\ sensed \in BOOLEAN /\ raw \in BOOLEAN
    BY LogicAssumption DEF ZInv, ServiceSound, PL!TimingAssumption, Readings
  <1>4. sinceFlip' \in 0 .. AgeCap
    BY <1>1, <1>3, OlderBounds DEF Spacing
  <1>5. CASE sensed' # sensed
    BY <1>2, <1>4, <1>5 DEF Spacing, Filtered
  <1>6. CASE sensed' = sensed /\ raw # sensed
    <2>1. sinceFlip' = PL!Older(sinceFlip, dt)
      BY <1>1, <1>6
    <2>2. CASE raw = previousRaw
      BY <1>2, <1>3, <1>4, <1>6, <2>1, <2>2, OlderGrows DEF Spacing, RawAge
    <2>3. CASE raw # previousRaw
      BY <1>2, <1>4, <2>3 DEF Spacing, RawAge
    <2>4. QED
      BY <2>2, <2>3
  <1>7. CASE sensed' = sensed /\ raw = sensed
    BY <1>2, <1>4, <1>7 DEF Spacing
  <1>8. QED
    BY <1>5, <1>6, <1>7

LEMMA StepSpacing ==
    ASSUME ZInv, Spacing, [ClockNext]_clockVars
    PROVE  Spacing'
  <1>1. CASE ClockSample
    BY <1>1, SampleSpacing
  <1>2. CASE UNCHANGED <<sinceFlip, previousRaw, rawAge, sensed>>
    BY <1>2 DEF Spacing
  <1>3. CASE (Serve \/ Tick) /\ UNCHANGED sinceFlip
    BY <1>2, <1>3 DEF Serve, Tick, PL!Request, PL!Tick, senseVars
  <1>4. CASE Surroundings /\ UNCHANGED sinceFlip
    BY <1>2, <1>4, SurroundingsLeavePower DEF powerVars, senseVars
  <1>5. CASE UNCHANGED clockVars
    BY <1>2, <1>5 DEF clockVars, allVars, vars, senseVars
  <1>6. QED
    BY <1>1, <1>3, <1>4, <1>5 DEF ClockNext, ClockTask

(* However the input bounces, the filtered sense changes only when the time *)
(* its filter asks for has passed since it last changed.                    *)
THEOREM FlipsSpaced == ClockSpec => FlipsAreSpaced
  <1> DEFINE Late ==
        \A dt \in 1 .. MaxStep :
          Pass(dt, sensed') /\ sensed' # sensed
            => PL!Older(sinceFlip, dt) >= (IF sensed' THEN SenseOn ELSE SenseOff)
  <1>1. ClockInit => Spacing
    BY LogicAssumption DEF ClockInit, ZInit, Init, Spacing, PL!TimingAssumption
  <1>2. ZInv /\ Spacing /\ [ClockNext]_clockVars => Spacing'
    BY StepSpacing
  <1>3. ZInv /\ Spacing => Late
    <2> SUFFICES ASSUME ZInv, Spacing, NEW dt \in 1 .. MaxStep, Pass(dt, sensed'), sensed' # sensed
                 PROVE  PL!Older(sinceFlip, dt) >= (IF sensed' THEN SenseOn ELSE SenseOff)
      OBVIOUS
    <2> DEFINE needed == IF sensed' THEN SenseOn ELSE SenseOff
    <2>1. RawAge(dt, sensed') >= needed
      BY DEF Pass, Filtered
    <2>2. needed >= 1 /\ needed \in Int
      BY ServiceAssumption, LogicAssumption DEF PL!TimingAssumption
    <2>3. sensed' = previousRaw /\ RawAge(dt, sensed') = PL!Older(rawAge, dt)
      BY <2>1, <2>2 DEF RawAge
    <2>4. /\ rawAge \in 0 .. AgeCap /\ sinceFlip \in 0 .. AgeCap /\ sinceFlip >= rawAge
          /\ PL!Older(rawAge, dt) \in Int /\ PL!Older(sinceFlip, dt) \in Int
      BY <2>3, OlderBounds DEF ZInv, ServiceSound, Spacing
    <2>5. PL!Older(sinceFlip, dt) >= PL!Older(rawAge, dt)
      BY <2>4, OlderGrows
    <2>6. QED
      BY <2>1, <2>2, <2>3, <2>4, <2>5
  <1>4. ZInv /\ Spacing => [Late]_clockVars
    BY <1>3
  <1>5. ClockSpec => []ZInv
    BY ClockRefines, Invariance, PTL
  <1>6. QED
    BY <1>1, <1>2, <1>4, <1>5, PTL DEF ClockSpec, FlipsAreSpaced

(* The sense is acted on when it has settled, at boot and ever after.       *)
THEOREM Settles == ClockSpec => SenseSettles
  BY FlipsSpaced, NothingEarly, ClockRefines, PTL DEF SenseSettles

-------------------------------------------------------------------------------
(* What is proved of the state machine holds of the service.                *)

LEMMA SameSpec == PL!Spec <=> PLP!Spec
  <1>1. [PL!Next]_(PL!vars) <=> [PLP!Next]_(PLP!vars)
    BY SameNext DEF PL!vars, PLP!vars
  <1>2. QED
    BY <1>1, SameInit, PTL DEF PL!Spec, PLP!Spec

LEMMA ServiceIsLogic == ZSpec => PLP!Spec
  BY ServiceImplements, SameSpec, PTL DEF ImplementsPowerLogic

(* Behind debounce and queue, every pass of the service still ends with the *)
(* outputs its state, its sense and its method call for.                    *)
THEOREM ServiceOutputsMatch == ZSpec => []PL!OutputsMatchState
  <1>1. PLP!OutputsMatchState => PL!OutputsMatchState
    BY DEF PL!OutputsMatchState, PL!HoldCoversSensedPower, PL!NothingDrivenWithoutCause,
       PL!ButtonWithinHold, PL!LatchMirrorsState, PL!UsesSense, PL!Sensed,
       PLP!OutputsMatchState, PLP!HoldCoversSensedPower, PLP!NothingDrivenWithoutCause,
       PLP!ButtonWithinHold, PLP!LatchMirrorsState, PLP!UsesSense, PLP!Sensed
  <1>2. PLP!Spec => []PLP!OutputsMatchState
    BY SameAssumptions, PLP!OutputsMatch, PTL
  <1>3. QED
    BY <1>1, <1>2, ServiceIsLogic, PTL

(* Nor does a bouncing input or a queued request postpone a delayed Off ... *)
THEOREM ServiceKeepsDeadline == ZSpec => PL!DeadlineKept
  <1> USE DEF PL!vars, PLP!vars
  <1>1. (pc = "ticked" /\ logic.state = "off_pending" => ~PLP!PendingDue(logic))
          => (pc = "ticked" /\ logic.state = "off_pending" => ~PL!PendingDue(logic))
    BY DEF PL!PendingDue, PLP!PendingDue
  <1>2. PLP!Spec => PLP!DeadlineKept
    BY SameAssumptions, PLP!DeadlineHolds, PTL
  <1>3. QED
    BY <1>1, <1>2, ServiceIsLogic, PTL DEF PL!DeadlineKept, PLP!DeadlineKept

(* ... turn a shutdown back into a start or open a held contact ...         *)
THEOREM ServiceShutdownOrderly == ZSpec => PL!ShutdownIsOrderly
  <1> USE DEF PL!vars, PLP!vars, PL!UsesSense, PLP!UsesSense, PL!Sensed, PLP!Sensed
  <1>1. PLP!Spec => PLP!ShutdownIsOrderly
    BY SameAssumptions, PLP!ShutdownOrderly, PTL
  <1>2. QED
    BY <1>1, ServiceIsLogic, PTL
    DEF PL!ShutdownIsOrderly, PL!HoldNeverDrops, PL!StopRunsToItsEnd,
        PLP!ShutdownIsOrderly, PLP!HoldNeverDrops, PLP!StopRunsToItsEnd

(* ... or start a board during the cooldown, or press its switch twice.     *)
THEOREM ServiceStartsOrderly == ZSpec => PL!StartsAreOrderly
  <1> USE DEF PL!vars, PLP!vars, PL!CoolingDown, PLP!CoolingDown
  <1>1. PLP!Spec => PLP!StartsAreOrderly
    BY SameAssumptions, PLP!StartsOrderly, PTL
  <1>2. QED
    BY <1>1, ServiceIsLogic, PTL
    DEF PL!StartsAreOrderly, PL!StartsAreSpaced, PL!OnePulsePerStart,
        PLP!StartsAreOrderly, PLP!StartsAreSpaced, PLP!OnePulsePerStart

===============================================================================
