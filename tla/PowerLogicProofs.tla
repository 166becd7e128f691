--------------------------- MODULE PowerLogicProofs ---------------------------
(* Proofs about the power state machine, for every admissible timing.       *)
EXTENDS PowerLogic, TLAPS

(* What every logic structure the controller can hold satisfies, at any     *)
(* point of a pass.                                                         *)
SoundLogic(l) ==
    /\ l \in Logic
    /\ l.button => l.state \in {"starting", "stopping"}
    /\ l.state = "starting" /\ l.pulsed => ~l.button
    /\ UsesSense /\ l.state = "off" => ~l.psOn
    /\ UsesSense /\ config.hold /\ l.state \in {"stopping", "off_pending"} => l.psOn
    /\ ~UsesSense => /\ l.psOn <=> l.state \in {"starting", "on", "off_pending"}
                     /\ l.state \notin {"stopping", "fault"}

USE DEF Age, States

LEMMA ZeroAge == 0 \in Age /\ AgeCap \in Age
  BY TimingAssumption

LEMMA IdleFields ==
    ASSUME NEW l \in Logic, NEW s \in BOOLEAN, config \in Config
    PROVE  /\ Idle(l, s) \in Logic
           /\ Idle(l, s).state = l.state
           /\ Idle(l, s).psOn = (config.hold /\ s)
           /\ Idle(l, s).button = FALSE
           /\ Idle(l, s).pulsed = l.pulsed
  BY DEF Idle, Logic, Config

LEMMA EnterFields ==
    ASSUME NEW l \in Logic, NEW st \in States
    PROVE  /\ Enter(l, st) \in Logic
           /\ Enter(l, st).state = st
           /\ Enter(l, st).psOn = l.psOn
           /\ Enter(l, st).button = l.button
           /\ Enter(l, st).pulsed = l.pulsed
  BY ZeroAge DEF Enter, Logic

-------------------------------------------------------------------------------
(* Each helper that enters a state builds a sound structure of that state.  *)

LEMMA PowerOffSound ==
    ASSUME NEW l \in Logic, config \in Config
    PROVE  SoundLogic(PowerOff(l)) /\ PowerOff(l).state = "off"
  <1> DEFINE i == Idle(l, FALSE)
  <1>1. i \in Logic /\ ~i.psOn /\ ~i.button
    BY IdleFields
  <1>2. QED
    BY <1>1, EnterFields DEF PowerOff, SoundLogic

LEMMA FailSound ==
    ASSUME NEW l \in Logic, NEW s \in BOOLEAN, config \in Config, UsesSense
    PROVE  SoundLogic(Fail(l, s)) /\ Fail(l, s).state = "fault"
  <1> DEFINE i == [Idle(l, s) EXCEPT !.failAge = 0]
  <1>1. i \in Logic /\ i.button = FALSE
    BY IdleFields, ZeroAge DEF Logic
  <1>2. QED
    BY <1>1, EnterFields DEF Fail, SoundLogic

LEMMA BeginStartSound ==
    ASSUME NEW l \in Logic, config \in Config,
           UsesSense \/ config.strategy = "ps_on_latched_then_button"
    PROVE  SoundLogic(BeginStart(l)) /\ BeginStart(l).state = "starting"
  <1>1. Enter(l, "starting") \in Logic /\ Enter(l, "starting").state = "starting"
    BY EnterFields
  <1>2. BeginStart(l) \in Logic /\ BeginStart(l).state = "starting"
    BY <1>1 DEF BeginStart, Logic, Config
  <1>3. /\ BeginStart(l).psOn = (config.strategy # "button_only")
        /\ BeginStart(l).pulsed = ~HasStartPulse
        /\ BeginStart(l).button = (HasStartPulse /\ (PressesAtOnce \/ config.inter = 0))
    BY <1>1 DEF BeginStart, Logic
  <1>4. QED
    BY <1>2, <1>3 DEF SoundLogic, UsesSense, Sensed

LEMMA BeginStopSound ==
    ASSUME NEW l \in Logic, config \in Config, UsesSense
    PROVE  /\ SoundLogic(BeginStop(l)) /\ BeginStop(l).state = "stopping"
           /\ SoundLogic(ForceStop(l)) /\ ForceStop(l).state = "stopping"
  <1> DEFINE i == Idle(l, TRUE)
             e == Enter(i, "stopping")
  <1>1. i \in Logic /\ (config.hold => i.psOn)
    BY IdleFields DEF Config
  <1>2. e \in Logic /\ e.state = "stopping" /\ (config.hold => e.psOn)
    BY <1>1, EnterFields
  <1>3. QED
    BY <1>2 DEF BeginStop, ForceStop, SoundLogic, Logic

LEMMA BeginPendingSound ==
    ASSUME NEW l \in Logic, config \in Config
    PROVE  /\ SoundLogic(BeginPending(l)) /\ BeginPending(l).state = "off_pending"
           /\ SoundLogic(CancelPending(l)) /\ CancelPending(l).state = "on"
  <1> DEFINE i == [Idle(l, TRUE) EXCEPT !.psOn = config.hold \/ ~UsesSense]
  <1>1. i \in Logic /\ i.psOn = (config.hold \/ ~UsesSense) /\ i.button = FALSE
    BY IdleFields DEF Logic, Config
  <1>2. QED
    BY <1>1, EnterFields DEF BeginPending, CancelPending, SoundLogic

LEMMA TickPendingSound ==
    ASSUME NEW l \in Logic, NEW s \in BOOLEAN, config \in Config, SoundLogic(l)
    PROVE  SoundLogic(TickPending(l, s))
  BY PowerOffSound, BeginStopSound DEF TickPending

LEMMA StartPulseSound ==
    ASSUME NEW l \in Logic, SoundLogic(l), l.state = "starting"
    PROVE  LET d == DriveStartPulse(l)
           IN  /\ SoundLogic(d) /\ d.state = "starting"
               /\ d.stateAge = l.stateAge
               /\ d.button => ~d.pulsed /\ d.phaseAge < ButtonPulse
  <1> DEFINE due == PressesAtOnce \/ l.stateAge >= config.inter
             pressed == IF due /\ ~l.button
                        THEN [l EXCEPT !.button = TRUE, !.phaseAge = 0] ELSE l
             released == [pressed EXCEPT !.button = FALSE, !.pulsed = TRUE]
  <1>1. /\ pressed \in Logic /\ pressed.state = "starting" /\ pressed.psOn = l.psOn
        /\ pressed.pulsed = l.pulsed /\ pressed.stateAge = l.stateAge
    BY ZeroAge DEF Logic
  <1>2. /\ released \in Logic /\ released.state = "starting" /\ released.psOn = l.psOn
        /\ released.pulsed /\ ~released.button /\ released.stateAge = l.stateAge
    BY <1>1 DEF Logic
  <1>3. pressed.phaseAge \in Int /\ ButtonPulse \in Int
    BY <1>1, TimingAssumption DEF Logic
  <1>4. CASE l.pulsed
    BY <1>4 DEF DriveStartPulse, SoundLogic
  <1>5. CASE ~l.pulsed /\ pressed.button /\ pressed.phaseAge >= ButtonPulse
    <2>1. DriveStartPulse(l) = released
      BY <1>5 DEF DriveStartPulse
    <2>2. QED
      BY <2>1, <1>2 DEF SoundLogic
  <1>6. CASE ~l.pulsed /\ ~(pressed.button /\ pressed.phaseAge >= ButtonPulse)
    <2>1. DriveStartPulse(l) = pressed
      BY <1>6 DEF DriveStartPulse
    <2>2. QED
      BY <2>1, <1>1, <1>3, <1>6 DEF SoundLogic
  <1>7. QED
    BY <1>4, <1>5, <1>6

LEMMA StopPulseSound ==
    ASSUME NEW l \in Logic, SoundLogic(l), l.state = "stopping"
    PROVE  LET r == ReleaseStopPulse(l)
           IN  /\ SoundLogic(r) /\ r.state = "stopping" /\ r.psOn = l.psOn
               /\ r.button => r.phaseAge < (IF r.pulsed THEN ForceOffHold ELSE ButtonPulse)
  <1> DEFINE held == IF l.pulsed THEN ForceOffHold ELSE ButtonPulse
             released == [l EXCEPT !.button = FALSE, !.pulsed = TRUE]
  <1>1. /\ released \in Logic /\ released.state = "stopping"
        /\ released.psOn = l.psOn /\ ~released.button
    BY DEF Logic
  <1>2. l.phaseAge \in Int /\ held \in Int
    BY TimingAssumption DEF Logic
  <1>3. QED
    BY <1>1, <1>2 DEF ReleaseStopPulse, SoundLogic

(* A structure sound under the configuration stays sound in the next state. *)
LEMMA Carry ==
    ASSUME NEW x, SoundLogic(x), logic' = x, config' = config
    PROVE  SoundLogic(logic)'
  BY DEF SoundLogic, UsesSense

-------------------------------------------------------------------------------
(* Requests.                                                                *)

LEMMA SensedRequestSound ==
    ASSUME NEW p \in Logic, SoundLogic(p), config \in Config, config' = config,
           sensed \in BOOLEAN, UsesSense,
           SensedOn(p) \/ SensedOff(p) \/ SensedForceOff(p)
    PROVE  SoundLogic(logic)'
  <1>1. CASE logic' = p
    BY <1>1, Carry
  <1>2. CASE logic' = BeginStart(p)
    BY <1>2, Carry, BeginStartSound
  <1>3. CASE logic' = PowerOff(p)
    BY <1>3, Carry, PowerOffSound
  <1>4. CASE logic' = RequestStop(p)
    <2>1. SoundLogic(RequestStop(p))
      BY BeginPendingSound, BeginStopSound, PowerOffSound DEF RequestStop
    <2>2. QED
      BY <1>4, <2>1, Carry
  <1>5. CASE logic' = ForceStop(p)
    BY <1>5, Carry, BeginStopSound
  <1>6. QED
    BY <1>1, <1>2, <1>3, <1>4, <1>5 DEF SensedOn, SensedOff, SensedForceOff

LEMMA LatchedRequestSound ==
    ASSUME NEW p \in Logic, SoundLogic(p), config \in Config, config' = config,
           ~UsesSense, LatchedOn(p) \/ LatchedOff(p) \/ OpenLatch(p)
    PROVE  SoundLogic(logic)'
  <1>1. CASE OpenLatch(p)
    <2> DEFINE q == [p EXCEPT !.psOn = FALSE, !.button = FALSE]
    <2>1. q \in Logic /\ ~q.psOn /\ ~q.button /\ q.state = p.state
      BY DEF Logic
    <2>2. SoundLogic(IF p.state = "off" THEN q ELSE Enter(q, "off"))
      BY <2>1, EnterFields DEF SoundLogic
    <2>3. QED
      BY <1>1, <2>2, Carry DEF OpenLatch
  <1>2. CASE logic' = p
    BY <1>2, Carry
  <1>3. CASE /\ config.strategy = "ps_on_latched_then_button"
             /\ logic' = IF CoolingDown(p) THEN p ELSE BeginStart(p)
    BY <1>3, Carry, BeginStartSound
  <1>4. CASE logic' = Enter([p EXCEPT !.psOn = TRUE, !.button = FALSE], "on")
    <2> DEFINE q == [p EXCEPT !.psOn = TRUE, !.button = FALSE]
    <2>1. q \in Logic /\ q.psOn /\ ~q.button
      BY DEF Logic
    <2>2. SoundLogic(Enter(q, "on"))
      BY <2>1, EnterFields DEF SoundLogic
    <2>3. QED
      BY <1>4, <2>2, Carry
  <1>5. CASE logic' = RequestStop(p)
    <2>1. SoundLogic(RequestStop(p))
      BY BeginPendingSound, PowerOffSound DEF RequestStop
    <2>2. QED
      BY <1>5, <2>1, Carry
  <1>6. QED
    BY <1>1, <1>2, <1>3, <1>4, <1>5 DEF LatchedOn, LatchedOff

LEMMA RequestSound ==
    ASSUME SoundLogic(logic), config \in Config, sensed \in BOOLEAN,
           NEW act \in Actions, Request(act)
    PROVE  SoundLogic(logic)'
  <1> DEFINE p == Honoured
             a == Meaning(p, act)
  <1>1. SoundLogic(p) /\ p \in Logic
    BY TickPendingSound DEF Honoured, SoundLogic
  <1>2. config' = config
    BY DEF Request
  <1>3. CASE logic' = p
    BY <1>1, <1>2, <1>3, Carry
  <1>4. CASE logic' = CancelPending(p)
    BY <1>1, <1>2, <1>4, Carry, BeginPendingSound
  <1>5. CASE Serve(p, a)
    BY <1>1, <1>2, <1>5, SensedRequestSound, LatchedRequestSound DEF Serve
  <1>6. QED
    BY <1>3, <1>4, <1>5 DEF Request

-------------------------------------------------------------------------------
(* Ticks.                                                                   *)

(* What a pass leaves behind: the three invariants stated for its end.      *)
EndOfPass(l) ==
    /\ UsesSense /\ config.hold /\ sensed => l.psOn
    /\ UsesSense /\ ~sensed /\ (l.psOn \/ l.button) => l.state = "starting"
    /\ l.button =>
        \/ l.state = "starting" /\ ~l.pulsed /\ l.phaseAge < ButtonPulse
        \/ /\ l.state = "stopping"
           /\ l.phaseAge < (IF l.pulsed THEN ForceOffHold ELSE ButtonPulse)
    /\ l.state = "off_pending" => ~PendingDue(l)

LEMMA CarryTick ==
    ASSUME NEW x, SoundLogic(x) /\ EndOfPass(x),
           logic' = x, config' = config, sensed' = sensed
    PROVE  SoundLogic(logic)' /\ EndOfPass(logic)'
  BY DEF SoundLogic, EndOfPass, UsesSense, PendingDue

(* Entering a state with idle outputs ends a pass well.                     *)
LEMMA IdleEndsPass ==
    ASSUME NEW l \in Logic, NEW s \in BOOLEAN, config \in Config, UsesSense,
           NEW st \in {"on", "off", "fault"}, st = "off" => ~s, sensed \in BOOLEAN,
           s = sensed
    PROVE  LET x == Enter(Idle(l, s), st)
           IN  SoundLogic(x) /\ EndOfPass(x)
  <1> DEFINE i == Idle(l, s)
  <1>1. i \in Logic /\ ~i.button /\ i.psOn = (config.hold /\ s)
    BY IdleFields
  <1>2. Enter(i, st) \in Logic /\ Enter(i, st).state = st /\ ~Enter(i, st).button
        /\ Enter(i, st).psOn = (config.hold /\ s)
    BY <1>1, EnterFields
  <1>3. QED
    BY <1>2 DEF SoundLogic, EndOfPass, Config

LEMMA FailEndsPass ==
    ASSUME NEW l \in Logic, config \in Config, UsesSense, sensed \in BOOLEAN
    PROVE  SoundLogic(Fail(l, sensed)) /\ EndOfPass(Fail(l, sensed))
  <1> DEFINE i == [Idle(l, sensed) EXCEPT !.failAge = 0]
  <1>1. i \in Logic /\ ~i.button /\ i.psOn = (config.hold /\ sensed)
    BY IdleFields, ZeroAge DEF Logic
  <1> HIDE DEF i
  <1>2. Enter(i, "fault") \in Logic /\ Enter(i, "fault").state = "fault"
        /\ ~Enter(i, "fault").button /\ Enter(i, "fault").psOn = (config.hold /\ sensed)
    BY <1>1, EnterFields
  <1>3. SoundLogic(Enter(i, "fault")) /\ EndOfPass(Enter(i, "fault"))
    BY <1>2 DEF SoundLogic, EndOfPass, Config
  <1>4. QED
    BY <1>3 DEF Fail, i

LEMMA PendingEndsPass ==
    ASSUME NEW l \in Logic, SoundLogic(l), l.state = "off_pending",
           config \in Config, sensed \in BOOLEAN
    PROVE  SoundLogic(TickPending(l, sensed)) /\ EndOfPass(TickPending(l, sensed))
  <1>1. CASE TickPending(l, sensed) = PowerOff(l)
    <2>1. ~PowerOff(l).psOn /\ ~PowerOff(l).button
      BY IdleFields, EnterFields DEF PowerOff
    <2>2. ~(UsesSense /\ sensed)
      <3>1. /\ PowerOff(l).state = "off"
            /\ UsesSense => BeginStop(l).state = "stopping"
        BY PowerOffSound, BeginStopSound
      <3>2. QED
        BY <1>1, <3>1 DEF TickPending
    <2>3. EndOfPass(PowerOff(l))
      BY <2>1, <2>2, PowerOffSound DEF EndOfPass
    <2>4. SoundLogic(PowerOff(l))
      BY PowerOffSound
    <2>5. QED
      BY <1>1, <2>3, <2>4
  <1>2. CASE TickPending(l, sensed) = l /\ ~PendingDue(l) /\ ~(UsesSense /\ ~sensed)
    BY <1>2 DEF EndOfPass, SoundLogic
  <1>3. CASE TickPending(l, sensed) = BeginStop(l) /\ UsesSense /\ sensed
    <2> DEFINE e == Enter(Idle(l, TRUE), "stopping")
    <2>1. Idle(l, TRUE) \in Logic
      BY IdleFields
    <2>2. e \in Logic /\ e.phaseAge = 0
      BY <2>1, ZeroAge DEF Enter, Logic
    <2>3. BeginStop(l).phaseAge = 0 /\ ~BeginStop(l).pulsed
      BY <2>2 DEF BeginStop, Logic
    <2>4. SoundLogic(BeginStop(l)) /\ BeginStop(l).state = "stopping"
      BY <1>3, BeginStopSound
    <2>5. config.hold => BeginStop(l).psOn
      BY <1>3, <2>4 DEF SoundLogic
    <2>6. 0 < ButtonPulse
      BY TimingAssumption
    <2>7. EndOfPass(BeginStop(l))
      BY <1>3, <2>3, <2>4, <2>5, <2>6 DEF EndOfPass
    <2>8. QED
      BY <1>3, <2>4, <2>7
  <1>4. QED
    BY <1>1, <1>2, <1>3 DEF TickPending

LEMMA HandoffEndsPass ==
    ASSUME SoundLogic(logic), config \in Config, sensed \in BOOLEAN,
           config' = config, sensed' = sensed, TickHandoff
    PROVE  SoundLogic(logic)' /\ EndOfPass(logic)'
  <1> DEFINE l == Detected(logic)
  <1>1. logic \in Logic /\ logic.state = "starting" /\ UsesSense /\ sensed
    BY DEF TickHandoff, SoundLogic
  <1>2. /\ l \in Logic /\ l.state = "starting" /\ ~l.button
        /\ config.hold => l.psOn
    BY <1>1, ZeroAge DEF Detected, Logic, Config
  <1> HIDE DEF l
  <1>3. SoundLogic(l) /\ EndOfPass(l)
    BY <1>1, <1>2 DEF SoundLogic, EndOfPass
  <1>4. SoundLogic(Enter(Idle(l, TRUE), "on")) /\ EndOfPass(Enter(Idle(l, TRUE), "on"))
    BY <1>1, <1>2, IdleEndsPass
  <1>5. logic' = l \/ logic' = Enter(Idle(l, TRUE), "on")
    BY DEF TickHandoff, l
  <1>6. QED
    BY <1>3, <1>4, <1>5, CarryTick

LEMMA StartingEndsPass ==
    ASSUME SoundLogic(logic), config \in Config, sensed \in BOOLEAN,
           config' = config, sensed' = sensed, TickStarting
    PROVE  SoundLogic(logic)' /\ EndOfPass(logic)'
  <1> DEFINE l == DriveStartPulse(logic)
  <1>1. logic \in Logic /\ logic.state = "starting" /\ UsesSense /\ ~sensed
    BY DEF TickStarting, SoundLogic
  <1>2. /\ SoundLogic(l) /\ l.state = "starting" /\ l \in Logic
        /\ l.button => ~l.pulsed /\ l.phaseAge < ButtonPulse
    BY <1>1, StartPulseSound DEF SoundLogic
  <1> HIDE DEF l
  <1>3. EndOfPass(l)
    BY <1>1, <1>2 DEF EndOfPass
  <1>4. SoundLogic(Fail(l, FALSE)) /\ EndOfPass(Fail(l, FALSE))
    BY <1>1, <1>2, FailEndsPass
  <1>5. logic' = l \/ logic' = Fail(l, FALSE)
    BY DEF TickStarting, l
  <1>6. QED
    BY <1>2, <1>3, <1>4, <1>5, CarryTick

LEMMA StoppingEndsPass ==
    ASSUME SoundLogic(logic), config \in Config, sensed \in BOOLEAN,
           config' = config, sensed' = sensed, TickStopping
    PROVE  SoundLogic(logic)' /\ EndOfPass(logic)'
  <1> DEFINE l == ReleaseStopPulse(logic)
  <1>1. logic \in Logic /\ logic.state = "stopping" /\ UsesSense
    BY DEF TickStopping, SoundLogic
  <1>2. /\ SoundLogic(l) /\ l.state = "stopping" /\ l \in Logic
        /\ l.button => l.phaseAge < (IF l.pulsed THEN ForceOffHold ELSE ButtonPulse)
    BY <1>1, StopPulseSound DEF SoundLogic
  <1> HIDE DEF l
  <1>3. sensed => EndOfPass(l)
    BY <1>1, <1>2 DEF EndOfPass, SoundLogic
  <1>4. SoundLogic(Fail(l, sensed)) /\ EndOfPass(Fail(l, sensed))
    BY <1>1, <1>2, FailEndsPass
  <1>5. ~sensed => SoundLogic(PowerOff(l)) /\ EndOfPass(PowerOff(l))
    BY <1>1, <1>2, IdleEndsPass DEF PowerOff
  <1>6. \/ sensed /\ (logic' = l \/ logic' = Fail(l, sensed))
        \/ ~sensed /\ logic' = PowerOff(l)
    BY DEF TickStopping, l
  <1>7. QED
    BY <1>2, <1>3, <1>4, <1>5, <1>6, CarryTick

LEMMA SteadyEndsPass ==
    ASSUME SoundLogic(logic), config \in Config, sensed \in BOOLEAN,
           config' = config, sensed' = sensed, TickOn \/ TickOff \/ TickFault
    PROVE  SoundLogic(logic)' /\ EndOfPass(logic)'
  <1>1. logic \in Logic /\ UsesSense /\ logic.state \in {"on", "off", "fault"}
    BY DEF TickOn, TickOff, TickFault, SoundLogic
  <1>2. sensed => /\ SoundLogic(Enter(Idle(logic, TRUE), "on"))
                  /\ EndOfPass(Enter(Idle(logic, TRUE), "on"))
    BY <1>1, IdleEndsPass
  <1>3. ~sensed => SoundLogic(PowerOff(logic)) /\ EndOfPass(PowerOff(logic))
    BY <1>1, IdleEndsPass DEF PowerOff
  <1>4. /\ Idle(logic, sensed) \in Logic /\ Idle(logic, sensed).state = logic.state
        /\ Idle(logic, sensed).psOn = (config.hold /\ sensed)
        /\ ~Idle(logic, sensed).button
    BY <1>1, IdleFields
  <1>5. logic.state # "off" => SoundLogic(Idle(logic, sensed)) /\ EndOfPass(Idle(logic, sensed))
    BY <1>1, <1>4 DEF SoundLogic, EndOfPass, Config
  <1>6. logic.state = "off" /\ ~sensed => EndOfPass(logic)
    BY <1>1 DEF SoundLogic, EndOfPass
  <1>7. \/ sensed /\ logic' = Enter(Idle(logic, TRUE), "on")
        \/ ~sensed /\ logic' = PowerOff(logic)
        \/ logic.state # "off" /\ logic' = Idle(logic, sensed)
        \/ logic.state = "off" /\ ~sensed /\ logic' = logic
    BY DEF TickOn, TickOff, TickFault
  <1>8. QED
    BY <1>2, <1>3, <1>5, <1>6, <1>7, CarryTick

LEMMA LatchedEndsPass ==
    ASSUME SoundLogic(logic), config \in Config, sensed \in BOOLEAN,
           config' = config, sensed' = sensed, TickLatchedStart \/ TickLatchedSteady
    PROVE  SoundLogic(logic)' /\ EndOfPass(logic)'
  <1>1. logic \in Logic /\ ~UsesSense
    BY DEF TickLatchedStart, TickLatchedSteady, SoundLogic
  <1>2. CASE TickLatchedSteady
    BY <1>1, <1>2, CarryTick DEF TickLatchedSteady, EndOfPass, SoundLogic
  <1>3. CASE TickLatchedStart
    <2> DEFINE l == DriveStartPulse(logic)
    <2>1. /\ SoundLogic(l) /\ l.state = "starting" /\ l \in Logic
          /\ l.button => ~l.pulsed /\ l.phaseAge < ButtonPulse
      BY <1>1, <1>3, StartPulseSound DEF SoundLogic, TickLatchedStart
    <2> HIDE DEF l
    <2>2. EndOfPass(l)
      BY <1>1, <2>1 DEF EndOfPass
    <2>3. l.pulsed => SoundLogic(Enter(l, "on")) /\ EndOfPass(Enter(l, "on"))
      BY <1>1, <2>1, EnterFields DEF SoundLogic, EndOfPass
    <2>4. \/ logic' = l
          \/ l.pulsed /\ logic' = Enter(l, "on")
      BY <1>3 DEF TickLatchedStart, l
    <2>5. QED
      BY <2>1, <2>2, <2>3, <2>4, CarryTick
  <1>4. QED
    BY <1>2, <1>3

LEMMA TickEndsPass ==
    ASSUME SoundLogic(logic), config \in Config, sensed \in BOOLEAN, Tick
    PROVE  SoundLogic(logic)' /\ EndOfPass(logic)'
  <1>1. config' = config /\ sensed' = sensed
    BY DEF Tick
  <1>2. CASE TickOffPending
    <2>1. logic \in Logic
      BY DEF SoundLogic
    <2>2. QED
      BY <1>1, <1>2, <2>1, PendingEndsPass, CarryTick DEF TickOffPending
  <1>3. QED
    BY <1>1, <1>2, HandoffEndsPass, StartingEndsPass, StoppingEndsPass,
       SteadyEndsPass, LatchedEndsPass DEF Tick

-------------------------------------------------------------------------------
(* The inductive invariant and what follows from it.                        *)

IInv ==
    /\ config \in Configs
    /\ sensed \in BOOLEAN
    /\ pc \in {"sampled", "ticked"}
    /\ SoundLogic(logic)
    /\ pc = "ticked" => EndOfPass(logic)

LEMMA SampleSound ==
    ASSUME SoundLogic(logic), Sample
    PROVE  SoundLogic(logic)'
  <1>1. PICK dt \in 1 .. MaxStep :
           logic' = [logic EXCEPT !.stateAge = Older(@, dt),
                                  !.phaseAge = Older(@, dt),
                                  !.failAge  = Older(@, dt)]
    BY DEF Sample
  <1>2. \A a \in Age : Older(a, dt) \in Age
    BY TimingAssumption DEF Older
  <1>3. logic' \in Logic
    BY <1>1, <1>2 DEF SoundLogic, Logic
  <1>4. /\ logic'.state = logic.state /\ logic'.psOn = logic.psOn
        /\ logic'.button = logic.button /\ logic'.pulsed = logic.pulsed
    BY <1>1 DEF SoundLogic, Logic
  <1>5. config' = config
    BY DEF Sample
  <1>6. QED
    BY <1>3, <1>4, <1>5 DEF SoundLogic, UsesSense

LEMMA InitIInv == Init => IInv
  <1> SUFFICES ASSUME Init PROVE IInv
    OBVIOUS
  <1>1. config \in Configs /\ config \in Config /\ sensed \in BOOLEAN /\ pc = "sampled"
    BY ConfigsAssumption DEF Init
  <1>2. /\ logic.state = (IF sensed THEN "on" ELSE "off")
        /\ logic.psOn = (config.hold /\ sensed)
        /\ ~logic.button
        /\ ~UsesSense => ~sensed
    BY DEF Init
  <1>3. logic \in Logic
    BY <1>1, ZeroAge DEF Init, Logic, Config
  <1>4. SoundLogic(logic)
    BY <1>1, <1>2, <1>3 DEF SoundLogic, Config
  <1>5. QED
    BY <1>1, <1>4 DEF IInv

LEMMA StepIInv == IInv /\ [Next]_vars => IInv'
  <1> SUFFICES ASSUME IInv, [Next]_vars PROVE IInv'
    OBVIOUS
  <1>1. config \in Config /\ sensed \in BOOLEAN /\ SoundLogic(logic)
    BY ConfigsAssumption DEF IInv
  <1>2. CASE Sample
    BY <1>1, <1>2, SampleSound DEF IInv, Sample
  <1>3. ASSUME NEW act \in Actions, Request(act) PROVE IInv'
    BY <1>1, <1>3, RequestSound DEF IInv, Request
  <1>4. CASE Tick
    BY <1>1, <1>4, TickEndsPass DEF IInv, Tick
  <1>5. CASE UNCHANGED vars
    BY <1>5 DEF IInv, SoundLogic, EndOfPass, UsesSense, PendingDue, vars
  <1>6. QED
    BY <1>2, <1>3, <1>4, <1>5 DEF Next

LEMMA Invariance == Spec => []IInv
  BY InitIInv, StepIInv, PTL DEF Spec

(* The type invariant of the controller and of its logic structure: ages    *)
(* stay within their bound and no state outside the enumeration is entered. *)
THEOREM TypeCorrect == Spec => []TypeOK
  <1>1. IInv => TypeOK
    BY DEF IInv, TypeOK, SoundLogic
  <1>2. QED
    BY <1>1, Invariance, PTL

(* With hold_ps_on every pass ends with the PS_ON contact closed for a      *)
(* board that is sensed on, from any state and through any requests.        *)
THEOREM HoldCovers == Spec => []HoldCoversSensedPower
  <1>1. IInv => HoldCoversSensedPower
    BY DEF IInv, EndOfPass, HoldCoversSensedPower
  <1>2. QED
    BY <1>1, Invariance, PTL

(* With the sense off, only a running start drives an output.               *)
THEOREM OutputsReleased == Spec => []NothingDrivenWithoutCause
  <1>1. IInv => NothingDrivenWithoutCause
    BY DEF IInv, EndOfPass, NothingDrivenWithoutCause
  <1>2. QED
    BY <1>1, Invariance, PTL

(* The motherboard switch is never left pressed beyond its pulse or hold.   *)
THEOREM ButtonReleased == Spec => []ButtonWithinHold
  <1>1. IInv => ButtonWithinHold
    BY DEF IInv, EndOfPass, ButtonWithinHold
  <1>2. QED
    BY <1>1, Invariance, PTL

(* In the latch methods PS_ON is closed exactly while power is commanded,   *)
(* at every point of a pass, and no sense-based state is ever entered.      *)
THEOREM LatchMirrors == Spec => []LatchMirrorsState
  <1>1. IInv => LatchMirrorsState
    BY DEF IInv, SoundLogic, LatchMirrorsState
  <1>2. QED
    BY <1>1, Invariance, PTL

(* The outputs match the state at the end of every pass.                    *)
THEOREM OutputsMatch == Spec => []OutputsMatchState
  <1>1. /\ HoldCoversSensedPower /\ NothingDrivenWithoutCause
        /\ ButtonWithinHold /\ LatchMirrorsState
        => OutputsMatchState
    BY DEF OutputsMatchState
  <1>2. QED
    BY <1>1, HoldCovers, OutputsReleased, ButtonReleased, LatchMirrors, PTL

-------------------------------------------------------------------------------
(* Action properties.                                                       *)

(* Every structure a stop, a delayed stop or its cancellation begins with   *)
(* keeps the hold.                                                          *)
LEMMA StopKeepsHold ==
    ASSUME NEW l \in Logic, config \in Config, config.hold
    PROVE  BeginStop(l).psOn /\ ForceStop(l).psOn /\ BeginPending(l).psOn
           /\ CancelPending(l).psOn
  <1> DEFINE i == Idle(l, TRUE)
             e == Enter(i, "stopping")
             q == [i EXCEPT !.psOn = config.hold \/ ~UsesSense]
  <1>1. i \in Logic /\ i.psOn
    BY IdleFields DEF Config
  <1> HIDE DEF i
  <1>2. e \in Logic /\ e.psOn
    BY <1>1, EnterFields
  <1>3. q \in Logic /\ q.psOn
    BY <1>1 DEF Logic, Config
  <1> HIDE DEF e, q
  <1>4. BeginStop(l).psOn /\ ForceStop(l).psOn
    BY <1>2 DEF BeginStop, ForceStop, Logic, e, i
  <1>5. Enter(q, "off_pending").psOn /\ Enter(q, "on").psOn
    BY <1>3, EnterFields
  <1>6. BeginPending(l).psOn /\ CancelPending(l).psOn
    BY <1>5 DEF BeginPending, CancelPending, q, i
  <1>7. QED
    BY <1>4, <1>6

LEMMA RequestKeepsHold ==
    ASSUME SoundLogic(logic), config \in Config, NEW act \in Actions, Request(act),
           UsesSense, config.hold, sensed \in BOOLEAN, sensed, logic.psOn
    PROVE  logic'.psOn
  <1> DEFINE p == Honoured
             a == Meaning(p, act)
  <1>1. p \in Logic /\ p.psOn
    <2>1. logic \in Logic /\ BeginStop(logic) \in Logic /\ BeginStop(logic).psOn
      BY BeginStopSound, StopKeepsHold DEF SoundLogic
    <2>2. p = logic \/ p = BeginStop(logic)
      BY DEF Honoured, TickPending
    <2>3. QED
      BY <2>1, <2>2
  <1>2. BeginStop(p).psOn /\ ForceStop(p).psOn /\ BeginPending(p).psOn
        /\ CancelPending(p).psOn
    BY <1>1, StopKeepsHold
  <1>3. RequestStop(p).psOn
    BY <1>2 DEF RequestStop
  <1>4. CASE Serve(p, a)
    <2>1. ~OffCancelsStart(p) /\ ~ForceCancelsStart(p)
      BY DEF OffCancelsStart, ForceCancelsStart
    <2>2. \/ logic' = p
          \/ logic' = RequestStop(p)
          \/ logic' = ForceStop(p)
      BY <1>4, <2>1 DEF Serve, SensedOn, SensedOff, SensedForceOff
    <2>3. QED
      BY <1>1, <1>2, <1>3, <2>2
  <1>5. logic' = p \/ logic' = CancelPending(p) \/ Serve(p, a)
    BY DEF Request
  <1>6. QED
    BY <1>1, <1>2, <1>4, <1>5

(* With hold_ps_on nothing opens the PS_ON contact while the sense is on.   *)
THEOREM HoldKept == Spec => HoldNeverDrops
  <1>1. IInv /\ [Next]_vars =>
          [UsesSense /\ config.hold /\ sensed /\ sensed' /\ logic.psOn
             => logic'.psOn]_vars
    <2> SUFFICES ASSUME IInv, [Next]_vars, UsesSense, config.hold, sensed, sensed',
                        logic.psOn
                 PROVE  logic'.psOn \/ UNCHANGED vars
      OBVIOUS
    <2>1. config \in Config /\ sensed \in BOOLEAN /\ SoundLogic(logic)
      BY ConfigsAssumption DEF IInv
    <2>2. CASE Sample
      BY <2>1, <2>2 DEF Sample, SoundLogic, Logic
    <2>3. ASSUME NEW act \in Actions, Request(act) PROVE logic'.psOn
      BY <2>1, <2>3, RequestKeepsHold
    <2>4. CASE Tick
      <3>1. EndOfPass(logic)' /\ config' = config
        BY <2>1, <2>4, TickEndsPass DEF Tick
      <3>2. QED
        BY <3>1 DEF EndOfPass, UsesSense
    <2>5. QED
      BY <2>2, <2>3, <2>4 DEF Next
  <1>2. QED
    BY <1>1, Invariance, PTL DEF Spec, HoldNeverDrops

(* A shutdown that began ends only with the sense off or in a fault after   *)
(* its timeout, whatever is requested meanwhile.                            *)
THEOREM StopFinal == Spec => StopRunsToItsEnd
  <1> DEFINE Ends ==
        \/ logic'.state = "stopping"
        \/ logic'.state = "off" /\ ~sensed
        \/ logic'.state = "fault" /\ sensed /\ logic.stateAge >= ShutdownTimeout
  <1>1. IInv /\ [Next]_vars => [logic.state = "stopping" => Ends]_vars
    <2> SUFFICES ASSUME IInv, Next, logic.state = "stopping"
                 PROVE  Ends
      OBVIOUS
    <2>1. /\ config \in Config /\ sensed \in BOOLEAN
          /\ SoundLogic(logic) /\ logic \in Logic /\ UsesSense
      BY ConfigsAssumption DEF IInv, SoundLogic
    <2>2. CASE Sample
      BY <2>1, <2>2 DEF Sample, Logic
    <2>3. ASSUME NEW act \in Actions, Request(act) PROVE Ends
      <3> DEFINE a == Meaning(logic, act)
      <3>1. Honoured = logic
        BY DEF Honoured
      <3>2. Serve(logic, a)
        BY <2>3, <3>1 DEF Request
      <3>3. ~OffCancelsStart(logic) /\ ~ForceCancelsStart(logic)
        BY DEF OffCancelsStart, ForceCancelsStart
      <3>4. logic' = logic \/ logic' = ForceStop(logic)
        BY <2>1, <3>2, <3>3 DEF Serve, SensedOn, SensedOff, SensedForceOff
      <3>5. ForceStop(logic).state = "stopping"
        BY <2>1, BeginStopSound
      <3>6. QED
        BY <3>4, <3>5
    <2>4. CASE Tick
      <3> DEFINE l == ReleaseStopPulse(logic)
      <3>1. TickStopping
        BY <2>1, <2>4 DEF Tick, TickLatchedStart, TickLatchedSteady, TickHandoff, Detected,
           TickStarting, TickOn, TickOff, TickFault, TickOffPending
      <3>2. l \in Logic /\ l.state = "stopping" /\ l.stateAge = logic.stateAge
        BY <2>1 DEF ReleaseStopPulse, Logic
      <3> HIDE DEF l
      <3>3. PowerOff(l).state = "off" /\ Fail(l, TRUE).state = "fault"
        BY <2>1, <3>2, PowerOffSound, FailSound
      <3>4. \/ ~sensed /\ logic' = PowerOff(l)
            \/ sensed /\ logic' = l
            \/ sensed /\ l.stateAge >= ShutdownTimeout /\ logic' = Fail(l, TRUE)
        BY <3>1 DEF TickStopping, l
      <3>5. QED
        BY <3>2, <3>3, <3>4
    <2>5. QED
      BY <2>2, <2>3, <2>4 DEF Next
  <1>2. QED
    BY <1>1, Invariance, PTL DEF Spec, StopRunsToItsEnd

(* The hold is dropped only by a shutdown, and a shutdown runs to its end.  *)
THEOREM ShutdownOrderly == Spec => ShutdownIsOrderly
  BY HoldKept, StopFinal, PTL DEF ShutdownIsOrderly

-------------------------------------------------------------------------------
(* What a request or a tick does to the cooldown, to a start and to a       *)
(* pending Off.                                                             *)

(* Entering a state, releasing the outputs and beginning anything keep the  *)
(* age of the last failure, and all but a start and a stop leave the switch *)
(* released.                                                                *)
LEMMA EnterKeeps ==
    ASSUME NEW l \in Logic, NEW st \in States
    PROVE  /\ Enter(l, st) \in Logic /\ Enter(l, st).state = st
           /\ Enter(l, st).failAge = l.failAge /\ Enter(l, st).button = l.button
           /\ Enter(l, st).handoff = l.handoff
  BY ZeroAge DEF Enter, Logic

LEMMA IdleKeeps ==
    ASSUME NEW l \in Logic, NEW s \in BOOLEAN, config \in Config
    PROVE  /\ Idle(l, s) \in Logic /\ Idle(l, s).state = l.state
           /\ Idle(l, s).failAge = l.failAge /\ ~Idle(l, s).button
  BY DEF Idle, Logic, Config

LEMMA PowerOffKeeps ==
    ASSUME NEW l \in Logic, config \in Config
    PROVE  /\ PowerOff(l) \in Logic /\ PowerOff(l).state = "off"
           /\ PowerOff(l).failAge = l.failAge /\ ~PowerOff(l).button
  <1> DEFINE i == Idle(l, FALSE)
  <1>1. i \in Logic /\ i.failAge = l.failAge /\ ~i.button
    BY IdleKeeps
  <1> HIDE DEF i
  <1>2. PowerOff(l) = Enter(i, "off")
    BY DEF PowerOff, i
  <1>3. QED
    BY <1>1, <1>2, EnterKeeps

LEMMA StopKeeps ==
    ASSUME NEW l \in Logic, config \in Config
    PROVE  /\ BeginStop(l) \in Logic /\ BeginStop(l).state = "stopping"
           /\ BeginStop(l).failAge = l.failAge
           /\ ForceStop(l) \in Logic /\ ForceStop(l).state = "stopping"
           /\ ForceStop(l).failAge = l.failAge
  <1> DEFINE i == Idle(l, TRUE)
             e == Enter(i, "stopping")
  <1>1. i \in Logic /\ i.failAge = l.failAge
    BY IdleKeeps
  <1> HIDE DEF i
  <1>2. e \in Logic /\ e.state = "stopping" /\ e.failAge = l.failAge
    BY <1>1, EnterKeeps
  <1> HIDE DEF e
  <1>3. \A b \in BOOLEAN :
          LET x == [e EXCEPT !.button = TRUE, !.pulsed = b]
          IN  x \in Logic /\ x.state = e.state /\ x.failAge = e.failAge
    BY <1>2 DEF Logic
  <1>4. /\ BeginStop(l) = [e EXCEPT !.button = TRUE, !.pulsed = FALSE]
        /\ ForceStop(l) = [e EXCEPT !.button = TRUE, !.pulsed = TRUE]
    BY DEF BeginStop, ForceStop, e, i
  <1>5. QED
    BY <1>2, <1>3, <1>4

LEMMA PendingKeeps ==
    ASSUME NEW l \in Logic, config \in Config
    PROVE  /\ BeginPending(l) \in Logic /\ BeginPending(l).state = "off_pending"
           /\ BeginPending(l).failAge = l.failAge /\ ~BeginPending(l).button
           /\ CancelPending(l) \in Logic /\ CancelPending(l).state = "on"
           /\ CancelPending(l).failAge = l.failAge /\ ~CancelPending(l).button
  <1> DEFINE i == Idle(l, TRUE)
             q == [i EXCEPT !.psOn = config.hold \/ ~UsesSense]
  <1>1. i \in Logic /\ i.failAge = l.failAge /\ ~i.button
    BY IdleKeeps
  <1> HIDE DEF i
  <1>2. q \in Logic /\ q.failAge = l.failAge /\ ~q.button
    BY <1>1 DEF Logic, Config
  <1> HIDE DEF q
  <1>3. BeginPending(l) = Enter(q, "off_pending") /\ CancelPending(l) = Enter(q, "on")
    BY DEF BeginPending, CancelPending, q, i
  <1>4. QED
    BY <1>2, <1>3, EnterKeeps

LEMMA StartKeeps ==
    ASSUME NEW l \in Logic, config \in Config
    PROVE  /\ BeginStart(l) \in Logic /\ BeginStart(l).state = "starting"
           /\ BeginStart(l).failAge = l.failAge /\ ~BeginStart(l).handoff
  <1> DEFINE e == Enter(l, "starting")
  <1>1. e \in Logic /\ e.state = "starting" /\ e.failAge = l.failAge
    BY EnterKeeps
  <1> HIDE DEF e
  <1>2. BeginStart(l) =
          [e EXCEPT !.psOn    = config.strategy # "button_only",
                    !.button  = HasStartPulse /\ (PressesAtOnce \/ config.inter = 0),
                    !.pulsed  = ~HasStartPulse,
                    !.handoff = FALSE]
    BY DEF BeginStart, e
  <1>3. QED
    BY <1>1, <1>2 DEF Logic

LEMMA FailKeeps ==
    ASSUME NEW l \in Logic, NEW s \in BOOLEAN, config \in Config
    PROVE  /\ Fail(l, s) \in Logic /\ Fail(l, s).state = "fault"
           /\ Fail(l, s).failAge = 0 /\ ~Fail(l, s).button
  <1> DEFINE i == Idle(l, s)
             q == [i EXCEPT !.failAge = 0]
  <1>1. i \in Logic /\ ~i.button
    BY IdleKeeps
  <1> HIDE DEF i
  <1>2. q \in Logic /\ q.failAge = 0 /\ ~q.button
    BY <1>1, ZeroAge DEF Logic
  <1> HIDE DEF q
  <1>3. Fail(l, s) = Enter(q, "fault")
    BY DEF Fail, q, i
  <1>4. QED
    BY <1>2, <1>3, EnterKeeps

LEMMA OpenLatchKeeps ==
    ASSUME NEW p \in Logic, OpenLatch(p)
    PROVE  /\ logic' \in Logic /\ logic'.state = "off"
           /\ logic'.failAge = p.failAge /\ ~logic'.button
  <1> DEFINE q == [p EXCEPT !.psOn = FALSE, !.button = FALSE]
  <1>1. q \in Logic /\ q.failAge = p.failAge /\ ~q.button /\ q.state = p.state
    BY DEF Logic
  <1> HIDE DEF q
  <1>2. logic' = IF p.state = "off" THEN q ELSE Enter(q, "off")
    BY DEF OpenLatch, q
  <1>3. QED
    BY <1>1, <1>2, EnterKeeps

(* A request starts only from a state that is not a start, with the sense   *)
(* off and the cooldown over; it neither fails nor moves a pending deadline,*)
(* and presses a sensed board's switch only to stop it.                     *)
RequestMoves ==
    /\ logic' \in Logic /\ logic'.failAge = logic.failAge
    /\ logic'.state = "fault" => logic.state = "fault"
    /\ logic'.state = "starting" =>
         \/ logic' = logic
         \/ logic.state # "starting" /\ ~sensed /\ ~CoolingDown(logic') /\ ~logic'.handoff
    /\ logic.state = "off_pending" /\ logic'.state = "off_pending" => logic' = logic
    /\ UsesSense /\ sensed /\ logic'.button => logic.button \/ logic'.state = "stopping"

(* The deadline of a pending Off, honoured before a request.                *)
LEMMA HonouredMoves ==
    ASSUME logic \in Logic, config \in Config, sensed \in BOOLEAN
    PROVE  /\ Honoured \in Logic /\ Honoured.failAge = logic.failAge
           /\ \/ Honoured = logic
              \/ /\ logic.state = "off_pending"
                 /\ \/ Honoured.state = "off" /\ ~Honoured.button /\ ~(UsesSense /\ sensed)
                    \/ Honoured.state = "stopping" /\ UsesSense /\ sensed
  <1>1. /\ PowerOff(logic) \in Logic /\ PowerOff(logic).state = "off"
        /\ PowerOff(logic).failAge = logic.failAge /\ ~PowerOff(logic).button
    BY PowerOffKeeps
  <1>2. /\ BeginStop(logic) \in Logic /\ BeginStop(logic).state = "stopping"
        /\ BeginStop(logic).failAge = logic.failAge
    BY StopKeeps
  <1>3. \/ Honoured = logic
        \/ /\ logic.state = "off_pending"
           /\ \/ Honoured = PowerOff(logic) /\ ~(UsesSense /\ sensed)
              \/ Honoured = BeginStop(logic) /\ UsesSense /\ sensed
    BY DEF Honoured, TickPending
  <1>4. QED
    BY <1>1, <1>2, <1>3

LEMMA ServeMoves ==
    ASSUME NEW p \in Logic, NEW a \in {"on", "off", "force_off"}, Serve(p, a),
           config \in Config, sensed \in BOOLEAN, ~UsesSense => ~sensed,
           p.state # "off_pending" \/ a = "force_off"
    PROVE  /\ logic' \in Logic /\ logic'.failAge = p.failAge
           /\ \/ logic' = p
              \/ /\ logic'.state = "starting" /\ p.state # "starting"
                 /\ ~sensed /\ ~CoolingDown(logic') /\ ~logic'.handoff
              \/ logic'.state \in {"off", "on"} /\ ~logic'.button
              \/ /\ logic'.state = "off_pending" /\ ~logic'.button
                 /\ p.state \notin {"off_pending", "stopping"}
                 /\ UsesSense => sensed
                 /\ ~UsesSense => p.state = "on"
              \/ logic'.state = "stopping"
  <1>1. CASE logic' = p
    BY <1>1
  <1>2. CASE logic' = BeginStart(p) /\ p.state # "starting" /\ ~sensed /\ ~CoolingDown(p)
    BY <1>2, StartKeeps DEF CoolingDown
  <1>3. CASE logic' = PowerOff(p)
    BY <1>3, PowerOffKeeps
  <1>4. CASE /\ logic' = RequestStop(p) /\ p.state \notin {"off_pending", "stopping"}
             /\ UsesSense => sensed
             /\ ~UsesSense => p.state = "on"
    <2>1. RequestStop(p) \in {BeginPending(p), BeginStop(p), PowerOff(p)}
      BY DEF RequestStop
    <2>2. QED
      BY <1>4, <2>1, PendingKeeps, StopKeeps, PowerOffKeeps
  <1>5. CASE logic' = ForceStop(p)
    BY <1>5, StopKeeps
  <1>6. CASE OpenLatch(p)
    BY <1>6, OpenLatchKeeps
  <1>7. CASE logic' = Enter([p EXCEPT !.psOn = TRUE, !.button = FALSE], "on")
    <2> DEFINE q == [p EXCEPT !.psOn = TRUE, !.button = FALSE]
    <2>1. q \in Logic /\ q.failAge = p.failAge /\ ~q.button
      BY DEF Logic
    <2> HIDE DEF q
    <2>2. logic' = Enter(q, "on")
      BY <1>7 DEF q
    <2>3. QED
      BY <2>1, <2>2, EnterKeeps
  <1>8. CASE UsesSense
    BY <1>1, <1>2, <1>3, <1>4, <1>5, <1>8
    DEF Serve, SensedOn, SensedOff, SensedForceOff
  <1>9. CASE ~UsesSense
    <2>1. CASE a = "on"
      BY <1>1, <1>2, <1>7, <1>9, <2>1 DEF Serve, LatchedOn
    <2>2. CASE a # "on"
      BY <1>4, <1>6, <1>9, <2>2 DEF Serve, LatchedOff
    <2>3. QED
      BY <2>1, <2>2
  <1>10. QED
    BY <1>8, <1>9

LEMMA RequestKeeps ==
    ASSUME SoundLogic(logic), config \in Config, sensed \in BOOLEAN, ~UsesSense => ~sensed,
           NEW act \in Actions, Request(act)
    PROVE  RequestMoves
  <1> DEFINE p == Honoured
             a == Meaning(p, act)
  <1>1. logic \in Logic
    BY DEF SoundLogic
  <1>2. /\ p \in Logic /\ p.failAge = logic.failAge
        /\ \/ p = logic
           \/ /\ logic.state = "off_pending"
              /\ \/ p.state = "off" /\ ~p.button /\ ~(UsesSense /\ sensed)
                 \/ p.state = "stopping" /\ UsesSense /\ sensed
    BY <1>1, HonouredMoves
  <1>3. a \in {"on", "off", "force_off"}
    BY DEF Meaning, Actions
  <1>4. \/ p.state = "off_pending" /\ logic' = p
        \/ p.state = "off_pending" /\ logic' = CancelPending(p)
        \/ (p.state # "off_pending" \/ a = "force_off") /\ Serve(p, a)
    BY DEF Request
  <1> HIDE DEF p, a
  <1>5. CASE logic' = p
    BY <1>1, <1>2, <1>5 DEF RequestMoves
  <1>6. CASE logic' = CancelPending(p)
    BY <1>2, <1>6, PendingKeeps DEF RequestMoves
  <1>7. CASE logic' # p /\ (p.state # "off_pending" \/ a = "force_off") /\ Serve(p, a)
    <2>1. /\ logic' \in Logic /\ logic'.failAge = p.failAge
          /\ \/ /\ logic'.state = "starting" /\ p.state # "starting"
                /\ ~sensed /\ ~CoolingDown(logic') /\ ~logic'.handoff
             \/ logic'.state \in {"off", "on"} /\ ~logic'.button
             \/ /\ logic'.state = "off_pending" /\ ~logic'.button
                /\ p.state \notin {"off_pending", "stopping"}
                /\ UsesSense => sensed
                /\ ~UsesSense => p.state = "on"
             \/ logic'.state = "stopping"
      BY <1>2, <1>3, <1>7, ServeMoves
    <2>2. QED
      BY <1>1, <1>2, <2>1 DEF RequestMoves
  <1>8. QED
    BY <1>4, <1>5, <1>6, <1>7

(* A tick begins no start, restarts the cooldown exactly when it enters the *)
(* fault, keeps what a running start has done, and presses a sensed board's *)
(* switch only to stop it.                                                  *)
TickMoves ==
    /\ logic' \in Logic
    /\ \/ logic'.failAge = logic.failAge /\ (logic'.state = "fault" => logic.state = "fault")
       \/ logic'.failAge = 0 /\ logic'.state = "fault" /\ logic.state # "fault"
    /\ logic'.state = "starting" =>
         /\ logic.state = "starting"
         /\ logic.pulsed => logic'.pulsed
         /\ logic'.handoff => logic.handoff \/ logic'.pulsed
    /\ logic'.state = "off_pending" => logic' = logic
    /\ UsesSense /\ sensed /\ logic'.button => logic.button \/ logic'.state = "stopping"

LEMMA StartPulseKeeps ==
    ASSUME NEW l \in Logic
    PROVE  LET d == DriveStartPulse(l)
           IN  /\ d \in Logic /\ d.state = l.state /\ d.failAge = l.failAge
               /\ d.handoff = l.handoff
               /\ l.pulsed => d.pulsed
  <1> DEFINE due == PressesAtOnce \/ l.stateAge >= config.inter
             pressed == IF due /\ ~l.button
                        THEN [l EXCEPT !.button = TRUE, !.phaseAge = 0] ELSE l
             released == [pressed EXCEPT !.button = FALSE, !.pulsed = TRUE]
  <1>1. /\ pressed \in Logic /\ pressed.state = l.state /\ pressed.failAge = l.failAge
        /\ pressed.handoff = l.handoff /\ pressed.pulsed = l.pulsed
    BY ZeroAge DEF Logic
  <1>2. DriveStartPulse(l) \in {l, pressed, released}
    BY DEF DriveStartPulse
  <1> HIDE DEF pressed
  <1>3. /\ released \in Logic /\ released.state = l.state /\ released.failAge = l.failAge
        /\ released.handoff = l.handoff /\ released.pulsed
    BY <1>1 DEF Logic
  <1>4. QED
    BY <1>1, <1>2, <1>3

LEMMA StartingMoves ==
    ASSUME logic \in Logic, config \in Config, sensed \in BOOLEAN, ~UsesSense => ~sensed,
           TickLatchedStart \/ TickStarting \/ TickHandoff
    PROVE  TickMoves
  <1> DEFINE d == DriveStartPulse(logic)
             h == Detected(logic)
  <1>1. /\ d \in Logic /\ d.state = logic.state /\ d.failAge = logic.failAge
        /\ d.handoff = logic.handoff /\ (logic.pulsed => d.pulsed)
    BY StartPulseKeeps
  <1>2. /\ h \in Logic /\ h.state = logic.state /\ h.failAge = logic.failAge
        /\ h.pulsed /\ ~h.button
    BY ZeroAge DEF Detected, Logic, Config
  <1>3. logic.state = "starting"
    BY DEF TickLatchedStart, TickStarting, TickHandoff
  <1>4. \/ ~sensed /\ logic' = d
        \/ ~sensed /\ logic' = Enter(d, "on")
        \/ ~sensed /\ logic' = Fail(d, FALSE)
        \/ logic' = h
        \/ logic' = Enter(Idle(h, TRUE), "on")
    BY DEF TickLatchedStart, TickStarting, TickHandoff
  <1> HIDE DEF d, h
  <1>5. /\ Enter(d, "on") \in Logic /\ Enter(d, "on").state = "on"
        /\ Enter(d, "on").failAge = logic.failAge
    BY <1>1, EnterKeeps
  <1>6. /\ Fail(d, FALSE) \in Logic /\ Fail(d, FALSE).state = "fault" /\ Fail(d, FALSE).failAge = 0
    BY <1>1, FailKeeps
  <1>7. LET x == Enter(Idle(h, TRUE), "on")
        IN  x \in Logic /\ x.state = "on" /\ x.failAge = logic.failAge /\ ~x.button
    <2>1. /\ Idle(h, TRUE) \in Logic /\ Idle(h, TRUE).failAge = logic.failAge
          /\ ~Idle(h, TRUE).button
      BY <1>2, IdleKeeps
    <2>2. QED
      BY <2>1, EnterKeeps
  <1>8. QED
    BY <1>1, <1>2, <1>3, <1>4, <1>5, <1>6, <1>7 DEF TickMoves

LEMMA StoppingMoves ==
    ASSUME logic \in Logic, config \in Config, sensed \in BOOLEAN, TickStopping
    PROVE  TickMoves
  <1> DEFINE r == ReleaseStopPulse(logic)
  <1>1. /\ r \in Logic /\ r.state = "stopping" /\ r.failAge = logic.failAge
        /\ logic.state = "stopping"
    BY DEF ReleaseStopPulse, TickStopping, Logic
  <1>2. logic' = PowerOff(r) \/ logic' = r \/ logic' = Fail(r, TRUE)
    BY DEF TickStopping
  <1> HIDE DEF r
  <1>3. /\ PowerOff(r) \in Logic /\ PowerOff(r).state = "off"
        /\ PowerOff(r).failAge = r.failAge /\ ~PowerOff(r).button
    BY <1>1, PowerOffKeeps
  <1>4. /\ Fail(r, TRUE) \in Logic /\ Fail(r, TRUE).state = "fault"
        /\ Fail(r, TRUE).failAge = 0 /\ ~Fail(r, TRUE).button
    BY <1>1, FailKeeps
  <1>5. QED
    BY <1>1, <1>2, <1>3, <1>4 DEF TickMoves

LEMMA SteadyMoves ==
    ASSUME logic \in Logic, config \in Config, sensed \in BOOLEAN,
           TickLatchedSteady \/ TickOn \/ TickOff \/ TickFault
    PROVE  TickMoves
  <1> DEFINE i == Idle(logic, TRUE)
             f == Idle(logic, FALSE)
  <1>1. /\ i \in Logic /\ i.state = logic.state /\ i.failAge = logic.failAge /\ ~i.button
        /\ f \in Logic /\ f.state = logic.state /\ f.failAge = logic.failAge /\ ~f.button
    BY IdleKeeps
  <1>2. logic.state \notin {"starting", "off_pending"}
    BY DEF TickLatchedSteady, TickOn, TickOff, TickFault
  <1>3. \/ logic' = logic
        \/ logic' = i \/ logic' = f
        \/ logic' = Enter(i, "on")
        \/ logic' = PowerOff(logic)
    BY DEF TickLatchedSteady, TickOn, TickOff, TickFault
  <1>4. /\ PowerOff(logic) \in Logic /\ PowerOff(logic).state = "off"
        /\ PowerOff(logic).failAge = logic.failAge /\ ~PowerOff(logic).button
    BY PowerOffKeeps
  <1> HIDE DEF i, f
  <1>5. LET x == Enter(i, "on")
        IN  x \in Logic /\ x.state = "on" /\ x.failAge = logic.failAge /\ ~x.button
    BY <1>1, EnterKeeps
  <1>6. QED
    BY <1>1, <1>2, <1>3, <1>4, <1>5 DEF TickMoves

LEMMA TickKeeps ==
    ASSUME SoundLogic(logic), config \in Config, sensed \in BOOLEAN, ~UsesSense => ~sensed, Tick
    PROVE  TickMoves
  <1>1. logic \in Logic
    BY DEF SoundLogic
  <1>2. CASE TickOffPending
    <2>1. /\ logic.state = "off_pending"
          /\ logic' \in {logic, PowerOff(logic), BeginStop(logic)}
      BY <1>2 DEF TickOffPending, TickPending
    <2>2. QED
      BY <1>1, <2>1, PowerOffKeeps, StopKeeps DEF TickMoves
  <1>3. QED
    BY <1>1, <1>2, StartingMoves, StoppingMoves, SteadyMoves DEF Tick

(* The invariant that the action properties need besides IInv: a latch      *)
(* method never reads the sense, and a start that handed PS_ON over has     *)
(* given its pulse.                                                         *)
StartInv ==
    /\ IInv
    /\ ~UsesSense => ~sensed
    /\ logic.state = "starting" /\ logic.handoff => logic.pulsed

(* The ages grow and nothing else changes.                                  *)
LEMMA SampleMoves ==
    ASSUME logic \in Logic, Sample
    PROVE  /\ pc = "ticked"
           /\ logic'.state = logic.state /\ logic'.button = logic.button
           /\ logic'.pulsed = logic.pulsed /\ logic'.handoff = logic.handoff
           /\ logic'.stateAge >= logic.stateAge
  <1>1. PICK dt \in 1 .. MaxStep :
           logic' = [logic EXCEPT !.stateAge = Older(@, dt),
                                  !.phaseAge = Older(@, dt),
                                  !.failAge  = Older(@, dt)]
    BY DEF Sample
  <1>2. \A a \in Age : Older(a, dt) >= a
    BY TimingAssumption DEF Older
  <1>3. QED
    BY <1>1, <1>2 DEF Sample, Logic

LEMMA StepMoves ==
    ASSUME StartInv, Next
    PROVE  \/ Sample
           \/ RequestMoves /\ config' = config /\ sensed' = sensed /\ pc = "sampled"
           \/ TickMoves /\ config' = config /\ sensed' = sensed /\ pc = "sampled"
  <1>1. config \in Config /\ sensed \in BOOLEAN /\ SoundLogic(logic) /\ (~UsesSense => ~sensed)
    BY ConfigsAssumption DEF IInv, StartInv
  <1>2. ASSUME NEW act \in Actions, Request(act)
        PROVE  RequestMoves /\ config' = config /\ sensed' = sensed /\ pc = "sampled"
    BY <1>1, <1>2, RequestKeeps DEF Request
  <1>3. CASE Tick
    BY <1>1, <1>3, TickKeeps DEF Tick
  <1>4. QED
    BY <1>2, <1>3 DEF Next

LEMMA StartInvariance == Spec => []StartInv
  <1>1. Init => StartInv
    <2> SUFFICES ASSUME Init PROVE StartInv
      OBVIOUS
    <2>1. sensed \in (IF UsesSense THEN BOOLEAN ELSE {FALSE})
      BY DEF Init
    <2>2. logic.handoff = FALSE
      BY DEF Init
    <2>3. QED
      BY <2>1, <2>2, InitIInv DEF StartInv
  <1>2. StartInv /\ [Next]_vars => StartInv'
    <2> SUFFICES ASSUME StartInv, [Next]_vars PROVE StartInv'
      OBVIOUS
    <2>1. IInv' /\ logic \in Logic
      BY StepIInv DEF StartInv, IInv, SoundLogic
    <2>2. CASE Sample
      <3>1. config' = config /\ (~UsesSense => ~sensed')
        BY <2>2 DEF Sample
      <3>2. QED
        BY <2>1, <2>2, <3>1, SampleMoves DEF StartInv, UsesSense
    <2>3. CASE RequestMoves /\ config' = config /\ sensed' = sensed
      BY <2>1, <2>3 DEF RequestMoves, StartInv, UsesSense
    <2>4. CASE TickMoves /\ config' = config /\ sensed' = sensed
      BY <2>1, <2>4 DEF TickMoves, StartInv, UsesSense
    <2>5. CASE UNCHANGED vars
      BY <2>1, <2>5 DEF vars, StartInv, UsesSense
    <2>6. QED
      BY <2>2, <2>3, <2>4, <2>5, StepMoves
  <1>3. QED
    BY <1>1, <1>2, PTL DEF Spec

(* A delayed Off is carried out by the first pass at or after its deadline, *)
(* and no request postpones the deadline.                                   *)
THEOREM DeadlineHolds == Spec => DeadlineKept
  <1> DEFINE Overrun == pc = "ticked" /\ logic.state = "off_pending" => ~PendingDue(logic)
             Onward  == logic.state = "off_pending" /\ logic'.state = "off_pending"
                          => logic'.stateAge >= logic.stateAge
  <1>1. StartInv => Overrun
    BY DEF StartInv, IInv, EndOfPass
  <1>2. StartInv /\ [Next]_vars => [Onward]_vars
    <2> SUFFICES ASSUME StartInv, Next, logic.state = "off_pending", logic'.state = "off_pending"
                 PROVE  logic'.stateAge >= logic.stateAge
      OBVIOUS
    <2>1. logic \in Logic /\ logic.stateAge \in Int
      BY TimingAssumption DEF StartInv, IInv, SoundLogic, Logic
    <2>2. QED
      BY <2>1, StepMoves, SampleMoves DEF RequestMoves, TickMoves
  <1>3. QED
    BY <1>1, <1>2, StartInvariance, PTL DEF Spec, DeadlineKept

(* The switch of a board that is sensed on is pressed only to stop it.      *)
THEOREM RunningBoardSafe == Spec => RunningBoardPressedOnlyToStop
  <1> DEFINE ToStop == UsesSense /\ sensed' /\ ~logic.button /\ logic'.button
                         => logic'.state = "stopping"
  <1>1. StartInv /\ [Next]_vars => [ToStop]_vars
    <2> SUFFICES ASSUME StartInv, Next PROVE ToStop
      OBVIOUS
    <2>1. logic \in Logic
      BY DEF StartInv, IInv, SoundLogic
    <2>2. QED
      BY <2>1, StepMoves, SampleMoves DEF RequestMoves, TickMoves
  <1>2. QED
    BY <1>1, StartInvariance, PTL DEF Spec, RunningBoardPressedOnlyToStop

(* Every fault starts the cooldown, nothing else touches it, and no start   *)
(* begins before it is over or under an on sense.                           *)
THEOREM StartsSpaced == Spec => StartsAreSpaced
  <1> DEFINE Spaced ==
        /\ logic.state # "starting" /\ logic'.state = "starting"
              => ~CoolingDown(logic') /\ ~sensed
        /\ IF logic.state # "fault" /\ logic'.state = "fault"
           THEN logic'.failAge = 0
           ELSE logic'.failAge # logic.failAge => pc = "ticked"
  <1>1. StartInv /\ [Next]_vars => [Spaced]_vars
    <2> SUFFICES ASSUME StartInv, Next PROVE Spaced
      OBVIOUS
    <2>1. logic \in Logic
      BY DEF StartInv, IInv, SoundLogic
    <2>2. CASE Sample
      BY <2>1, <2>2, SampleMoves
    <2>3. CASE RequestMoves
      BY <2>3 DEF RequestMoves
    <2>4. CASE TickMoves
      BY <2>4 DEF TickMoves
    <2>5. QED
      BY <2>2, <2>3, <2>4, StepMoves
  <1>2. QED
    BY <1>1, StartInvariance, PTL DEF Spec, StartsAreSpaced

(* A pulse that was given, or cut short by the sense, is not repeated in    *)
(* the same start.                                                          *)
THEOREM OnePulse == Spec => OnePulsePerStart
  <1> DEFINE Once ==
        logic.state = "starting" /\ logic'.state = "starting" /\ (logic.pulsed \/ logic.handoff)
          => logic'.pulsed /\ ~logic'.button
  <1>1. StartInv /\ StartInv' /\ [Next]_vars => [Once]_vars
    <2> SUFFICES ASSUME StartInv, StartInv', Next,
                        logic.state = "starting", logic'.state = "starting", logic.pulsed \/ logic.handoff
                 PROVE  logic'.pulsed /\ ~logic'.button
      OBVIOUS
    <2>1. logic \in Logic /\ logic.pulsed
      BY DEF StartInv, IInv, SoundLogic
    <2>2. logic'.pulsed
      BY <2>1, StepMoves, SampleMoves DEF RequestMoves, TickMoves
    <2>3. QED
      BY <2>2 DEF StartInv, IInv, SoundLogic
  <1>2. QED
    BY <1>1, StartInvariance, PTL DEF Spec, OnePulsePerStart

(* Starts keep their distance from a fault and press the switch once.       *)
THEOREM StartsOrderly == Spec => StartsAreOrderly
  BY StartsSpaced, OnePulse, PTL DEF StartsAreOrderly

===============================================================================
