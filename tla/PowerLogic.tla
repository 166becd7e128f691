------------------------------ MODULE PowerLogic ------------------------------
(****************************************************************************)
(* The BC-250 power state machine (src/src/core/power_logic.c) driven the   *)
(* way power_task of src/src/power_service.c drives it: each pass of the    *)
(* loop samples the filtered power sense and the clock once, serves any     *)
(* number of queued requests with that sample, and ends with one tick.      *)
(*                                                                          *)
(* Timestamps are kept as ages.  The code only ever compares                *)
(* elapsed(now, started) with a threshold, so each "started" field is       *)
(* replaced by the time elapsed since, which grows when the clock advances  *)
(* and saturates at AgeCap, a bound no threshold exceeds.                   *)
(*                                                                          *)
(* A definition named Mut... is a plausible bug: the definition after it,   *)
(* with a guard, a reset or a boundary got wrong.  No specification uses    *)
(* it; it is put in the place of the right one to see a property fail.      *)
(****************************************************************************)
EXTENDS Integers

CONSTANTS
    Configs,            \* the configurations the controller may boot with
    ButtonPulse,        \* timing.button_pulse_ms
    HandoffDelay,       \* timing.handoff_delay_ms
    StartTimeout,       \* timing.start_timeout_ms
    ShutdownTimeout,    \* timing.shutdown_timeout_ms
    ForceOffHold,       \* timing.force_off_ms
    RetryCooldown,      \* timing.retry_cooldown_ms
    MaxStep,            \* bound: the longest pass of power_task, in clock units
    AgeCap              \* bound: where ages saturate

Latched == {"ps_on_latched", "ps_on_latched_then_button"}
Sensed  == {"ps_on_only", "button_only", "ps_on_then_button", "simultaneous"}

Config == [strategy : Latched \cup Sensed, hold : BOOLEAN, delay : Nat, inter : Nat]

(* What bc250_config_validate guarantees of the timing (config_validation.c *)
(* 275-280), and that saturated ages still compare as the real ones do.     *)
ASSUME TimingAssumption ==
    /\ AgeCap \in Nat
    /\ HandoffDelay \in 0 .. AgeCap /\ RetryCooldown \in 0 .. AgeCap
    /\ ButtonPulse \in 1 .. AgeCap /\ ForceOffHold \in 1 .. AgeCap
    /\ StartTimeout \in ButtonPulse + 1 .. AgeCap
    /\ ShutdownTimeout \in ButtonPulse + 1 .. AgeCap
    /\ MaxStep \in Nat \ {0}
ASSUME ConfigsAssumption ==
    /\ Configs \subseteq Config
    /\ \A c \in Configs : c.delay <= AgeCap /\ c.inter <= AgeCap

States  == {"off", "starting", "on", "stopping", "fault", "off_pending"}
Actions == {"on", "off", "toggle", "force_off"}
Age     == 0 .. AgeCap

VARIABLES
    config,     \* strategy, hold_ps_on, power_off_delay_ms and
                \* timing.inter_output_delay_ms, fixed at boot
    logic,      \* bc250_power_logic_t
    sensed,     \* s_sensed_on, the filtered power sense
    pc          \* power_task: "sampled" until it ticks, then "ticked"

vars == <<config, logic, sensed, pc>>

Logic == [state : States, psOn : BOOLEAN, button : BOOLEAN, pulsed : BOOLEAN,
          handoff : BOOLEAN, stateAge : Age, phaseAge : Age, failAge : Age]

TypeOK ==
    /\ config \in Configs
    /\ logic \in Logic
    /\ sensed \in BOOLEAN
    /\ pc \in {"sampled", "ticked"}

UsesSense == config.strategy \in Sensed
PressesAtOnce == config.strategy \in {"button_only", "simultaneous"}
HasStartPulse == config.strategy \notin {"ps_on_only", "ps_on_latched"}

-------------------------------------------------------------------------------
(* Helpers on the logic structure.                                          *)

(* Both outputs released, except the PS_ON contact held for a sensed board. *)
Idle(l, s) == [l EXCEPT !.psOn = config.hold /\ s, !.button = FALSE]

Enter(l, st) == [l EXCEPT !.state = st, !.stateAge = 0, !.phaseAge = 0]

MutPowerOffKeepsOutputs(l) == Enter(l, "off")
PowerOff(l) == Enter(Idle(l, FALSE), "off")

MutFailIsUnknown(l, s) == Enter([Idle(l, s) EXCEPT !.failAge = 0], "unknown")

(* A failed sequence starts the retry cooldown.                             *)
Fail(l, s) == Enter([Idle(l, s) EXCEPT !.failAge = 0], "fault")

CoolingDown(l) == l.failAge < RetryCooldown

BeginStart(l) ==
    [Enter(l, "starting") EXCEPT
        !.psOn    = config.strategy # "button_only",
        !.button  = HasStartPulse /\ (PressesAtOnce \/ config.inter = 0),
        !.pulsed  = ~HasStartPulse,
        !.handoff = FALSE]

BeginStop(l) ==
    [Enter(Idle(l, TRUE), "stopping") EXCEPT !.button = TRUE, !.pulsed = FALSE]

(* The forced hold is marked by button_pulse_completed already being set.   *)
ForceStop(l) ==
    [Enter(Idle(l, TRUE), "stopping") EXCEPT !.button = TRUE, !.pulsed = TRUE]

BeginPending(l) ==
    Enter([Idle(l, TRUE) EXCEPT !.psOn = config.hold \/ ~UsesSense], "off_pending")

RequestStop(l) ==
    IF config.delay > 0 THEN BeginPending(l)
    ELSE IF UsesSense THEN BeginStop(l) ELSE PowerOff(l)

(* The off_pending arm of the tick; a request applies it first as well.     *)
PendingDue(l) == l.stateAge >= config.delay
MutTickPendingLate(l, s) ==
    IF UsesSense /\ ~s THEN PowerOff(l)
    ELSE IF l.stateAge <= config.delay THEN l
    ELSE IF UsesSense THEN BeginStop(l) ELSE PowerOff(l)
TickPending(l, s) ==
    IF UsesSense /\ ~s THEN PowerOff(l)
    ELSE IF ~PendingDue(l) THEN l
    ELSE IF UsesSense THEN BeginStop(l) ELSE PowerOff(l)

(* After TickPending a sensed method can only still be pending while the    *)
(* sense is on, so cancelling always leads to "on".                         *)
CancelPending(l) ==
    Enter([Idle(l, TRUE) EXCEPT !.psOn = config.hold \/ ~UsesSense], "on")

-------------------------------------------------------------------------------
(* bc250_power_request.  Refused and redundant requests leave the logic as  *)
(* it is; p is the logic after the deadline of a pending Off was honoured.  *)

MutOnIgnoresSense(p) ==
    logic' = IF p.state \in {"starting", "stopping"} \/ CoolingDown(p) THEN p ELSE BeginStart(p)
MutOnIgnoresStop(p) ==
    logic' = IF sensed \/ p.state = "starting" \/ CoolingDown(p) THEN p ELSE BeginStart(p)
MutOnIgnoresCooldown(p) ==
    logic' = IF sensed \/ p.state \in {"starting", "stopping"} THEN p ELSE BeginStart(p)

SensedOn(p) ==
    \/ /\ sensed \/ p.state \in {"starting", "stopping"} \/ CoolingDown(p)
       /\ logic' = p
    \/ /\ ~sensed /\ p.state \notin {"starting", "stopping"} /\ ~CoolingDown(p)
       /\ logic' = BeginStart(p)

(* Off and ForceOff give up a start instead of stopping the board when      *)
(* there is nothing to stop, or no hold that must be kept.                  *)
OffCancelsStart(p) ==
    p.state = "starting" /\ (~sensed \/ (~config.hold /\ config.delay = 0))
MutForceCancelsAnyStart(p) == p.state = "starting"
ForceCancelsStart(p) ==
    p.state = "starting" /\ ~(config.hold /\ sensed)

SensedOff(p) ==
    \/ OffCancelsStart(p) /\ logic' = PowerOff(p)
    \/ /\ ~OffCancelsStart(p)
       /\ ~sensed \/ p.state = "stopping"
       /\ logic' = p
    \/ /\ ~OffCancelsStart(p)
       /\ sensed /\ p.state # "stopping"
       /\ logic' = RequestStop(p)

SensedForceOff(p) ==
    \/ ForceCancelsStart(p) /\ logic' = PowerOff(p)
    \/ ~ForceCancelsStart(p) /\ ~sensed /\ logic' = p
    \/ ~ForceCancelsStart(p) /\ sensed /\ logic' = ForceStop(p)

LatchedOn(p) ==
    \/ p.state \in {"on", "starting"} /\ logic' = p
    \/ /\ p.state \notin {"on", "starting"}
       /\ config.strategy = "ps_on_latched_then_button"
       /\ logic' = IF CoolingDown(p) THEN p ELSE BeginStart(p)
    \/ /\ p.state \notin {"on", "starting"}
       /\ config.strategy = "ps_on_latched"
       /\ logic' = Enter([p EXCEPT !.psOn = TRUE, !.button = FALSE], "on")

(* Releasing a latch that is off already keeps the age of the state.        *)
MutOpenLatchKeepsPsOn(p) ==
    logic' = IF p.state = "off" THEN p ELSE Enter([p EXCEPT !.button = FALSE], "off")
OpenLatch(p) ==
    LET q == [p EXCEPT !.psOn = FALSE, !.button = FALSE]
    IN  logic' = IF p.state = "off" THEN q ELSE Enter(q, "off")

LatchedOff(p) ==
    \/ p.state = "on" /\ logic' = RequestStop(p)
    \/ p.state # "on" /\ OpenLatch(p)

(* Toggle means On while an Off is pending, and otherwise the opposite of   *)
(* the power reported now.                                                  *)
Powered(p) == IF UsesSense THEN sensed ELSE p.psOn
Meaning(p, act) ==
    IF act # "toggle" THEN act
    ELSE IF p.state # "off_pending" /\ Powered(p) THEN "off" ELSE "on"

Serve(p, act) ==
    \/ UsesSense  /\ act = "on"        /\ SensedOn(p)
    \/ UsesSense  /\ act = "off"       /\ SensedOff(p)
    \/ UsesSense  /\ act = "force_off" /\ SensedForceOff(p)
    \/ ~UsesSense /\ act = "on"        /\ LatchedOn(p)
    \/ ~UsesSense /\ act = "off"       /\ LatchedOff(p)
    \/ ~UsesSense /\ act = "force_off" /\ OpenLatch(p)

Honoured == IF logic.state = "off_pending" THEN TickPending(logic, sensed) ELSE logic

Request(act) ==
    /\ pc = "sampled"
    /\ LET p == Honoured
           a == Meaning(p, act)
       IN  \/ p.state = "off_pending" /\ a = "off" /\ logic' = p
           \/ p.state = "off_pending" /\ a = "on" /\ logic' = CancelPending(p)
           \/ (p.state # "off_pending" \/ a = "force_off") /\ Serve(p, a)
    /\ UNCHANGED <<config, sensed, pc>>

-------------------------------------------------------------------------------
(* bc250_power_tick, one action per arm of its switch.                      *)

(* The start pulse: pressed when due, released after ButtonPulse.           *)
DriveStartPulse(l) ==
    LET due     == PressesAtOnce \/ l.stateAge >= config.inter
        pressed == IF due /\ ~l.button
                   THEN [l EXCEPT !.button = TRUE, !.phaseAge = 0] ELSE l
    IN  IF l.pulsed THEN l
        ELSE IF pressed.button /\ pressed.phaseAge >= ButtonPulse
        THEN [pressed EXCEPT !.button = FALSE, !.pulsed = TRUE]
        ELSE pressed

TickLatchedStart ==
    LET l == DriveStartPulse(logic)
    IN  /\ ~UsesSense /\ logic.state = "starting"
        /\ logic' = IF l.pulsed THEN Enter(l, "on") ELSE l

TickLatchedSteady ==
    ~UsesSense /\ logic.state \notin {"starting", "off_pending"} /\ UNCHANGED logic

(* Sense came on during a start: no pulse any more, and PS_ON is handed     *)
(* over once HandoffDelay has passed since sense was first seen.            *)
MutDetectedAnew(l) ==
    [l EXCEPT !.psOn = @ \/ config.hold, !.button = FALSE, !.pulsed = TRUE, !.phaseAge = 0]
MutDetectedMayPress(l) ==
    [l EXCEPT !.psOn = @ \/ config.hold, !.button = FALSE, !.handoff = TRUE,
              !.phaseAge = IF l.handoff THEN @ ELSE 0]
Detected(l) ==
    [l EXCEPT !.psOn = @ \/ config.hold, !.button = FALSE, !.pulsed = TRUE, !.handoff = TRUE,
              !.phaseAge = IF l.handoff THEN @ ELSE 0]
TickHandoff ==
    LET l == Detected(logic)
    IN  /\ UsesSense /\ sensed /\ logic.state = "starting"
        /\ \/ l.phaseAge < HandoffDelay  /\ logic' = l
           \/ l.phaseAge >= HandoffDelay /\ logic' = Enter(Idle(l, TRUE), "on")

TickStarting ==
    LET l == DriveStartPulse(logic)
    IN  /\ UsesSense /\ ~sensed /\ logic.state = "starting"
        /\ \/ logic.stateAge < StartTimeout  /\ logic' = l
           \/ logic.stateAge >= StartTimeout /\ logic' = Fail(l, FALSE)

MutReleaseLate(l) ==
    IF l.button /\ l.phaseAge > (IF l.pulsed THEN ForceOffHold ELSE ButtonPulse)
    THEN [l EXCEPT !.button = FALSE, !.pulsed = TRUE] ELSE l
ReleaseStopPulse(l) ==
    IF l.button /\ l.phaseAge >= (IF l.pulsed THEN ForceOffHold ELSE ButtonPulse)
    THEN [l EXCEPT !.button = FALSE, !.pulsed = TRUE] ELSE l

TickStopping ==
    LET l == ReleaseStopPulse(logic)
    IN  /\ UsesSense /\ logic.state = "stopping"
        /\ \/ ~sensed /\ logic' = PowerOff(l)
           \/ sensed /\ l.stateAge < ShutdownTimeout  /\ logic' = l
           \/ sensed /\ l.stateAge >= ShutdownTimeout /\ logic' = Fail(l, TRUE)

TickOn ==
    /\ UsesSense /\ logic.state = "on"
    /\ logic' = IF sensed THEN Idle(logic, TRUE) ELSE PowerOff(logic)

MutTickOffKeepsOutputs ==
    /\ UsesSense /\ logic.state = "off"
    /\ logic' = IF sensed THEN Enter(logic, "on") ELSE logic
TickOff ==
    /\ UsesSense /\ logic.state = "off"
    /\ logic' = IF sensed THEN Enter(Idle(logic, TRUE), "on") ELSE logic

TickFault ==
    /\ UsesSense /\ logic.state = "fault"
    /\ \/ sensed /\ logic' = Enter(Idle(logic, TRUE), "on")
       \/ ~sensed /\ ~CoolingDown(logic) /\ logic' = PowerOff(logic)
       \/ ~sensed /\ CoolingDown(logic)  /\ logic' = Idle(logic, FALSE)

TickOffPending ==
    logic.state = "off_pending" /\ logic' = TickPending(logic, sensed)

Tick ==
    /\ pc = "sampled"
    /\ \/ TickLatchedStart \/ TickLatchedSteady \/ TickHandoff \/ TickStarting
       \/ TickStopping \/ TickOn \/ TickOff \/ TickFault \/ TickOffPending
    /\ pc' = "ticked"
    /\ UNCHANGED <<config, sensed>>

-------------------------------------------------------------------------------
(* The next pass of power_task: the clock has advanced, and the sense is    *)
(* filtered anew.  The latch methods never read it.                         *)
Older(a, dt) == IF a + dt < AgeCap THEN a + dt ELSE AgeCap
Sample ==
    /\ pc = "ticked"
    /\ \E dt \in 1 .. MaxStep :
          logic' = [logic EXCEPT !.stateAge = Older(@, dt),
                                 !.phaseAge = Older(@, dt),
                                 !.failAge  = Older(@, dt)]
    /\ sensed' \in (IF UsesSense THEN BOOLEAN ELSE {FALSE})
    /\ pc' = "sampled"
    /\ UNCHANGED config

(* bc250_power_logic_init with the first reading of the sense, and the      *)
(* first pass of the loop.  No failure yet: no cooldown.                    *)
Init ==
    /\ config \in Configs
    /\ sensed \in (IF UsesSense THEN BOOLEAN ELSE {FALSE})
    /\ logic = [state |-> IF sensed THEN "on" ELSE "off",
                psOn |-> config.hold /\ sensed, button |-> FALSE,
                pulsed |-> FALSE, handoff |-> FALSE,
                stateAge |-> 0, phaseAge |-> 0, failAge |-> AgeCap]
    /\ pc = "sampled"

Next == Sample \/ (\E act \in Actions : Request(act)) \/ Tick

Spec == Init /\ [][Next]_vars

(* power_task never blocks but for its 20 ms delay, and no pass serves      *)
(* requests for ever, so it keeps sampling and ticking; requests are free   *)
(* to come or not.                                                          *)
LiveSpec == Spec /\ WF_vars(Sample) /\ WF_vars(Tick)

-------------------------------------------------------------------------------
(* Properties                                                               *)

(* At the end of a pass the PS_ON contact covers a board that is sensed on  *)
(* when hold_ps_on is set, whatever the state and however it was reached.   *)
HoldCoversSensedPower ==
    pc = "ticked" /\ UsesSense /\ config.hold /\ sensed => logic.psOn

(* With hold_ps_on, no request, deadline or timeout opens the contact while *)
(* the sense stays on: opening it would cut the board's supply.             *)
HoldNeverDrops ==
    [][UsesSense /\ config.hold /\ sensed /\ sensed' /\ logic.psOn
          => logic'.psOn]_vars

(* With the sense off, an output is asserted only by a running start: a     *)
(* stop, a fault or a cancelled start never leaves one behind.              *)
NothingDrivenWithoutCause ==
    pc = "ticked" /\ UsesSense /\ ~sensed /\ (logic.psOn \/ logic.button)
        => logic.state = "starting"

(* No pass ends with the motherboard switch pressed beyond its pulse or     *)
(* its forced hold, so it is released at the first pass that is due.        *)
ButtonWithinHold ==
    pc = "ticked" /\ logic.button =>
        \/ logic.state = "starting" /\ ~logic.pulsed /\ logic.phaseAge < ButtonPulse
        \/ /\ logic.state = "stopping"
           /\ logic.phaseAge < (IF logic.pulsed THEN ForceOffHold ELSE ButtonPulse)

(* Pressing the switch of a running board shuts it down, so the switch is   *)
(* pressed under an on sense only to stop the board.                        *)
RunningBoardPressedOnlyToStop ==
    [][UsesSense /\ sensed' /\ ~logic.button /\ logic'.button
          => logic'.state = "stopping"]_vars

(* The latch follows the command: PS_ON is closed exactly while the state   *)
(* says the supply is commanded on, and no sense-based state is reachable.  *)
LatchMirrorsState ==
    ~UsesSense =>
        /\ logic.psOn <=> logic.state \in {"starting", "on", "off_pending"}
        /\ logic.state \notin {"stopping", "fault"}
        /\ logic.button => logic.state = "starting"

(* What is driven at the end of a pass is what state, sense and method call *)
(* for: a held board stays held, a stopped one gets nothing, the switch is  *)
(* released in time, and a latch shows its state.                           *)
OutputsMatchState ==
    HoldCoversSensedPower /\ NothingDrivenWithoutCause /\ ButtonWithinHold /\ LatchMirrorsState

(* The deadline of a delayed Off is kept: no pass ends beyond it, and no    *)
(* later request moves it while it is pending.                              *)
DeadlineKept ==
    /\ [](pc = "ticked" /\ logic.state = "off_pending" => ~PendingDue(logic))
    /\ [][logic.state = "off_pending" /\ logic'.state = "off_pending"
              => logic'.stateAge >= logic.stateAge]_vars

(* A shutdown that began ends only with the board off or in a fault after   *)
(* the shutdown timeout: no request turns it back into a start.             *)
StopRunsToItsEnd ==
    [][logic.state = "stopping" =>
          \/ logic'.state = "stopping"
          \/ logic'.state = "off" /\ ~sensed
          \/ logic'.state = "fault" /\ sensed /\ logic.stateAge >= ShutdownTimeout]_vars

(* A board that runs under the hold loses PS_ON only by a shutdown, and a   *)
(* shutdown runs to its end.                                                *)
ShutdownIsOrderly == HoldNeverDrops /\ StopRunsToItsEnd

(* After a fault no start begins before RetryCooldown has passed, through   *)
(* whatever states the board goes meanwhile: every fault starts the         *)
(* cooldown, nothing else shortens or prolongs it, and a start waits for    *)
(* its end and for the sense to be off.                                     *)
StartsAreSpaced ==
    [][/\ logic.state # "starting" /\ logic'.state = "starting"
             => ~CoolingDown(logic') /\ ~sensed
       /\ IF logic.state # "fault" /\ logic'.state = "fault"
          THEN logic'.failAge = 0
          ELSE logic'.failAge # logic.failAge => pc = "ticked"]_vars

(* One start presses the switch at most once: when the pulse is over, or    *)
(* was cut short by the sense coming on, it is not repeated in that start.  *)
OnePulsePerStart ==
    [][logic.state = "starting" /\ logic'.state = "starting" /\ (logic.pulsed \/ logic.handoff)
          => logic'.pulsed /\ ~logic'.button]_vars

(* Starts keep their distance from a fault and press the switch once.       *)
StartsAreOrderly == StartsAreSpaced /\ OnePulsePerStart

(* No state that waits for a timer waits for ever: a start, a pending Off   *)
(* and a fault end, and a stop ends unless force_off is requested again and *)
(* again, each of which restarts it.                                        *)
TimedStatesEnd ==
    /\ \A st \in {"starting", "off_pending", "fault"} :
          logic.state = st ~> logic.state # st
    /\ <>[](logic.state = "stopping") => []<><<Request("force_off")>>_vars

(* What the documentation says of Off and Force off for a board that is     *)
(* sensed on (docs/CONFIGURATION.md 12 and 49): only a start whose power is *)
(* not detected yet is cancelled, otherwise the board is shut down.         *)
OffShutsDownSensedBoard ==
    [][\A act \in {"off", "force_off"} :
          Request(act) /\ UsesSense /\ sensed
              => logic'.state \in {"off_pending", "stopping"}]_vars

===============================================================================
