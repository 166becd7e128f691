------------------------------ MODULE BlePresence ------------------------------
(****************************************************************************)
(* BLE presence (src/src/ble_presence.c, src/src/core/presence_logic.c): a  *)
(* controller that is heard arrives, one not heard for ble_absent_ms is     *)
(* absent again.  The NimBLE host task hears advertisements, presence_task  *)
(* looks for absence every 500 ms and switches between presence scan and    *)
(* discovery; no lock is taken.  NimBLE (external) is modelled from its use.*)
(*                                                                          *)
(* Matching of advertisements and the list of discovered devices are data.  *)
(* As in PowerLogic, a definition named Mut... is a plausible bug.          *)
(****************************************************************************)
EXTENDS Integers

CONSTANTS
    Devices,        \* the enabled matchers
    Absent,         \* ble_absent_ms
    MaxDelay,       \* bound: how far the clock advances in one step
    Cores           \* 1 or 2; xTaskCreate pins presence_task to no core

ASSUME PresenceAssumption ==
    Absent \in Nat \ {0} /\ MaxDelay \in Nat \ {0} /\ Cores \in {1, 2}

VARIABLES
    present,        \* s_presence[i].present
    age,            \* time since s_presence[i].last_seen_ms, up to Absent
    host,           \* where the host task is in bc250_presence_logic_seen
    pass,           \* where presence_task is in its loop
    todo,           \* the devices of this pass it has not looked at
    passAge,        \* age at the clock reading of the pass; -1 if heard since
    synced,         \* NimBLE host and controller are in sync
    scan,           \* what NimBLE scans for
    learning,       \* s_learning_until_ms lies ahead
    wasLearning,    \* was_learning
    silence,        \* history: time since it was heard; Absent, if it ever got that
                    \* far, until it arrives
    repeated        \* history: arrived again without having been silent that long

presenceVars == <<present, age, host, pass, todo, passAge, synced, scan, learning,
                  wasLearning, silence, repeated>>
memory == <<present, age, silence, repeated>>
looking == <<pass, todo, passAge>>
radio == <<synced, scan, learning, wasLearning>>

Nobody == "nobody"
PresenceOK ==
    /\ present \in [Devices -> BOOLEAN]
    /\ age \in [Devices -> 0 .. Absent] /\ silence \in [Devices -> 0 .. Absent]
    /\ passAge \in [Devices -> -1 .. Absent]
    /\ host \in [at : {"idle", "set", "stamp", "post"}, device : Devices \cup {Nobody},
                 arrived : BOOLEAN]
    /\ pass \in [at : {"rest", "look", "drop"}, device : Devices \cup {Nobody}]
    /\ todo \subseteq Devices /\ repeated \subseteq Devices
    /\ synced \in BOOLEAN /\ learning \in BOOLEAN /\ wasLearning \in BOOLEAN
    /\ scan \in {"off", "presence", "discovery"}

-------------------------------------------------------------------------------
(* On one core the host task, of the highest priority, is not interrupted   *)
(* by presence_task; it may interrupt presence_task anywhere.               *)
Undivided == Cores = 1 => host.at = "idle"
Resting == [at |-> "idle", device |-> Nobody, arrived |-> FALSE]

(* bc250_presence_logic_seen                                                *)
Hear(d) ==
    /\ scan # "off" /\ host.at = "idle"
    /\ host' = [at |-> "set", device |-> d, arrived |-> ~present[d]]
    /\ silence' = IF silence[d] = Absent THEN silence ELSE [silence EXCEPT ![d] = 0]
    /\ UNCHANGED <<present, age, repeated, looking, radio>>
SetPresent ==
    /\ host.at = "set"
    /\ present' = [present EXCEPT ![host.device] = TRUE]
    /\ host' = [host EXCEPT !.at = "stamp"]
    /\ UNCHANGED <<age, silence, repeated, looking, radio>>
MutStamp ==
    /\ host.at = "stamp"
    /\ age' = IF host.arrived THEN [age EXCEPT ![host.device] = 0] ELSE age
    /\ passAge' = IF host.arrived THEN [passAge EXCEPT ![host.device] = -1] ELSE passAge
    /\ host' = IF host.arrived THEN [host EXCEPT !.at = "post"] ELSE Resting
    /\ UNCHANGED <<present, silence, repeated, pass, todo, radio>>
Stamp ==
    /\ host.at = "stamp"
    /\ age' = [age EXCEPT ![host.device] = 0]
    /\ passAge' = [passAge EXCEPT ![host.device] = -1]
    /\ host' = IF host.arrived THEN [host EXCEPT !.at = "post"] ELSE Resting
    /\ UNCHANGED <<present, silence, repeated, pass, todo, radio>>

(* process_advertisement posts the arrival; the queue is the composition's. *)
Arrive ==
    /\ host.at = "post"
    /\ repeated' = IF silence[host.device] < Absent THEN repeated \cup {host.device}
                   ELSE repeated
    /\ silence' = [silence EXCEPT ![host.device] = 0]
    /\ host' = Resting
    /\ UNCHANGED <<present, age, looking, radio>>

HostTask == (\E d \in Devices : Hear(d)) \/ SetPresent \/ Stamp \/ Arrive

-------------------------------------------------------------------------------
(* start_scan, which may fail.                                              *)
Scanning(what) == scan' \in {what, "off"}

(* on_sync scans for presence, whatever was going on.                       *)
Sync ==
    /\ ~synced /\ Undivided
    /\ synced' = TRUE /\ Scanning("presence")
    /\ UNCHANGED <<memory, host, looking, learning, wasLearning>>
HostReset ==
    /\ synced /\ host.at = "idle"
    /\ synced' = FALSE /\ scan' = "off"
    /\ UNCHANGED <<memory, host, looking, learning, wasLearning>>

(* bc250_ble_start_learning, and the end of its duration.                   *)
StartLearning ==
    /\ Undivided /\ learning' = TRUE
    /\ UNCHANGED <<memory, host, looking, synced, scan, wasLearning>>
LearningEnds ==
    /\ learning /\ learning' = FALSE
    /\ UNCHANGED <<memory, host, looking, synced, scan, wasLearning>>

(* A pass of presence_task reads the clock once, switches the scan when     *)
(* that is due, and looks at one device after the other.                    *)
BeginPass ==
    /\ pass.at = "rest" /\ Undivided
    /\ pass' = [pass EXCEPT !.at = "look"]
    /\ todo' = Devices
    /\ passAge' = age
    /\ IF learning # wasLearning /\ synced
       THEN wasLearning' = learning /\ Scanning(IF learning THEN "discovery" ELSE "presence")
       ELSE UNCHANGED <<wasLearning, scan>>
    /\ UNCHANGED <<memory, host, synced, learning>>

(* bc250_presence_logic_expire: a device heard after the clock was read is  *)
(* not absent.                                                              *)
Gone(d) == present[d] /\ passAge[d] >= Absent
Look(d) ==
    /\ pass.at = "look" /\ d \in todo /\ Undivided
    /\ todo' = todo \ {d}
    /\ pass' = IF Gone(d) THEN [at |-> "drop", device |-> d] ELSE pass
    /\ UNCHANGED <<memory, host, passAge, radio>>
Drop ==
    /\ pass.at = "drop" /\ Undivided
    /\ present' = [present EXCEPT ![pass.device] = FALSE]
    /\ pass' = [at |-> "look", device |-> Nobody]
    /\ UNCHANGED <<age, silence, repeated, host, todo, passAge, radio>>
EndPass ==
    /\ pass.at = "look" /\ todo = {} /\ Undivided
    /\ pass' = [pass EXCEPT !.at = "rest"]
    /\ UNCHANGED <<memory, host, todo, passAge, radio>>

PresenceTask == BeginPass \/ (\E d \in Devices : Look(d)) \/ Drop \/ EndPass

(* The clock stands still for the few instructions of the host task.        *)
Later(a, dt) == IF a + dt < Absent THEN a + dt ELSE Absent
Advance(dt) ==
    /\ host.at = "idle"
    /\ age' = [d \in Devices |-> Later(age[d], dt)]
    /\ silence' = [d \in Devices |-> Later(silence[d], dt)]
    /\ UNCHANGED <<present, repeated, host, looking, radio>>

-------------------------------------------------------------------------------
PresenceInit ==
    /\ present = [d \in Devices |-> FALSE] /\ age = [d \in Devices |-> 0]
    /\ host = Resting
    /\ pass = [at |-> "rest", device |-> Nobody] /\ todo = {}
    /\ passAge = [d \in Devices |-> -1]
    /\ synced = FALSE /\ scan = "off" /\ learning = FALSE /\ wasLearning = FALSE
    /\ silence = [d \in Devices |-> Absent] /\ repeated = {}

(* What goes on around the two tasks.                                       *)
BleEnvironment ==
    \/ Sync \/ HostReset \/ StartLearning \/ LearningEnds
    \/ \E dt \in 1 .. MaxDelay : Advance(dt)

PresenceSpec == PresenceInit /\ [][HostTask \/ PresenceTask \/ BleEnvironment]_presenceVars

-------------------------------------------------------------------------------
(* Properties                                                               *)

(* "Continuous advertisements must not repeat arrival logs or retrigger     *)
(* power" (docs/TESTING.md 43): a controller that is heard all the time     *)
(* arrives once, though absence is judged by a clock reading of some time   *)
(* ago; and one that was away for a whole pass is missed.  On two cores     *)
(* presence_task may see the controller present with the time it was last   *)
(* heard before, and neither is true.                                       *)
ArrivalsTellAbsence ==
    Cores = 1 =>
        /\ repeated = {}
        /\ pass.at = "rest" /\ host.at = "idle" =>
              \A d \in Devices : passAge[d] >= Absent => ~present[d]

===============================================================================
