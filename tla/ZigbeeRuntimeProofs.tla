-------------------------- MODULE ZigbeeRuntimeProofs -------------------------
(* Proofs about the Zigbee runtime, for any number of callers.              *)
EXTENDS ZigbeeRuntime, TLAPS

(* The event bits tell where the worker is.                                 *)
BitsMatch ==
    /\ "idle" \in bits <=> created /\ worker \in {"wait", "claim"}
    /\ "ready" \in bits <=> worker = "mainloop"
    /\ ~created => worker = "wait" /\ bits = {} /\ \A c \in Callers : at[c] = "out"

(* The mutex is held by the caller inside set_paused, while it is pausing.  *)
LockMatches ==
    /\ \A c \in Callers : lock = c <=> at[c] \in Inside
    /\ lock # Nobody => paused

(* A stop is told to a mainloop only, and outlives the pause it was queued  *)
(* for only together with a token to run again.                             *)
StopsMatch ==
    /\ worker \in {"wait", "claim", "setup"} => stops = 0 /\ ~stopping
    /\ worker = "teardown" => stopping
    /\ ~paused /\ (stops > 0 \/ stopping) => "run" \in bits

(* What holds whichever calls fail or time out.                             *)
Base == TypeOK /\ BitsMatch /\ LockMatches /\ StopsMatch /\ NeverForgotten

(* The one combination of faults under which a pause may be reported done   *)
(* too early is a stop that fails after an earlier pause has timed out with *)
(* its callback still queued.                                               *)
NoLateResult == Faults \notin FaultSets

(* A failed stop is announced to the pause that asked for it: without       *)
(* timeouts no callback is left over from an earlier one.                   *)
FailureMatches ==
    /\ ~StopFails => "stop_failed" \notin bits
    /\ \A c \in Callers : at[c] = "result" => "stop_failed" \in bits
    /\ ~Timeouts =>
        /\ lock = Nobody => stops = 0
        /\ \A c \in Callers :
            /\ at[c] \in {"wait_ready", "post"} => stops = 0 /\ "stop_failed" \notin bits
            /\ at[c] \in {"wait_idle", "result"} =>
                  /\ stops \in {0, 1}
                  /\ "stop_failed" \in bits => stops = 0 /\ ~stopResult

IInv == Base /\ FailureMatches /\ PausedMeansIdle

-------------------------------------------------------------------------------
USE DEF Outside, Inside, Running, StopFails, Timeouts

LEMMA InitBase == Init => Base
  <1> SUFFICES ASSUME Init PROVE Base
    OBVIOUS
  <1>1. stops \in 0 .. StopCap
    BY RuntimeAssumption DEF Init
  <1>2. at \in [Callers -> Outside \cup Inside] /\ bits \in SUBSET {"run", "idle", "ready", "stop_failed"}
    BY DEF Init
  <1>3. TypeOK
    BY <1>1, <1>2 DEF Init, TypeOK
  <1>4. BitsMatch /\ LockMatches /\ StopsMatch /\ NeverForgotten
    BY RuntimeAssumption DEF Init, BitsMatch, LockMatches, StopsMatch, NeverForgotten
  <1>5. QED
    BY <1>3, <1>4 DEF Base

(* A pause ends, well or not: the mutex is free and the caller outside.     *)
LEMMA LeaveBase ==
    ASSUME Base, NEW c \in Callers, at[c] \in Inside, PauseDone(c) \/ PauseFailed(c)
    PROVE  Base'
  <1>1. lock = c /\ \A d \in Callers : d # c => at[d] \notin Inside
    BY DEF Base, LockMatches
  <1>2. at \in [Callers -> Outside \cup Inside]
    BY DEF Base, TypeOK
  <1>3. LockMatches'
    BY <1>1, <1>2, RuntimeAssumption DEF LockMatches, PauseDone, PauseFailed
  <1>4. CASE PauseDone(c)
    BY <1>3, <1>4 DEF Base, TypeOK, BitsMatch, StopsMatch, NeverForgotten, PauseDone
  <1>5. CASE PauseFailed(c)
    BY <1>3, <1>5 DEF Base, TypeOK, BitsMatch, StopsMatch, NeverForgotten, PauseFailed
  <1>6. QED
    BY <1>4, <1>5

(* A pause goes on to its next wait, having queued a stop or not.           *)
LEMMA GotoBase ==
    ASSUME Base, NEW c \in Callers, at[c] \in Inside, NEW where \in Inside, Goto(c, where),
           \/ UNCHANGED stops
           \/ worker = "mainloop" /\ stops < StopCap /\ stops' = stops + 1
    PROVE  Base'
  <1>1. lock = c /\ paused /\ created
    BY RuntimeAssumption DEF Base, BitsMatch, LockMatches
  <1>2. at' \in [Callers -> Outside \cup Inside] /\ at'[c] = where
        /\ \A d \in Callers : d # c => at'[d] = at[d]
    BY DEF Goto, Base, TypeOK
  <1>3. stops' \in 0 .. StopCap
    BY RuntimeAssumption DEF Base, TypeOK
  <1>4. TypeOK'
    BY <1>2, <1>3 DEF Goto, Base, TypeOK
  <1>5. BitsMatch' /\ LockMatches'
    BY <1>1, <1>2 DEF Goto, Base, BitsMatch, LockMatches
  <1>6. StopsMatch' /\ NeverForgotten'
    BY <1>1 DEF Goto, Base, StopsMatch, NeverForgotten
  <1>7. QED
    BY <1>4, <1>5, <1>6 DEF Base

LEMMA CallerBase ==
    ASSUME Base, NEW c \in Callers, Proceed(c)
    PROVE  Base'
  <1>1. CASE GiveUpLock(c)
    BY <1>1 DEF GiveUpLock, Base, TypeOK, BitsMatch, LockMatches, StopsMatch, NeverForgotten
  <1>2. CASE Resume(c)
    BY <1>2, RuntimeAssumption
       DEF Resume, Base, TypeOK, BitsMatch, LockMatches, StopsMatch, NeverForgotten
  <1>3. CASE BeginPause(c)
    BY <1>3, RuntimeAssumption
       DEF BeginPause, Base, TypeOK, BitsMatch, LockMatches, StopsMatch, NeverForgotten
  <1>4. CASE WaitReady(c) \/ WaitIdle(c) \/ ReadResult(c)
    <2>1. at[c] \in Inside
      BY <1>4 DEF WaitReady, WaitIdle, ReadResult
    <2>2. CASE PauseDone(c) \/ PauseFailed(c)
      BY <2>1, <2>2, LeaveBase
    <2>3. CASE ~(PauseDone(c) \/ PauseFailed(c))
      <3>1. UNCHANGED stops /\ (Goto(c, "post") \/ Goto(c, "result"))
        BY <1>4, <2>3 DEF WaitReady, WaitIdle, ReadResult
      <3>2. QED
        BY <2>1, <3>1, GotoBase
    <2>4. QED
      BY <2>2, <2>3
  <1>5. CASE PostStop(c)
    <2>1. at[c] \in Inside
      BY <1>5 DEF PostStop
    <2>2. CASE PauseFailed(c)
      BY <2>1, <2>2, LeaveBase
    <2>3. CASE ~PauseFailed(c)
      <3>1. Goto(c, "wait_idle")
        BY <1>5, <2>3 DEF PostStop
      <3>2. \/ UNCHANGED stops
            \/ worker = "mainloop" /\ stops < StopCap /\ stops' = stops + 1
        BY <1>5, <2>3 DEF PostStop
      <3>3. QED
        BY <2>1, <3>1, <3>2, GotoBase
    <2>4. QED
      BY <2>2, <2>3
  <1>6. QED
    BY <1>1, <1>2, <1>3, <1>4, <1>5 DEF Proceed

LEMMA CallBase ==
    ASSUME Base, NEW c \in Callers, NEW p \in BOOLEAN, CallEarly(c, p) \/ Call(c, p)
    PROVE  Base'
  <1>1. CASE CallEarly(c, p)
    BY <1>1 DEF CallEarly, Base, TypeOK, BitsMatch, LockMatches, StopsMatch, NeverForgotten
  <1>2. CASE Call(c, p)
    BY <1>2 DEF Call, Base, TypeOK, BitsMatch, LockMatches, StopsMatch, NeverForgotten
  <1>3. QED
    BY <1>1, <1>2

LEMMA WorkerBase ==
    ASSUME Base, Worker
    PROVE  Base'
  <1>1. stops' \in 0 .. StopCap
    BY RuntimeAssumption DEF Base, TypeOK, Worker, TakeRun, Claim, SetUp, RunStop,
                             LeaveMainloop, TearDown
  <1>2. bits' \in SUBSET {"run", "idle", "ready", "stop_failed"}
    BY DEF Base, TypeOK, Worker, TakeRun, Claim, SetUp, RunStop, LeaveMainloop, TearDown
  <1>3. TypeOK'
    BY <1>1, <1>2 DEF Base, TypeOK, Worker, TakeRun, Claim, SetUp, RunStop, LeaveMainloop,
                      TearDown
  <1>4. created /\ UNCHANGED <<created, paused, lock, at>>
    BY DEF Base, BitsMatch, Worker, TakeRun, Claim, SetUp, RunStop, LeaveMainloop, TearDown
  <1>5. LockMatches'
    BY <1>4 DEF Base, LockMatches
  <1>6. BitsMatch' /\ StopsMatch' /\ NeverForgotten'
    <2> USE <1>4 DEF Base, BitsMatch, StopsMatch, NeverForgotten
    <2>1. CASE TakeRun
      BY <2>1 DEF TakeRun
    <2>2. CASE Claim
      BY <2>2 DEF Claim
    <2>3. CASE SetUp
      BY <2>3 DEF SetUp
    <2>4. CASE RunStop
      BY <2>4 DEF RunStop, TypeOK
    <2>5. CASE LeaveMainloop
      BY <2>5 DEF LeaveMainloop
    <2>6. CASE TearDown
      BY <2>6 DEF TearDown
    <2>7. QED
      BY <2>1, <2>2, <2>3, <2>4, <2>5, <2>6 DEF Worker
  <1>7. QED
    BY <1>3, <1>5, <1>6 DEF Base

LEMMA BaseStep == Base /\ [Next]_vars => Base'
  <1> SUFFICES ASSUME Base, [Next]_vars PROVE Base'
    OBVIOUS
  <1>1. CASE UNCHANGED vars
    BY <1>1 DEF vars, Base, TypeOK, BitsMatch, LockMatches, StopsMatch, NeverForgotten
  <1>2. CASE Start
    BY <1>2 DEF Start, Base, TypeOK, BitsMatch, LockMatches, StopsMatch, NeverForgotten
  <1>3. QED
    BY <1>1, <1>2, WorkerBase, CallerBase, CallBase DEF Next

THEOREM BaseInvariance == Spec => []Base
  BY InitBase, BaseStep, PTL DEF Spec

(* The runtime's variables keep their types.                                *)
THEOREM TypeCorrect == Spec => []TypeOK
  BY BaseInvariance, PTL DEF Base

(* "A failed AP transition must not leave Zigbee permanently suspended"     *)
(* (zigbee_runtime.c 110): no failed, late or crossing call does.           *)
THEOREM NotForgotten == Spec => []NeverForgotten
  BY BaseInvariance, PTL DEF Base

-------------------------------------------------------------------------------
(* A pause that returns ESP_OK has found the worker idle.                   *)
LEMMA PauseDoneKeeps ==
    ASSUME Base, FailureMatches, NEW c \in Callers, at[c] \in Inside, "idle" \in bits,
           PauseDone(c)
    PROVE  FailureMatches' /\ PausedMeansIdle'
  <1>1. lock = c /\ \A d \in Callers : d # c => at[d] \notin Inside
    BY DEF Base, LockMatches
  <1>2. at \in [Callers -> Outside \cup Inside] /\ stops = 0
    BY DEF Base, TypeOK, BitsMatch, StopsMatch
  <1>3. FailureMatches'
    BY <1>1, <1>2 DEF FailureMatches, PauseDone
  <1>4. PausedMeansIdle'
    BY DEF Base, BitsMatch, PausedMeansIdle, PauseDone
  <1>5. QED
    BY <1>3, <1>4

(* A pause that fails without a timeout has no callback in the queue.       *)
LEMMA PauseFailedKeeps ==
    ASSUME Base, FailureMatches, NEW c \in Callers, at[c] \in Inside, Timeouts \/ stops = 0,
           PauseFailed(c)
    PROVE  FailureMatches' /\ PausedMeansIdle'
  <1>1. lock = c /\ \A d \in Callers : d # c => at[d] \notin Inside
    BY DEF Base, LockMatches
  <1>2. at \in [Callers -> Outside \cup Inside]
    BY DEF Base, TypeOK
  <1>3. FailureMatches'
    BY <1>1, <1>2 DEF FailureMatches, PauseFailed
  <1>4. PausedMeansIdle'
    BY DEF PausedMeansIdle, PauseFailed
  <1>5. QED
    BY <1>3, <1>4

(* A pause goes on, holding the mutex, and the faults it has seen go along. *)
LEMMA GotoKeeps ==
    ASSUME Base, FailureMatches, NEW c \in Callers, NEW where \in Inside, Goto(c, where),
           \/ at[c] = "wait_ready" /\ where = "post" /\ UNCHANGED stops
           \/ at[c] = "post" /\ where = "wait_idle" /\ (UNCHANGED stops \/ stops' = stops + 1)
           \/ at[c] = "wait_idle" /\ where = "result" /\ "stop_failed" \in bits /\ UNCHANGED stops
    PROVE  FailureMatches' /\ PausedMeansIdle'
  <1>1. lock = c /\ c # Nobody /\ \A d \in Callers : d # c => at[d] \notin Inside
    BY RuntimeAssumption DEF Base, LockMatches
  <1>2. at'[c] = where /\ \A d \in Callers : d # c => at'[d] = at[d]
    BY DEF Goto, Base, TypeOK
  <1>3. ~Timeouts /\ where = "wait_idle" => stops = 0 /\ stops' \in {0, 1}
    BY DEF FailureMatches
  <1>4. FailureMatches'
    BY <1>1, <1>2, <1>3 DEF Goto, FailureMatches
  <1>5. PausedMeansIdle'
    BY <1>1 DEF Goto, PausedMeansIdle
  <1>6. QED
    BY <1>4, <1>5

(* The result read is the one that was announced, unless both kinds of      *)
(* fault occur.                                                             *)
LEMMA ReadResultKeeps ==
    ASSUME IInv, NoLateResult, NEW c \in Callers, ReadResult(c)
    PROVE  FailureMatches' /\ PausedMeansIdle'
  <1>1. "stop_failed" \in bits /\ StopFails /\ ~Timeouts
    <2>1. ~(StopFails /\ Timeouts)
      <3>1. faults \in FaultSets /\ faults \subseteq Faults
        BY RuntimeAssumption DEF IInv, Base, TypeOK
      <3>2. StopFails /\ Timeouts => faults = Faults
        BY <3>1 DEF Faults
      <3>3. QED
        BY <3>1, <3>2 DEF NoLateResult
    <2>2. QED
      BY <2>1 DEF IInv, FailureMatches, ReadResult
  <1>2. ~stopResult /\ stops = 0
    BY <1>1 DEF IInv, FailureMatches, ReadResult
  <1>3. QED
    BY <1>2, PauseFailedKeeps DEF ReadResult, IInv

LEMMA CallerKeeps ==
    ASSUME IInv, NoLateResult, NEW c \in Callers, Proceed(c)
    PROVE  FailureMatches' /\ PausedMeansIdle'
  <1>1. CASE GiveUpLock(c)
    BY <1>1 DEF GiveUpLock, IInv, Base, TypeOK, FailureMatches, PausedMeansIdle
  <1>2. CASE Resume(c)
    BY <1>2 DEF Resume, IInv, Base, TypeOK, FailureMatches, PausedMeansIdle
  <1>3. CASE BeginPause(c)
    BY <1>3, RuntimeAssumption
       DEF BeginPause, IInv, Base, TypeOK, LockMatches, FailureMatches, PausedMeansIdle
  <1>4. CASE WaitReady(c)
    BY <1>4, PauseDoneKeeps, PauseFailedKeeps, GotoKeeps DEF WaitReady, IInv
  <1>5. CASE PostStop(c)
    <2>1. Timeouts \/ stops = 0
      BY <1>5, RuntimeAssumption DEF IInv, FailureMatches, PostStop
    <2>2. QED
      BY <1>5, <2>1, PauseFailedKeeps, GotoKeeps DEF PostStop, IInv
  <1>6. CASE WaitIdle(c)
    BY <1>6, PauseDoneKeeps, PauseFailedKeeps, GotoKeeps DEF WaitIdle, IInv
  <1>7. CASE ReadResult(c)
    BY <1>7, ReadResultKeeps
  <1>8. QED
    BY <1>1, <1>2, <1>3, <1>4, <1>5, <1>6, <1>7 DEF Proceed

LEMMA CallKeeps ==
    ASSUME IInv, NEW c \in Callers, NEW p \in BOOLEAN, CallEarly(c, p) \/ Call(c, p)
    PROVE  FailureMatches' /\ PausedMeansIdle'
  <1>1. CASE CallEarly(c, p)
    BY <1>1 DEF CallEarly, IInv, Base, BitsMatch, FailureMatches, PausedMeansIdle
  <1>2. CASE Call(c, p)
    BY <1>2 DEF Call, IInv, Base, TypeOK, FailureMatches, PausedMeansIdle
  <1>3. QED
    BY <1>1, <1>2

LEMMA WorkerKeeps ==
    ASSUME IInv, Worker
    PROVE  FailureMatches' /\ PausedMeansIdle'
  <1> USE DEF IInv, Base
  <1>1. CASE TakeRun
    BY <1>1 DEF TakeRun, FailureMatches, PausedMeansIdle
  <1>2. CASE Claim
    <2>1. stops = 0 /\ \A c \in Callers : at[c] \notin Inside
      BY <1>2, RuntimeAssumption DEF Claim, LockMatches, StopsMatch
    <2>2. FailureMatches'
      BY <1>2, <2>1 DEF Claim, FailureMatches
    <2>3. PausedMeansIdle'
      BY <1>2 DEF Claim, PausedMeansIdle
    <2>4. QED
      BY <2>2, <2>3
  <1>3. CASE SetUp
    BY <1>3 DEF SetUp, FailureMatches, PausedMeansIdle
  <1>4. CASE RunStop
    BY <1>4 DEF RunStop, TypeOK, LockMatches, FailureMatches, PausedMeansIdle
  <1>5. CASE LeaveMainloop
    BY <1>5 DEF LeaveMainloop, FailureMatches, PausedMeansIdle
  <1>6. CASE TearDown
    BY <1>6 DEF TearDown, FailureMatches, PausedMeansIdle
  <1>7. QED
    BY <1>1, <1>2, <1>3, <1>4, <1>5, <1>6 DEF Worker

LEMMA FaultStep == IInv /\ NoLateResult /\ [Next]_vars => FailureMatches' /\ PausedMeansIdle'
  <1> SUFFICES ASSUME IInv, NoLateResult, [Next]_vars PROVE FailureMatches' /\ PausedMeansIdle'
    OBVIOUS
  <1>1. CASE UNCHANGED vars
    BY <1>1 DEF vars, IInv, FailureMatches, PausedMeansIdle
  <1>2. CASE Start
    BY <1>2 DEF Start, IInv, Base, BitsMatch, FailureMatches, PausedMeansIdle
  <1>3. QED
    BY <1>1, <1>2, WorkerKeeps, CallerKeeps, CallKeeps DEF Next

THEOREM RuntimeInvariance == NoLateResult /\ Spec => []IInv
  <1>1. Init => FailureMatches /\ PausedMeansIdle
    BY DEF Init, FailureMatches, PausedMeansIdle
  <1>2. NoLateResult => NoLateResult'
    BY DEF NoLateResult
  <1>3. QED
    BY InitBase, BaseStep, FaultStep, <1>1, <1>2, PTL DEF Spec, IInv

(* "Pause waits for teardown" (zigbee_runtime.h 9): a pause that returned   *)
(* ESP_OK finds the router off the radio.                                   *)
THEOREM PauseIsExclusive == NoLateResult /\ Spec => []PausedMeansIdle
  BY RuntimeInvariance, PTL DEF IInv

-------------------------------------------------------------------------------
(* A step of the runtime is a step of the gate, or none: the router claims  *)
(* the radio in Claim only, which finds nothing paused, and a pause is      *)
(* granted in PauseDone only, which the invariant finds the router gone.    *)
LEMMA GateStep ==
    ASSUME IInv, IInv', [Next]_vars
    PROVE  [Gate!Next]_(Gate!gateVars)
  <1> DEFINE granted == paused /\ lock = Nobody
             router == worker \in Running
  <1>1. ~(granted /\ router) /\ ~(granted /\ router)'
    BY DEF IInv, PausedMeansIdle
  <1>2. granted' = granted \/ router' = router
    <2>1. CASE worker' = worker
      BY <2>1
    <2>2. CASE Worker
      BY <2>2 DEF Worker, TakeRun, Claim, SetUp, RunStop, LeaveMainloop, TearDown
    <2>3. worker' = worker \/ Worker
      BY DEF Next, vars, Start, CallEarly, Call, Proceed, GiveUpLock, Resume, BeginPause,
             WaitReady, PostStop, WaitIdle, ReadResult, Goto, PauseDone, PauseFailed
    <2>4. QED
      BY <2>1, <2>2, <2>3
  <1>3. granted \in BOOLEAN /\ granted' \in BOOLEAN /\ router \in BOOLEAN /\ router' \in BOOLEAN
    BY DEF IInv, TypeOK
  <1>4. QED
    BY <1>1, <1>2, <1>3 DEF Gate!Next, Gate!gateVars, Gate!Grant, Gate!Revoke,
       Gate!RouterClaims, Gate!RouterLeaves

(* The runtime implements the gate between the AP and the router.           *)
THEOREM Implements == NoLateResult /\ Spec => ImplementsGate
  <1>1. Init => Gate!Init
    BY DEF Init, Gate!Init
  <1>2. QED
    BY RuntimeInvariance, GateStep, <1>1, PTL DEF Spec, ImplementsGate, Gate!Spec

===============================================================================
