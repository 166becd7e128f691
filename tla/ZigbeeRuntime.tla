----------------------------- MODULE ZigbeeRuntime ----------------------------
(****************************************************************************)
(* The Zigbee runtime (src/src/zigbee_runtime.c): one worker task sets the  *)
(* stack up, runs its mainloop and tears it down; any task may ask it to    *)
(* pause for the configuration AP and to resume.  They share a mutex, an    *)
(* event group and the stop callback queued to the stack.                   *)
(*                                                                          *)
(* The stack is modelled from how the runtime uses it: a queued stop_cb is  *)
(* run by the mainloop, esp_zigbee_stop makes the mainloop return or fails, *)
(* and esp_zigbee_deinit forgets the callbacks that were not run.           *)
(*                                                                          *)
(* A definition named Mut... is a plausible bug, put in the place of the    *)
(* definition after it to see a property fail.                              *)
(****************************************************************************)
EXTENDS Integers

CONSTANTS
    Callers,        \* the tasks that open and close the AP
    FaultSets,      \* the combinations of faults that may occur
    StopCap         \* bound: stop callbacks the stack's queue takes

Nobody == "nobody"
Faults == {"stop_fails", "timeouts"}
ASSUME RuntimeAssumption ==
    /\ Nobody \notin Callers
    /\ FaultSets \subseteq SUBSET Faults
    /\ StopCap \in Nat \ {0}

VARIABLES
    faults,     \* one of FaultSets, fixed
    created,    \* s_state # NULL
    paused,     \* s_paused
    bits,       \* s_state
    lock,       \* who holds s_lock
    worker,     \* where runtime_task is
    at,         \* where each caller is in set_paused
    stops,      \* stop_cb calls in the stack's task queue
    stopping,   \* the mainloop was told to return
    stopResult  \* s_stop_result = ESP_OK

vars == <<faults, created, paused, bits, lock, worker, at, stops, stopping, stopResult>>

StopFails == "stop_fails" \in faults    \* esp_zigbee_stop may fail
Timeouts  == "timeouts" \in faults      \* a wait may outlast its 5 seconds

Outside == {"out", "pause", "resume"}
Inside  == {"wait_ready", "post", "wait_idle", "result"}
Running == {"setup", "mainloop", "teardown"}

TypeOK ==
    /\ faults \in FaultSets
    /\ created \in BOOLEAN /\ paused \in BOOLEAN
    /\ bits \in SUBSET {"run", "idle", "ready", "stop_failed"}
    /\ lock \in Callers \cup {Nobody}
    /\ worker \in {"wait", "claim"} \cup Running
    /\ at \in [Callers -> Outside \cup Inside]
    /\ stops \in 0 .. StopCap /\ stopping \in BOOLEAN /\ stopResult \in BOOLEAN

-------------------------------------------------------------------------------
(* bc250_zigbee_runtime_set_paused                                          *)

(* Before the runtime exists a call only notes what the start has to do.    *)
CallEarly(c, p) ==
    /\ ~created
    /\ paused' = p
    /\ UNCHANGED <<faults, created, bits, lock, worker, at, stops, stopping, stopResult>>
Call(c, p) ==
    /\ created /\ at[c] = "out"
    /\ at' = [at EXCEPT ![c] = IF p THEN "pause" ELSE "resume"]
    /\ UNCHANGED <<faults, created, paused, bits, lock, worker, stops, stopping, stopResult>>

(* The lock was not free in time: ESP_ERR_TIMEOUT.                          *)
GiveUpLock(c) ==
    /\ Timeouts /\ at[c] \in {"pause", "resume"} /\ lock # Nobody
    /\ at' = [at EXCEPT ![c] = "out"]
    /\ UNCHANGED <<faults, created, paused, bits, lock, worker, stops, stopping, stopResult>>

MutResumeSilently(c) ==
    /\ at[c] = "resume" /\ lock = Nobody
    /\ paused' = FALSE
    /\ at' = [at EXCEPT ![c] = "out"]
    /\ UNCHANGED <<faults, created, bits, lock, worker, stops, stopping, stopResult>>
Resume(c) ==
    /\ at[c] = "resume" /\ lock = Nobody
    /\ paused' = FALSE
    /\ bits' = IF paused THEN bits \cup {"run"} ELSE bits
    /\ at' = [at EXCEPT ![c] = "out"]
    /\ UNCHANGED <<faults, created, lock, worker, stops, stopping, stopResult>>

BeginPause(c) ==
    /\ at[c] = "pause" /\ lock = Nobody
    /\ lock' = c
    /\ paused' = TRUE
    /\ bits' = bits \ {"run", "stop_failed"}
    /\ at' = [at EXCEPT ![c] = "wait_ready"]
    /\ UNCHANGED <<faults, created, worker, stops, stopping, stopResult>>

(* The two ways out: ESP_OK, or an error that undoes the pause.             *)
PauseDone(c) ==
    /\ lock' = Nobody
    /\ at' = [at EXCEPT ![c] = "out"]
    /\ UNCHANGED <<faults, created, paused, bits, worker, stops, stopping, stopResult>>
MutPauseFailedSilently(c) ==
    /\ paused' = FALSE
    /\ lock' = Nobody
    /\ at' = [at EXCEPT ![c] = "out"]
    /\ UNCHANGED <<faults, created, bits, worker, stops, stopping, stopResult>>
MutPauseFailedHoldsLock(c) ==
    /\ paused' = FALSE
    /\ bits' = bits \cup {"run"}
    /\ at' = [at EXCEPT ![c] = "out"]
    /\ UNCHANGED <<faults, created, lock, worker, stops, stopping, stopResult>>
PauseFailed(c) ==
    /\ paused' = FALSE
    /\ bits' = bits \cup {"run"}
    /\ lock' = Nobody
    /\ at' = [at EXCEPT ![c] = "out"]
    /\ UNCHANGED <<faults, created, worker, stops, stopping, stopResult>>

Goto(c, where) ==
    /\ at' = [at EXCEPT ![c] = where]
    /\ UNCHANGED <<faults, created, paused, bits, lock, worker, stopping, stopResult>>

(* A worker still initializing must reach its mainloop first.               *)
WaitReady(c) ==
    /\ at[c] = "wait_ready"
    /\ \/ "idle" \in bits /\ PauseDone(c)
       \/ "idle" \notin bits /\ "ready" \in bits /\ Goto(c, "post") /\ UNCHANGED stops
       \/ Timeouts /\ bits \cap {"idle", "ready"} = {} /\ PauseFailed(c)

(* The mainloop may have ended since; a callback posted then is lost.       *)
PostStop(c) ==
    /\ at[c] = "post"
    /\ \/ /\ worker = "mainloop" /\ stops < StopCap
          /\ stops' = stops + 1
          /\ Goto(c, "wait_idle")
       \/ worker # "mainloop" /\ Goto(c, "wait_idle") /\ UNCHANGED stops
       \/ PauseFailed(c)

MutWaitIdleGivesUp(c) ==
    /\ at[c] = "wait_idle"
    /\ \/ "stop_failed" \in bits /\ Goto(c, "result") /\ UNCHANGED stops
       \/ "stop_failed" \notin bits /\ PauseDone(c)
WaitIdle(c) ==
    /\ at[c] = "wait_idle"
    /\ \/ "stop_failed" \in bits /\ Goto(c, "result") /\ UNCHANGED stops
       \/ "stop_failed" \notin bits /\ "idle" \in bits /\ PauseDone(c)
       \/ Timeouts /\ bits \cap {"idle", "stop_failed"} = {} /\ PauseFailed(c)

(* s_stop_result is read after the bit that announced it.                   *)
ReadResult(c) ==
    /\ at[c] = "result"
    /\ \/ stopResult /\ PauseDone(c)
       \/ ~stopResult /\ PauseFailed(c)

Proceed(c) ==
    \/ GiveUpLock(c) \/ Resume(c) \/ BeginPause(c)
    \/ WaitReady(c) \/ PostStop(c) \/ WaitIdle(c) \/ ReadResult(c)

-------------------------------------------------------------------------------
(* bc250_zigbee_runtime_start                                               *)
Start ==
    /\ ~created
    /\ created' = TRUE
    /\ bits' = IF paused THEN {"idle"} ELSE {"idle", "run"}
    /\ UNCHANGED <<faults, paused, lock, worker, at, stops, stopping, stopResult>>

(* runtime_task                                                             *)
TakeRun ==
    /\ worker = "wait" /\ "run" \in bits
    /\ bits' = bits \ {"run"}
    /\ worker' = "claim"
    /\ UNCHANGED <<faults, created, paused, lock, at, stops, stopping, stopResult>>

(* The lock is held for the decision only.                                  *)
MutClaimUnchecked ==
    /\ worker = "claim" /\ lock = Nobody
    /\ worker' = "setup"
    /\ bits' = bits \ {"idle", "stop_failed"}
    /\ UNCHANGED <<faults, created, paused, lock, at, stops, stopping, stopResult>>
Claim ==
    /\ worker = "claim" /\ lock = Nobody
    /\ \/ paused /\ worker' = "wait" /\ UNCHANGED bits
       \/ ~paused /\ worker' = "setup" /\ bits' = bits \ {"idle", "stop_failed"}
    /\ UNCHANGED <<faults, created, paused, lock, at, stops, stopping, stopResult>>

SetUp ==
    /\ worker = "setup"
    /\ worker' = "mainloop"
    /\ bits' = bits \cup {"ready"}
    /\ UNCHANGED <<faults, created, paused, lock, at, stops, stopping, stopResult>>

(* stop_cb, on the worker                                                   *)
MutRunStopTwice ==
    /\ worker = "mainloop" /\ stops > 0
    /\ \E done \in 1 .. 2 : stops' = stops - done
    /\ stopResult' = TRUE /\ stopping' = TRUE
    /\ UNCHANGED <<faults, created, paused, bits, lock, worker, at>>
RunStop ==
    /\ worker = "mainloop" /\ stops > 0
    /\ stops' = stops - 1
    /\ \/ stopResult' = TRUE /\ stopping' = TRUE /\ UNCHANGED bits
       \/ /\ StopFails /\ stopResult' = FALSE
          /\ bits' = bits \cup {"stop_failed"}
          /\ UNCHANGED stopping
    /\ UNCHANGED <<faults, created, paused, lock, worker, at>>

LeaveMainloop ==
    /\ worker = "mainloop" /\ stopping
    /\ worker' = "teardown"
    /\ bits' = bits \ {"ready"}
    /\ UNCHANGED <<faults, created, paused, lock, at, stops, stopping, stopResult>>

TearDown ==
    /\ worker = "teardown"
    /\ worker' = "wait"
    /\ bits' = bits \cup {"idle"}
    /\ stops' = 0 /\ stopping' = FALSE
    /\ UNCHANGED <<faults, created, paused, lock, at, stopResult>>

Worker == TakeRun \/ Claim \/ SetUp \/ RunStop \/ LeaveMainloop \/ TearDown

-------------------------------------------------------------------------------
Init ==
    /\ faults \in FaultSets
    /\ created = FALSE /\ paused = FALSE /\ bits = {} /\ lock = Nobody
    /\ worker = "wait" /\ at = [c \in Callers |-> "out"]
    /\ stops = 0 /\ stopping = FALSE /\ stopResult = TRUE

Next ==
    \/ Start \/ Worker
    \/ \E c \in Callers : Proceed(c) \/ \E p \in BOOLEAN : CallEarly(c, p) \/ Call(c, p)

Spec == Init /\ [][Next]_vars

(* Boot reaches the start, setup and teardown return, the mainloop runs its *)
(* callbacks, and a task that has called set_paused goes on, within its     *)
(* timeouts at the latest; an idle caller may stay away.                    *)
LiveSpec ==
    /\ Spec
    /\ WF_vars(Start) /\ WF_vars(Worker)
    /\ \A c \in Callers : WF_vars(Proceed(c))

-------------------------------------------------------------------------------
(* Properties                                                               *)

(* "Pause waits for teardown" (zigbee_runtime.h 9): once a pause has        *)
(* returned ESP_OK the router is off the radio until the next resume, or a  *)
(* pause that fails.                                                        *)
PausedMeansIdle == paused /\ lock = Nobody => worker \notin Running

(* "A failed AP transition must not leave Zigbee permanently suspended"     *)
(* (zigbee_runtime.c 110): a worker that waits while nothing is paused has  *)
(* been told to run, whichever calls failed, timed out or crossed.          *)
NeverForgotten == created /\ ~paused /\ worker = "wait" => "run" \in bits

(* The runtime is the gate between the AP and the router.                   *)
Gate == INSTANCE RadioGate WITH granted <- paused /\ lock = Nobody,
                                router <- worker \in Running
ImplementsGate == Gate!Spec

(* Not paused, the router comes up, also when stale stop callbacks end a    *)
(* mainloop nobody wanted to end.                                           *)
RunsUnlessPaused == ~paused ~> worker = "mainloop" \/ paused

(* The mutex of set_paused is not held for ever, not even if the two waits  *)
(* under it were unlimited: the worker, which takes the same mutex, always  *)
(* gets far enough to answer the caller that holds it.                      *)
LockIsReleased == \A c \in Callers : lock = c ~> lock # c

(* Neither the router nor a caller waits for ever.                          *)
NobodyIsStuck == RunsUnlessPaused /\ LockIsReleased

===============================================================================
