--------------------------------- MODULE WifiAp --------------------------------
(****************************************************************************)
(* The configuration AP (src/src/wifi_service.c) and the tasks that open    *)
(* and close it: boot, the dispatcher, the health check, the serial shell,  *)
(* the web radio action and the expiry task.  No lock protects the service; *)
(* a step here is what a task does between two calls to the Wi-Fi driver,   *)
(* to the Zigbee runtime or to the kernel, each of which may fail.          *)
(*                                                                          *)
(* The Zigbee runtime appears as the RadioGate that ZigbeeRuntime is shown  *)
(* to implement.  The Wi-Fi driver (external) has a mode and runs or not.   *)
(*                                                                          *)
(* As in PowerLogic, a definition named Mut... is a plausible bug.          *)
(****************************************************************************)
EXTENDS Integers, FiniteSets

CONSTANTS
    Openers,        \* tasks that open the AP while the controller runs
    Profiles,       \* radio profiles checked; "unset" is a controller not set up
    Scenarios,      \* which operations overlap, how many calls fail
    MaxGeneration   \* bound: no new request after so many openings

ASSUME ApAssumption ==
    /\ Openers \subseteq {"dispatcher", "healthy", "shell"}
    /\ Profiles \subseteq {"wifi", "zigbee", "unset"}
    /\ Scenarios \subseteq [overlap : {"none", "opens", "all"}, failures : Nat]
    /\ MaxGeneration \in Nat \ {0}

VARIABLES
    scenario, profile,      \* fixed
    left,                   \* calls that may still fail
    flag, started, gen,     \* s_config_ap, s_wifi_started, s_ap_generation
    idle,                   \* five minutes since s_ap_last_activity
    mode, running,          \* the Wi-Fi driver
    clients,                \* stations are connected to the AP
    granted, router,        \* the radio gate
    watchers,               \* generations of the living expiry tasks
    at, already, err,       \* per task: the next step, already_open, a call failed
    busy, pairing, pairGen  \* s_radio_busy; bc250_wifi_pair_zigbee runs, generation

service == <<flag, started, gen, idle>>
driver  == <<mode, running, clients>>
radio   == <<granted, router>>
action  == <<busy, pairing, pairGen>>
vars == <<scenario, profile, left, service, driver, radio, watchers, at, already, err, action>>

Tasks == Openers \cup {"boot", "web", "expiry"}
Resting == {"idle", "ack", "await", "commission", "failed"}
Steps == Resting \cup {"boot", "abort", "ap", "pause", "mode", "config", "start", "ap_failed", "watch",
                       "close", "closed", "station", "connect", "resume", "done"}

TypeOK ==
    /\ scenario \in Scenarios /\ profile \in Profiles /\ left \in 0 .. scenario.failures
    /\ flag \in BOOLEAN /\ started \in BOOLEAN /\ idle \in BOOLEAN
    /\ gen \in 0 .. MaxGeneration + Cardinality(Openers)
    /\ mode \in {"none", "ap", "sta"} /\ running \in BOOLEAN /\ clients \in BOOLEAN
    /\ granted \in BOOLEAN /\ router \in BOOLEAN
    /\ watchers \subseteq 1 .. gen
    /\ at \in [Tasks -> Steps] /\ already \in [Tasks -> BOOLEAN] /\ err \in [Tasks -> BOOLEAN]
    /\ busy \in BOOLEAN /\ pairing \in BOOLEAN /\ pairGen \in 0 .. gen

-------------------------------------------------------------------------------
Gate == INSTANCE RadioGate

OnAir == running /\ mode = "ap"
Working == {t \in Tasks : at[t] \notin Resting}

(* What may overlap with what is the scenario's choice, not the code's.     *)
MayOpen ==
    /\ at["boot"] = "idle"
    /\ \/ Working = {} \/ scenario.overlap = "all"
       \/ scenario.overlap = "opens" /\ Working \subseteq Openers
MayClose == at["boot"] = "idle" /\ (Working = {} \/ scenario.overlap = "all")

Goto(t, step) == at' = [at EXCEPT ![t] = step] /\ UNCHANGED <<scenario, profile>>
Succeeds(t, step) == Goto(t, step) /\ UNCHANGED <<left, err>>
Fails(t, step) ==
    /\ left > 0 /\ left' = left - 1
    /\ err' = [err EXCEPT ![t] = TRUE]
    /\ Goto(t, step)

-------------------------------------------------------------------------------
(* start_ap                                                                 *)

(* The driver and the interface of the AP are created once, so this may     *)
(* fail until an AP has been opened.                                        *)
ReadOpen(t) ==
    /\ at[t] = "ap"
    /\ \/ already' = [already EXCEPT ![t] = flag] /\ Succeeds(t, "pause")
       \/ gen = 0 /\ Fails(t, "done") /\ UNCHANGED already
    /\ UNCHANGED <<service, driver, radio, watchers, action>>

(* bc250_zigbee_set_config_ap_active(true): the router leaves, the radio is *)
(* granted.  Stopping a running router may fail.                            *)
MutPause(t) ==
    /\ at[t] = "pause"
    /\ \/ granted' = TRUE /\ router' = FALSE /\ Succeeds(t, "mode")
       \/ router /\ Fails(t, "mode") /\ UNCHANGED radio
    /\ UNCHANGED <<service, driver, watchers, already, action>>
Pause(t) ==
    /\ at[t] = "pause"
    /\ \/ granted' = TRUE /\ router' = FALSE /\ Succeeds(t, "mode")
       \/ router /\ Fails(t, "done") /\ UNCHANGED radio
    /\ UNCHANGED <<service, driver, watchers, already, action>>

SetMode(t) ==
    /\ at[t] = "mode"
    /\ \/ flag' = TRUE /\ mode' = "ap" /\ Succeeds(t, "config")
       \/ /\ flag' = already[t] /\ UNCHANGED mode
          /\ Fails(t, IF already[t] THEN "done" ELSE "resume")
    /\ UNCHANGED <<started, gen, idle, running, clients, radio, watchers, already, action>>

SetConfig(t) ==
    /\ at[t] = "config"
    /\ Succeeds(t, "start") \/ Fails(t, "ap_failed")
    /\ UNCHANGED <<service, driver, radio, watchers, already, action>>

(* A driver that runs is not started again.                                 *)
MutStartDriver(t) ==
    /\ at[t] = "start"
    /\ \/ /\ running' = (running \/ ~started) /\ started' = TRUE
          /\ idle' = FALSE
          /\ UNCHANGED gen
          /\ Succeeds(t, "watch")
       \/ ~started /\ Fails(t, "ap_failed") /\ UNCHANGED <<running, started, gen, idle>>
    /\ UNCHANGED <<flag, mode, clients, radio, watchers, already, action>>
StartDriver(t) ==
    /\ at[t] = "start"
    /\ \/ /\ running' = (running \/ ~started) /\ started' = TRUE
          /\ gen' = gen + 1 /\ idle' = FALSE
          /\ Succeeds(t, "watch")
       \/ ~started /\ Fails(t, "ap_failed") /\ UNCHANGED <<running, started, gen, idle>>
    /\ UNCHANGED <<flag, mode, clients, radio, watchers, already, action>>

(* "A running station may already have changed to AP before config failed." *)
ApFailed(t) ==
    /\ at[t] = "ap_failed"
    /\ \/ ~already[t] /\ started /\ Succeeds(t, "close") /\ UNCHANGED flag
       \/ /\ already[t] \/ ~started
          /\ flag' = already[t]
          /\ Succeeds(t, IF already[t] THEN "done" ELSE "resume")
    /\ UNCHANGED <<started, gen, idle, driver, radio, watchers, already, action>>

(* The DNS and expiry tasks, then the web server, whose failure is returned *)
(* with the AP left open.                                                   *)
StartWatcher(t) ==
    /\ at[t] = "watch"
    /\ \/ watchers' = watchers \cup {gen} /\ (Succeeds(t, "done") \/ Fails(t, "done"))
       \/ Fails(t, "close") /\ UNCHANGED watchers
    /\ UNCHANGED <<service, driver, radio, already, action>>

-------------------------------------------------------------------------------
(* bc250_wifi_close_config_ap, with start_station                           *)

Stop(t) ==
    /\ at[t] = "close"
    /\ \/ ~flag /\ Succeeds(t, "done") /\ UNCHANGED <<running, clients>>
       \/ flag /\ Succeeds(t, "closed") /\ running' = FALSE /\ clients' = FALSE
       \/ flag /\ Fails(t, "done") /\ UNCHANGED <<running, clients>>
    /\ UNCHANGED <<service, mode, radio, watchers, already, action>>

MutClosed(t) ==
    /\ at[t] = "closed"
    /\ flag' = FALSE
    /\ Succeeds(t, IF profile = "wifi" THEN "station" ELSE "resume")
    /\ UNCHANGED <<started, gen, idle, driver, radio, watchers, already, action>>
Closed(t) ==
    /\ at[t] = "closed"
    /\ started' = FALSE /\ flag' = FALSE
    /\ Succeeds(t, IF profile = "wifi" THEN "station" ELSE "resume")
    /\ UNCHANGED <<gen, idle, driver, radio, watchers, already, action>>

Station(t) ==
    /\ at[t] = "station"
    /\ \/ mode' = "sta" /\ Succeeds(t, "connect")
       \/ Fails(t, "resume") /\ UNCHANGED mode
    /\ UNCHANGED <<service, running, clients, radio, watchers, already, action>>
Connect(t) ==
    /\ at[t] = "connect"
    /\ \/ /\ running' = (running \/ ~started) /\ started' = TRUE
          /\ (Succeeds(t, "resume") \/ Fails(t, "resume"))
       \/ Fails(t, "resume") /\ UNCHANGED <<running, started>>
    /\ UNCHANGED <<flag, gen, idle, mode, clients, radio, watchers, already, action>>

(* bc250_zigbee_set_config_ap_active(false).  The runtime's mutex is free   *)
(* here: only operations that overlap wait for each other's pause or resume.*)
Resume(t) ==
    /\ at[t] = "resume"
    /\ Gate!Revoke \/ (~granted /\ UNCHANGED radio)
    /\ Succeeds(t, "done")
    /\ UNCHANGED <<service, driver, watchers, already, action>>

Proceed(t) ==
    \/ ReadOpen(t) \/ Pause(t) \/ SetMode(t) \/ SetConfig(t) \/ StartDriver(t)
    \/ ApFailed(t) \/ StartWatcher(t)
    \/ Stop(t) \/ Closed(t) \/ Station(t) \/ Connect(t) \/ Resume(t)

(* The operation returns to the task that called it.                        *)
Returned(t, step) ==
    /\ at[t] = "done"
    /\ Goto(t, step)
    /\ already' = [already EXCEPT ![t] = FALSE]
    /\ err' = [err EXCEPT ![t] = FALSE]
    /\ UNCHANGED <<left, service, driver, radio, watchers>>

-------------------------------------------------------------------------------
(* The tasks                                                                *)

(* bc250_wifi_service_start.  What forces the AP open at boot is free here. *)
Boot ==
    /\ at["boot"] = "boot"
    /\ \/ Succeeds("boot", "ap")
       \/ profile = "wifi" /\ Succeeds("boot", "station")
       \/ profile = "zigbee" /\ Succeeds("boot", "done")
    /\ UNCHANGED <<service, driver, radio, watchers, already, action>>
Booted == Returned("boot", IF err["boot"] THEN "abort" ELSE "idle") /\ UNCHANGED action

At == [t \in Tasks |-> IF t = "boot" THEN "boot" ELSE "idle"]
No == [t \in Tasks |-> FALSE]

(* ESP_ERROR_CHECK of app_main restarts the controller.  No AP that was     *)
(* opened survives it, and no other task exists yet.                        *)
Abort ==
    /\ at["boot"] = "abort"
    /\ flag' = FALSE /\ started' = FALSE /\ gen' = 0 /\ idle' = FALSE
    /\ mode' = "none" /\ running' = FALSE /\ clients' = FALSE
    /\ granted' = FALSE /\ router' = FALSE
    /\ watchers' = {}
    /\ at' = At /\ already' = No /\ err' = No
    /\ UNCHANGED <<scenario, profile, left, action>>

(* bc250_wifi_open_config_ap, and the shell's bc250_wifi_open_setup_ap.     *)
Open(t) ==
    /\ at[t] = "idle"
    /\ \/ /\ ~flag /\ MayOpen /\ gen < MaxGeneration
          /\ Succeeds(t, "ap") /\ UNCHANGED service
       \/ /\ flag /\ t = "shell"
          /\ idle' = FALSE
          /\ Succeeds(t, "idle") /\ UNCHANGED <<flag, started, gen>>
    /\ UNCHANGED <<driver, radio, watchers, already, action>>
Opened(t) == Returned(t, "idle") /\ UNCHANGED action

(* ap_expiry_task: a pass of its loop.  The tasks of one generation are one *)
(* here; they all end once the AP is closed.                                *)
MutExpire(g) ==
    /\ g \in watchers
    /\ \/ /\ ~flag \/ g # gen
          /\ watchers' = watchers \ {g} /\ UNCHANGED <<at, left, err, scenario, profile>>
       \/ /\ flag /\ g = gen /\ ~clients /\ idle
          /\ at["expiry"] = "idle" /\ MayClose
          /\ watchers' = watchers \ {g}
          /\ Succeeds("expiry", "close")
    /\ UNCHANGED <<service, driver, radio, already, action>>
Expire(g) ==
    /\ g \in watchers
    /\ \/ /\ ~flag \/ g # gen
          /\ watchers' = watchers \ {g} /\ UNCHANGED <<at, left, err, scenario, profile>>
       \/ /\ flag /\ g = gen /\ ~clients /\ idle
          /\ at["expiry"] = "idle" /\ MayClose
          /\ Succeeds("expiry", "close") /\ UNCHANGED watchers
    /\ UNCHANGED <<service, driver, radio, already, action>>
Expired == Returned("expiry", "idle") /\ UNCHANGED action

(* schedule_radio_action, asked for by a client of the AP, and              *)
(* radio_action_task 750 ms after the response was sent, or cancelled       *)
(* because it was not.                                                      *)
Request(pair) ==
    /\ clients /\ at["boot"] = "idle"
    /\ flag /\ ~busy /\ gen < MaxGeneration
    /\ pair => profile = "zigbee"
    /\ busy' = TRUE /\ pairing' = pair
    /\ Succeeds("web", "ack")
    /\ UNCHANGED <<pairGen, service, driver, radio, watchers, already>>

EndAction ==
    /\ busy' = FALSE /\ pairing' = FALSE /\ pairGen' = 0
    /\ Succeeds("web", "idle")
    /\ UNCHANGED <<service, driver, radio, watchers, already>>
MutCancel ==
    /\ at["web"] = "ack"
    /\ Succeeds("web", "idle")
    /\ UNCHANGED <<service, driver, radio, watchers, already, action>>
Cancel == at["web"] = "ack" /\ EndAction

(* bc250_wifi_pair_zigbee reads the flag and the generation first.          *)
Act ==
    /\ at["web"] = "ack" /\ MayClose
    /\ \/ /\ pairing => flag
          /\ pairGen' = IF pairing THEN gen ELSE 0
          /\ Succeeds("web", "close")
          /\ UNCHANGED <<busy, pairing, service, driver, radio, watchers, already>>
       \/ pairing /\ ~flag /\ EndAction
ActionClosed ==
    \/ /\ pairing
       /\ Returned("web", IF err["web"] THEN "failed" ELSE "await")
       /\ UNCHANGED action
    \/ /\ ~pairing
       /\ Returned("web", "idle")
       /\ busy' = FALSE /\ pairing' = FALSE /\ pairGen' = 0

(* The wait for the router, at most 15 seconds.  A portal opened meanwhile  *)
(* supersedes the request.                                                  *)
Superseded == flag \/ gen # pairGen
Await ==
    /\ at["web"] = "await"
    /\ \/ Superseded /\ EndAction
       \/ /\ ~Superseded
          /\ Succeeds("web", IF router THEN "commission" ELSE "failed")
          /\ UNCHANGED <<service, driver, radio, watchers, already, action>>
(* bc250_zigbee_commission needs a stack that is up.                        *)
Commission ==
    /\ at["web"] = "commission"
    /\ \/ router /\ EndAction
       \/ /\ ~router /\ Succeeds("web", "failed")
          /\ UNCHANGED <<service, driver, radio, watchers, already, action>>
MutReopen == at["web"] = "failed" /\ EndAction
Reopen ==
    /\ at["web"] = "failed"
    /\ \/ Superseded /\ EndAction
       \/ /\ ~Superseded /\ MayOpen
          /\ pairing' = FALSE
          /\ Succeeds("web", "ap")
          /\ UNCHANGED <<busy, pairGen, service, driver, radio, watchers, already>>

Web == Cancel \/ Act \/ ActionClosed \/ Await \/ Commission \/ Reopen

-------------------------------------------------------------------------------
(* What goes on outside                                                     *)

Router ==
    /\ profile = "zigbee" /\ at["boot"] = "idle"
    /\ Gate!RouterClaims \/ Gate!RouterLeaves
    /\ UNCHANGED <<scenario, profile, left, service, driver, watchers, at, already, err, action>>

(* wifi_event: a client that comes or goes starts the five minutes anew.    *)
Client ==
    /\ OnAir
    /\ clients' = ~clients
    /\ idle' = IF flag THEN FALSE ELSE idle
    /\ UNCHANGED <<scenario, profile, left, flag, started, gen, mode, running, radio, watchers,
                   at, already, err, action>>
FiveMinutes ==
    /\ flag /\ ~clients /\ ~idle
    /\ idle' = TRUE
    /\ UNCHANGED <<scenario, profile, left, flag, started, gen, driver, radio, watchers,
                   at, already, err, action>>

-------------------------------------------------------------------------------
Init ==
    /\ scenario \in Scenarios /\ profile \in Profiles
    /\ left = scenario.failures
    /\ flag = FALSE /\ started = FALSE /\ gen = 0 /\ idle = FALSE
    /\ mode = "none" /\ running = FALSE /\ clients = FALSE
    /\ Gate!Init
    /\ watchers = {}
    /\ at = At /\ already = No /\ err = No
    /\ busy = FALSE /\ pairing = FALSE /\ pairGen = 0

Next ==
    \/ \E t \in Tasks : Proceed(t)
    \/ Boot \/ Booted \/ Abort
    \/ \E t \in Openers : Open(t) \/ Opened(t)
    \/ Expired \/ (\E g \in 1 .. gen : Expire(g))
    \/ Web \/ (\E pair \in BOOLEAN : Request(pair))
    \/ Router \/ Client \/ FiveMinutes

Spec == Init /\ [][Next]_vars

(* A task in the middle of an operation goes on, the expiry task polls, and *)
(* time passes.  Nobody has to open or close the AP, no client to come, no  *)
(* router to start.                                                         *)
LiveSpec ==
    /\ Spec
    /\ \A t \in Tasks : WF_vars(Proceed(t))
    /\ \A t \in Openers : WF_vars(Opened(t))
    /\ WF_vars(Boot \/ Booted \/ Abort) /\ WF_vars(Expired) /\ WF_vars(Web)
    /\ \A g \in 1 .. MaxGeneration + Cardinality(Openers) : WF_vars(Expire(g))
    /\ WF_vars(FiveMinutes)

-------------------------------------------------------------------------------
(* Properties                                                               *)

(* "AP connections cannot share the radio with a Zigbee router"             *)
(* (zigbee_service.h 10), whichever call fails on the way up or down.       *)
NeverShareRadio == ~(OnAir /\ router)

(* Whenever no operation is under way the service knows what the driver     *)
(* does: the AP is on the air exactly while it is said to be open and has   *)
(* the radio, and without a failure a Wi-Fi controller is back on its       *)
(* network once the AP is closed (docs/API.md 31).                          *)
RestIsConsistent ==
    Working = {} =>
        /\ flag <=> OnAir
        /\ granted <=> flag
        /\ started <=> running
        /\ profile = "wifi" /\ ~flag /\ left = scenario.failures => running /\ mode = "sta"

(* "All APs also close automatically after five minutes without any         *)
(* connected Wi-Fi clients" (docs/API.md 31), even if one call fails.       *)
Overdue == flag /\ ~clients /\ idle
IdleApCloses == (scenario.failures <= 1 /\ Overdue) ~> ~Overdue

(* "Reopens setup on startup failure" (wifi_service.h 14): without another  *)
(* failure, a pairing whose router did not come up gives the portal back,   *)
(* and an operation of somebody else in between does not prevent it.        *)
FailedPairingReopens ==
    (scenario.failures = 0 /\ at["web"] = "failed" /\ ~Superseded) ~> flag

(* A radio action ends, also when its response could not be sent, and lets  *)
(* the next one in.                                                         *)
ActionEnds == busy ~> ~busy

===============================================================================
