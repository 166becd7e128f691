------------------------------ MODULE ConfigStore ------------------------------
(****************************************************************************)
(* The configuration store (src/src/config_store.c) with the tasks that use *)
(* it: the boot in app_main, the health check 30 seconds later, the web     *)
(* handler and the serial shell.                                            *)
(*                                                                          *)
(* A saved configuration is staged in the pending slot and runs on trial    *)
(* from the next boot on.  The health check makes it the active one; a      *)
(* pending configuration that was booted twice without is dropped.          *)
(*                                                                          *)
(* NVS (external) is a log: every set and erase is one step here, and a     *)
(* crash falls between two of them.  A crash that loses writes not yet      *)
(* committed is a crash some steps earlier.                                 *)
(*                                                                          *)
(* As in PowerLogic, a definition named Mut... is a plausible bug.          *)
(****************************************************************************)
EXTENDS Integers

CONSTANTS
    Data,           \* valid settings a user may save, but for the password
    None,           \* no blob under a key, or one with a bad checksum
    MaxPassword,    \* bound: how many passwords are set after the first
    Scenarios       \* the combinations of Circumstances checked

Default == "default"    \* the settings of bc250_config_defaults
Torn == -1              \* salt and hash of different passwords
MaxBoots == 2

(* Who saves; whether saves come while another one is staged or on trial;   *)
(* whether power may fail between any two steps; whether NVS may fail.      *)
Circumstances == {"web", "serial", "resave", "crash", "nvs_fails"}

ASSUME StoreAssumption ==
    /\ Default \notin Data
    /\ MaxPassword \in Nat
    /\ None \notin [data : Data \cup {Default}, pw : Torn .. MaxPassword]
    /\ None \notin Data \cup {Default}
    /\ Scenarios \subseteq SUBSET Circumstances

VARIABLES
    scenario,       \* one of Scenarios, fixed
    nvs,            \* the keys active, pending and pboots
    phase,          \* where bc250_config_store_init is, or "running"
    ram,            \* s_config
    usingPending,   \* s_using_pending
    recovery,       \* s_recovery_required
    lock,           \* who holds s_write_lock
    at,             \* where the tasks are
    next,           \* the copy config_put_handler works on
    edit,           \* s_edit
    due,            \* a task waits 750 ms to restart the controller
    passwords,      \* how many were set after the first; the last is the newest
    shown,          \* history: the last password that admin reset has printed
    trials,         \* history: boots with the pending settings since their save
    confirmed,      \* history: the settings that passed a health check
    accepted        \* history: settings that were saved and not booted yet

volatile == <<ram, usingPending, recovery, lock, at, next, edit, due>>
history == <<shown, trials, confirmed, accepted>>
vars == <<scenario, nvs, phase, volatile, passwords, history>>

Tasks == {"web", "serial", "health"}
Nobody == "nobody"
Settings == Data \cup {Default}
Blob == [data : Settings, pw : Torn .. MaxPassword]

TypeOK ==
    /\ scenario \in Scenarios
    /\ nvs \in [active : Blob \cup {None}, pending : Blob \cup {None}, boots : 0 .. MaxBoots]
    /\ phase \in {"start", "forget", "active", "running"}
    /\ ram \in Blob \cup {None} /\ next \in Blob \cup {None} /\ edit \in Blob \cup {None}
    /\ usingPending \in BOOLEAN /\ recovery \in BOOLEAN /\ due \in BOOLEAN
    /\ lock \in Tasks \cup {Nobody}
    /\ at \in [web : {"idle", "save"},
               serial : {"idle", "reset_pending", "install", "rebooting"},
               health : {"waiting", "mark", "erase_pending", "erase_boots", "done"}]
    /\ passwords \in 0 .. MaxPassword /\ shown \in 0 .. MaxPassword
    /\ trials \in 0 .. MaxBoots + 1
    /\ confirmed \subseteq Settings /\ accepted \in Settings \cup {None}

-------------------------------------------------------------------------------
May(c) == c \in scenario
Erased == [active |-> None, pending |-> None, boots |-> 0]

(* A write, or one that fails and leaves the key as it was.                 *)
Write(key, value) ==
    \/ nvs' = [nvs EXCEPT ![key] = value]
    \/ May("nvs_fails") /\ UNCHANGED nvs

Goto(task, where) == at' = [at EXCEPT ![task] = where]

-------------------------------------------------------------------------------
(* bc250_config_store_init.  The count of boots is written before the       *)
(* pending configuration runs; the result of writing it is ignored.         *)

Run(config, trial) ==
    /\ phase' = "running"
    /\ ram' = config
    /\ usingPending' = trial
    /\ trials' = IF ~trial THEN 0 ELSE IF trials <= MaxBoots THEN trials + 1 ELSE trials
    /\ UNCHANGED <<scenario, lock, at, next, edit, due, passwords, shown, confirmed>>

MutOnTrial == nvs.pending # None /\ nvs.boots <= MaxBoots
OnTrial == nvs.pending # None /\ nvs.boots + 1 <= MaxBoots

BootPending ==
    /\ phase = "start" /\ OnTrial
    /\ Write("boots", nvs.boots + 1)
    /\ Run(nvs.pending, TRUE)
    /\ accepted' = None
    /\ UNCHANGED recovery

MutRollBack ==
    /\ phase = "start" /\ nvs.pending # None /\ ~OnTrial
    /\ recovery' = TRUE
    /\ phase' = "forget"
    /\ UNCHANGED <<scenario, nvs, ram, usingPending, lock, at, next, edit, due, passwords, history>>
RollBack ==
    /\ phase = "start" /\ nvs.pending # None /\ ~OnTrial
    /\ Write("pending", None)
    /\ recovery' = TRUE
    /\ phase' = "forget"
    /\ UNCHANGED <<scenario, ram, usingPending, lock, at, next, edit, due, passwords, history>>
ForgetBoots ==
    /\ phase = "forget"
    /\ Write("boots", 0)
    /\ phase' = "active"
    /\ UNCHANGED <<scenario, volatile, passwords, history>>

ReadsActive == phase = "active" \/ (phase = "start" /\ nvs.pending = None)
BootActive ==
    /\ ReadsActive /\ nvs.active # None
    /\ Run(nvs.active, FALSE)
    /\ UNCHANGED <<nvs, recovery, accepted>>

(* A failing write of the defaults aborts the boot.                         *)
BootDefaults ==
    /\ ReadsActive /\ nvs.active = None
    /\ nvs' = [nvs EXCEPT !.active = [data |-> Default, pw |-> 0]]
    /\ Run(nvs'.active, FALSE)
    /\ UNCHANGED <<recovery, accepted>>

Boot == BootPending \/ RollBack \/ ForgetBoots \/ BootActive \/ BootDefaults

(* The controller restarts: what is in RAM is lost.                         *)
Restarted ==
    /\ phase' = "start" /\ ram' = None
    /\ usingPending' = FALSE /\ recovery' = FALSE /\ due' = FALSE
    /\ lock' = Nobody /\ next' = None /\ edit' = None
    /\ at' = [web |-> "idle", serial |-> "idle", health |-> "waiting"]
    /\ UNCHANGED scenario

(* Somebody switches off or reboots a controller that writes nothing; a     *)
(* delayed restart comes whatever is being written; power fails any time.   *)
Restart ==
    /\ \/ phase = "running" /\ lock = Nobody
       \/ due
       \/ May("crash")
    /\ Restarted
    /\ UNCHANGED <<nvs, passwords, history>>

(* "factory reset ERASE ALL" and POST /api/v1/factory-reset: the whole      *)
(* flash partition is erased, then the controller restarts.                 *)
FactoryReset ==
    /\ phase = "running" /\ scenario \cap {"web", "serial"} # {}
    /\ nvs' = Erased
    /\ Restarted
    /\ passwords' = 0 /\ shown' = 0 /\ trials' = 0 /\ confirmed' = {} /\ accepted' = None

-------------------------------------------------------------------------------
(* bc250_config_save_pending: one write under the lock.  Nothing else is    *)
(* cleared, neither the count of boots nor s_using_pending.                 *)
SavePending(config) ==
    /\ lock = Nobody
    /\ nvs' = [nvs EXCEPT !.pending = config]
    /\ accepted' = config.data /\ trials' = 0
    /\ UNCHANGED <<scenario, phase, ram, usingPending, recovery, lock, passwords, shown, confirmed>>
SaveFails ==
    /\ lock = Nobody /\ May("nvs_fails")
    /\ UNCHANGED <<scenario, nvs, phase, ram, usingPending, recovery, lock, passwords, history>>

Undecided == usingPending \/ nvs.pending # None
MayEdit == phase = "running" /\ (May("resave") \/ ~Undecided)

(* config_put_handler copies s_config, without the lock: while admin reset  *)
(* assigns it the copy may be the old, the new or a torn one.  The patch    *)
(* may set a new password.                                                  *)
PasswordRead ==
    IF at.serial = "install" THEN {ram.pw, passwords, Torn} ELSE {ram.pw}
NewPassword == passwords < MaxPassword /\ passwords' = passwords + 1

WebPatch(data) ==
    /\ May("web") /\ MayEdit /\ at.web = "idle"
    /\ \/ /\ \E pw \in PasswordRead : next' = [data |-> data, pw |-> pw]
          /\ UNCHANGED passwords
       \/ NewPassword /\ next' = [data |-> data, pw |-> passwords']
    /\ Goto("web", "save")
    /\ UNCHANGED <<scenario, nvs, phase, ram, usingPending, recovery, lock, edit, due, history>>
WebSave ==
    /\ at.web = "save" /\ phase = "running"
    /\ \/ SavePending(next) /\ due' = TRUE
       \/ SaveFails /\ UNCHANGED due
    /\ Goto("web", "idle")
    /\ next' = None
    /\ UNCHANGED edit

-------------------------------------------------------------------------------
(* The serial shell: edit_setting, save_config, discard_config.             *)
SerialIdle == May("serial") /\ phase = "running" /\ at.serial = "idle"

Edit(data) ==
    /\ SerialIdle /\ (edit # None \/ MayEdit)
    /\ LET before == IF edit = None THEN ram ELSE edit
       IN  \/ edit' = [before EXCEPT !.data = data] /\ UNCHANGED passwords
           \/ NewPassword /\ edit' = [before EXCEPT !.pw = passwords']
    /\ UNCHANGED <<scenario, nvs, phase, ram, usingPending, recovery, lock, at, next, due, history>>
Save ==
    /\ SerialIdle /\ edit # None /\ MayEdit
    /\ \/ SavePending(edit) /\ due' = TRUE /\ Goto("serial", "rebooting")
       \/ SaveFails /\ UNCHANGED <<due, at>>
    /\ UNCHANGED <<next, edit>>
Discard ==
    /\ SerialIdle /\ edit # None
    /\ edit' = None
    /\ UNCHANGED <<scenario, nvs, phase, ram, usingPending, recovery, lock, at, next, due, passwords, history>>

(* bc250_config_reset_admin_password: the new password goes to the active   *)
(* slot, then to the pending one, and after both to s_config.               *)
Rehashed(blob) == [blob EXCEPT !.pw = passwords']
MutActiveRehashed == Rehashed(ram)
ActiveRehashed == Rehashed(IF nvs.active = None THEN ram ELSE nvs.active)
ResetActive ==
    /\ SerialIdle /\ lock = Nobody
    /\ NewPassword
    /\ \/ /\ nvs' = [nvs EXCEPT !.active = ActiveRehashed]
          /\ lock' = "serial"
          /\ Goto("serial", "reset_pending")
       \/ May("nvs_fails") /\ UNCHANGED <<nvs, lock, at>>
    /\ UNCHANGED <<scenario, phase, ram, usingPending, recovery, next, edit, due, history>>

(* A failure now leaves the active slot with a password nobody is shown.    *)
PendingRehashed ==
    IF nvs.pending # None THEN [nvs.pending EXCEPT !.pw = passwords]
    ELSE IF usingPending THEN [ram EXCEPT !.pw = passwords] ELSE None
ResetPending ==
    /\ at.serial = "reset_pending"
    /\ \/ /\ nvs' = [nvs EXCEPT !.pending = PendingRehashed]
          /\ Goto("serial", "install") /\ UNCHANGED lock
       \/ May("nvs_fails") /\ Goto("serial", "idle") /\ lock' = Nobody /\ UNCHANGED nvs
    /\ UNCHANGED <<scenario, phase, ram, usingPending, recovery, next, edit, due, passwords, history>>

(* The commit, and the answer; unsaved edits take the new password over.    *)
MutEditRehashed == edit
EditRehashed == IF edit = None THEN None ELSE [edit EXCEPT !.pw = passwords]
Install ==
    /\ at.serial = "install"
    /\ \/ ram' = [ram EXCEPT !.pw = passwords] /\ edit' = EditRehashed /\ shown' = passwords
       \/ May("nvs_fails") /\ UNCHANGED <<ram, edit, shown>>
    /\ Goto("serial", "idle") /\ lock' = Nobody
    /\ UNCHANGED <<scenario, nvs, phase, usingPending, recovery, next, due, passwords,
                   trials, confirmed, accepted>>

-------------------------------------------------------------------------------
(* healthy_task, 30 seconds after boot: an unhealthy configuration opens    *)
(* the recovery AP and stays as it is.                                      *)
HealthCheck ==
    /\ phase = "running" /\ at.health = "waiting"
    /\ \/ Goto("health", "done") /\ UNCHANGED confirmed
       \/ Goto("health", "mark") /\ confirmed' = confirmed \cup {ram.data}
    /\ UNCHANGED <<scenario, nvs, phase, ram, usingPending, recovery, lock, next, edit, due,
                   passwords, shown, trials, accepted>>

(* bc250_config_mark_healthy: the active slot is written, and only then the *)
(* pending one given up.  Failing to erase is ignored.                      *)
MarkDone ==
    /\ Goto("health", "done") /\ lock' = Nobody
    /\ UNCHANGED <<scenario, phase, ram, recovery, next, edit, due, passwords, history>>
MarkGoes(where) ==
    /\ Goto("health", where) /\ lock' = "health"
    /\ UNCHANGED <<scenario, phase, ram, usingPending, recovery, next, edit, due, passwords, history>>

MutMarkActive ==
    /\ at.health = "mark" /\ lock = Nobody
    /\ \/ ~usingPending /\ MarkDone /\ UNCHANGED <<nvs, usingPending>>
       \/ usingPending /\ MarkGoes("erase_pending") /\ Write("active", ram)
MarkActive ==
    /\ at.health = "mark" /\ lock = Nobody
    /\ \/ ~usingPending /\ MarkDone /\ UNCHANGED <<nvs, usingPending>>
       \/ usingPending /\ MarkGoes("erase_pending") /\ nvs' = [nvs EXCEPT !.active = ram]
       \/ usingPending /\ May("nvs_fails") /\ MarkDone /\ UNCHANGED <<nvs, usingPending>>
ErasePending ==
    /\ at.health = "erase_pending"
    /\ Write("pending", None)
    /\ MarkGoes("erase_boots")
MutEraseBoots ==
    /\ at.health = "erase_boots"
    /\ usingPending' = FALSE /\ UNCHANGED nvs
    /\ MarkDone
EraseBoots ==
    /\ at.health = "erase_boots"
    /\ Write("boots", 0)
    /\ usingPending' \in (IF May("nvs_fails") THEN BOOLEAN ELSE {FALSE})
    /\ MarkDone

-------------------------------------------------------------------------------
(* A controller from the factory.                                           *)
Init ==
    /\ scenario \in Scenarios
    /\ nvs = Erased /\ phase = "start" /\ ram = None
    /\ usingPending = FALSE /\ recovery = FALSE /\ due = FALSE
    /\ lock = Nobody /\ next = None /\ edit = None
    /\ at = [web |-> "idle", serial |-> "idle", health |-> "waiting"]
    /\ passwords = 0 /\ shown = 0 /\ trials = 0 /\ confirmed = {} /\ accepted = None

Web == (\E data \in Data : WebPatch(data)) \/ WebSave
Serial == (\E data \in Data : Edit(data)) \/ Save \/ Discard \/ ResetActive \/ ResetPending \/ Install
Health == HealthCheck \/ MarkActive \/ ErasePending \/ EraseBoots

Next == Boot \/ Restart \/ FactoryReset \/ Web \/ Serial \/ Health

Spec == Init /\ [][Next]_vars

-------------------------------------------------------------------------------
(* Properties                                                               *)

(* A configuration that cannot become healthy is given up: it runs in at    *)
(* most two boots, whenever power fails and whatever else is going on.      *)
TrialsAreLimited == ~May("nvs_fails") => trials <= MaxBoots

(* Only settings that passed the health check, or the defaults, are there   *)
(* to fall back to, though three tasks write the slot.                      *)
ActiveWasHealthy == nvs.active # None => nvs.active.data \in confirmed \cup {Default}

(* No crash and no failing write loses the running settings: they are in    *)
(* the active slot, or in the pending one, or newer ones are.               *)
RunningIsStored ==
    phase = "running" /\ nvs.pending = None =>
        nvs.active # None /\ nvs.active.data = ram.data

(* "Neither pending rollback nor a later shell save restores the old        *)
(* password" (docs/SERIAL.md 102): once admin reset has printed a password, *)
(* no older one is left, neither in a slot nor in RAM nor in unsaved edits. *)
ResetIsFinal ==
    ~May("web") => \A blob \in {nvs.active, nvs.pending, ram, edit} \ {None} : blob.pw >= shown

(* A configuration that was accepted stays staged until it is booted.       *)
AcceptedStaysStaged ==
    accepted # None => nvs.pending # None /\ nvs.pending.data = accepted
AcceptedIsTried ==
    scenario \cap {"resave", "crash", "nvs_fails"} = {} => AcceptedStaysStaged

(* "If it cannot become healthy after two boot attempts, the previous       *)
(* configuration is restored" (docs/SETUP.md 13): after two, not before.    *)
RollbackAfterTwoBoots == phase = "forget" => trials = MaxBoots

===============================================================================
