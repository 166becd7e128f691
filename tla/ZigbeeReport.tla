------------------------------ MODULE ZigbeeReport -----------------------------
(****************************************************************************)
(* What src/src/zigbee_service.c tells of itself and of the PSU: the flags  *)
(* s_started, s_joining and s_joined that follow the stack's signals, and   *)
(* the callback that sets the PSU attributes and reports them to the        *)
(* coordinator.  When the stack is started and stopped is decided in        *)
(* ZigbeeRuntime, and the On/Off attribute is in ZigbeePower.               *)
(*                                                                          *)
(* Posts from other tasks find the stack started and post in one step.      *)
(****************************************************************************)
EXTENDS PsuTelemetry, Sequences

CONSTANTS
    PostCap,        \* how many callbacks the stack's task queue takes
    LostReports     \* when reports may be lost: "first" (nothing reported yet), "later",
                    \* and whether they may be "silent": after the stack took them

ASSUME ZigbeeAssumption ==
    PostCap \in Nat \ {0} /\ LostReports \subseteq {"first", "later", "silent"}

VARIABLES
    stack,      \* "down", "starting" until it is initialized, or "up"
    started, joining, joined,   \* s_started, s_joining, s_joined
    wasAvailable,   \* s_psu_was_available
    lastReport,     \* s_psu_last_report_us: "never", or "recent" or "old" by the interval
    posts,          \* external: the stack's task queue
    steering,       \* external: network steering is in progress
    member,         \* external: the router has a network
    taken,          \* external: attributes can be set
    air,            \* external: reports get through
    coordinator     \* external: the validity of values and status flags it was told last

zigbeeVars == <<stack, started, joining, joined, wasAvailable, lastReport, posts, steering,
                member, taken, air, coordinator>>
radioState == <<steering, member, taken, air, coordinator>>

ZigbeeOK ==
    /\ stack \in {"down", "starting", "up"}
    /\ started \in BOOLEAN /\ joining \in BOOLEAN /\ joined \in BOOLEAN
    /\ wasAvailable \in BOOLEAN /\ lastReport \in {"never", "recent", "old"}
    /\ posts \in Seq({"commission", "reset", "psu"}) /\ Len(posts) <= PostCap
    /\ steering \in BOOLEAN /\ member \in BOOLEAN /\ taken \in BOOLEAN /\ air \in BOOLEAN
    /\ coordinator \in [values : {"none", "valid", "invalid"}, flags : {"none", "ok", "fault"}]

-------------------------------------------------------------------------------
(* A post to a full queue is dropped.                                       *)
MutPosted(queue, callback) == Append(queue, callback)
Posted(queue, callback) == IF Len(queue) < PostCap THEN Append(queue, callback) ELSE queue
Validity(on) == IF on THEN "valid" ELSE "invalid"
Flags(on) == IF on THEN "ok" ELSE "fault"

(* commission_cb: steering that is under way is left alone; starting it may *)
(* fail.                                                                    *)
Commission ==
    IF joining THEN UNCHANGED <<joining, steering>>
    ELSE \/ joining' = TRUE /\ steering' = TRUE
         \/ UNCHANGED <<joining, steering>>

StackStart ==
    /\ stack = "down" /\ settings.configured /\ settings.profile = "zigbee"
    /\ stack' = "starting"
    /\ UNCHANGED <<started, joining, joined, wasAvailable, lastReport, posts, radioState>>

(* FIRST_START and REBOOT: a router without a network looks for one.        *)
Initialized ==
    /\ stack = "starting" /\ stack' = "up"
    /\ started' = TRUE
    /\ IF member THEN joined' = TRUE /\ lastReport' = "never" /\ UNCHANGED <<joining, steering>>
       ELSE Commission /\ UNCHANGED <<joined, lastReport>>
    /\ posts' = IF settings.psu.enabled THEN Posted(posts, "psu") ELSE posts
    /\ UNCHANGED <<wasAvailable, member, taken, air, coordinator>>

(* The STEERING signal; a new network's coordinator knows nothing.          *)
Steered ==
    /\ steering /\ steering' = FALSE /\ joining' = FALSE
    /\ joined' \in BOOLEAN /\ member' = (member \/ joined')
    /\ lastReport' = "never"
    /\ posts' = IF joined' /\ settings.psu.enabled THEN Posted(posts, "psu") ELSE posts
    /\ coordinator' = IF joined' /\ ~member THEN [values |-> "none", flags |-> "none"] ELSE coordinator
    /\ UNCHANGED <<stack, started, wasAvailable, taken, air>>

Leave ==
    /\ member /\ started /\ member' = FALSE
    /\ joining' = FALSE /\ joined' = FALSE /\ lastReport' = "never"
    /\ UNCHANGED <<stack, started, wasAvailable, posts, steering, taken, air, coordinator>>

(* zigbee_teardown; the pairing stays stored.                               *)
MutStopped == UNCHANGED joining /\ joined' = FALSE
Stopped == joining' = FALSE /\ joined' = FALSE
Teardown ==
    /\ stack # "down" /\ stack' = "down"
    /\ Stopped /\ started' = FALSE
    /\ steering' = FALSE /\ posts' = <<>>
    /\ wasAvailable' = FALSE /\ lastReport' = "never"
    /\ UNCHANGED <<member, taken, air, coordinator>>

(* bc250_zigbee_commission and bc250_zigbee_factory_reset, from any task.   *)
Ask(callback) ==
    /\ started /\ posts' = Posted(posts, callback) /\ posts' # posts
    /\ UNCHANGED <<stack, started, joining, joined, wasAvailable, lastReport, radioState>>

(* bc250_zigbee_update_psu_status.                                          *)
PsuPost == posts' = IF started /\ settings.psu.enabled THEN Posted(posts, "psu") ELSE posts

-------------------------------------------------------------------------------
(* The callbacks, one at a time in the stack's task.                        *)

CommissionCb == Commission /\ UNCHANGED <<stack, started, joined, wasAvailable, lastReport, member, taken, air, coordinator>>

(* The factory reset forgets the network and restarts the controller.       *)
ResetCb ==
    /\ member' = FALSE /\ steering' = FALSE
    /\ stack' = "down" /\ started' = FALSE /\ joining' = FALSE /\ joined' = FALSE
    /\ wasAvailable' = FALSE /\ lastReport' = "never"
    /\ UNCHANGED <<taken, air, coordinator>>

(* The reports of one sample: scaling before the first, and the status      *)
(* flags with the first and with a change.                                  *)
ReportSet(changed) ==
    {"values"} \cup (IF lastReport = "never" THEN {"scaling"} ELSE {})
               \cup (IF lastReport = "never" \/ changed THEN {"flags"} ELSE {})

(* update_psu_attribute_cb: what was available last is remembered before    *)
(* it is known that anybody was told.                                       *)
MutDue(changed, on) == changed \/ (on /\ lastReport # "recent")
Due(changed, on) == changed \/ lastReport = "never" \/ (on /\ lastReport = "old")
PsuCb ==
    LET on == status.available
        changed == on # wasAvailable
        set == ReportSet(changed)
    IN  /\ IF ~taken THEN UNCHANGED <<wasAvailable, lastReport, coordinator>>
           ELSE /\ wasAvailable' = on
                /\ IF ~joined \/ ~Due(changed, on) THEN UNCHANGED <<lastReport, coordinator>>
                   ELSE \E accepted \in SUBSET set : \E told \in SUBSET accepted :
                        /\ told = set <=> air
                        /\ "silent" \notin LostReports => told = accepted
                        /\ lastReport' = IF accepted = set THEN "recent" ELSE lastReport
                        /\ coordinator' =
                              [values |-> IF "values" \in told THEN Validity(on) ELSE coordinator.values,
                               flags |-> IF "flags" \in told THEN Flags(on) ELSE coordinator.flags]
        /\ UNCHANGED <<stack, started, joining, joined, steering, member, taken, air>>

Callback ==
    /\ posts # <<>>
    /\ CASE Head(posts) = "commission" -> CommissionCb /\ posts' = Tail(posts)
         [] Head(posts) = "reset" -> ResetCb /\ posts' = <<>>
         [] Head(posts) = "psu" -> PsuCb /\ posts' = Tail(posts)

-------------------------------------------------------------------------------
(* The environment.                                                         *)

Elapse ==
    /\ lastReport = "recent" /\ lastReport' = "old"
    /\ UNCHANGED <<stack, started, joining, joined, wasAvailable, posts, radioState>>
TakenChange ==
    /\ taken' = ~taken
    /\ UNCHANGED <<stack, started, joining, joined, wasAvailable, lastReport, posts, steering, member, air, coordinator>>
AirChange ==
    /\ air' = ~air
    /\ ~air' => \/ "first" \in LostReports /\ lastReport = "never"
                \/ "later" \in LostReports /\ lastReport # "never"
    /\ UNCHANGED <<stack, started, joining, joined, wasAvailable, lastReport, posts, steering, member, taken, coordinator>>

Signals == StackStart \/ Initialized \/ Steered \/ Leave \/ Teardown
Requests == Ask("commission") \/ Ask("reset")
Radio == Elapse \/ TakenChange \/ AirChange

ZigbeeInit ==
    /\ stack = "down" /\ started = FALSE /\ joining = FALSE /\ joined = FALSE
    /\ wasAvailable = FALSE /\ lastReport = "never" /\ posts = <<>> /\ steering = FALSE
    /\ member \in BOOLEAN /\ taken = TRUE /\ air = TRUE
    /\ coordinator = [values |-> "none", flags |-> "none"]

-------------------------------------------------------------------------------
(* Properties.                                                              *)

(* The flags that the shell, the LED and the status page show tell of the   *)
(* network: started and joined only on a stack that is up, joined only with *)
(* a network, and joining only while the stack is steering, so that a       *)
(* commissioning request is never turned away for good.                     *)
FlagsTellNetwork ==
    /\ started <=> stack = "up"
    /\ joined => started /\ member
    /\ joining => started /\ steering

(* docs/ZIGBEE.md:177 and :179: once the router stays in its network, the   *)
(* reports get through, nobody fills the queue with requests and the PSU    *)
(* stays available or unavailable, the coordinator is told so in the end,   *)
(* by the values and by the flags.                                          *)
FaultIsTold ==
    \A on \in BOOLEAN :
        <>[](/\ settings.psu.enabled /\ joined /\ taken /\ air /\ status.available = on
             /\ \A i \in 1 .. Len(posts) : posts[i] = "psu")
            => <>[](coordinator.values = Validity(on) /\ coordinator.flags = Flags(on))

===============================================================================
