------------------------------- MODULE RadioGate ------------------------------
(****************************************************************************)
(* What src/src/zigbee_runtime.h promises to the configuration AP: the one  *)
(* 2.4 GHz radio is granted to the AP only while the Zigbee router has let  *)
(* go of it, and the router claims it only while it is not granted.         *)
(****************************************************************************)

VARIABLES
    granted,    \* a pause has succeeded and was not revoked
    router      \* the router owns the radio: setup, mainloop or teardown

gateVars == <<granted, router>>

Init == granted = FALSE /\ router = FALSE

Grant == ~granted /\ ~router /\ granted' = TRUE /\ UNCHANGED router
Revoke == granted /\ granted' = FALSE /\ UNCHANGED router
RouterClaims == ~granted /\ ~router /\ router' = TRUE /\ UNCHANGED granted
RouterLeaves == router /\ router' = FALSE /\ UNCHANGED granted

Next == Grant \/ Revoke \/ RouterClaims \/ RouterLeaves

Spec == Init /\ [][Next]_gateVars

(* "AP connections cannot share the radio with a Zigbee router"             *)
(* (zigbee_service.h 10).                                                   *)
Exclusive == ~(granted /\ router)

===============================================================================
