------------------------------- MODULE MqttReport ------------------------------
(****************************************************************************)
(* The MQTT reporter (src/src/mqtt_service.c): the client's event handler,  *)
(* which only sets flags, and mqtt_task, which subscribes, announces the    *)
(* entities (one discovery message stands for the nine), publishes the      *)
(* state and then that the controller is online.  A state message is what   *)
(* the JSON says of psu_i2c.available.                                      *)
(*                                                                          *)
(* The client library, the broker and the connection between them are       *)
(* modelled as the code uses them: a bounded outbox that is delivered in    *)
(* order, again after a break, and drops what it cannot deliver; messages   *)
(* the broker retains; a will it publishes when it loses the client; no     *)
(* session that outlives a connection.                                      *)
(****************************************************************************)
EXTENDS PsuTelemetry, Sequences

CONSTANTS
    OutboxHigh,     \* 16384 bytes: above it nothing is added
    OutboxLimit     \* 24576 bytes: above it enqueueing fails

(* A state and an "online" always fit below the mark.                       *)
ASSUME MqttAssumption ==
    OutboxHigh \in Nat /\ OutboxLimit \in Nat /\ OutboxHigh + 2 <= OutboxLimit

States == {"available", "unavailable"}
Messages == States \cup {"discovery", "online"}

VARIABLES
    mqtt,       \* mqtt_task: where it is, setup_pending, subscriptions_pending, the status it read
    flags,      \* the task's notification value
    connected,  \* s_connected
    announced,  \* the CONNECTED handler is between its two statements
    station,    \* external: bc250_wifi_is_connected
    memory,     \* external: the heap has room for a message
    link,       \* external: the connection as the network has it
    outbox,     \* external: the client's outbox
    broker      \* external: retained messages, subscription, is it this boot's client

mqttVars == <<mqtt, flags, connected, announced, station, memory, link, outbox, broker>>
wire == <<connected, announced, station, memory, link>>

MqttOK ==
    /\ mqtt \in [pc : {"boot", "off", "address", "start", "wait", "check", "subscribe", "discover", "publish", "online"},
                 setup : BOOLEAN, subscribe : BOOLEAN, json : States]
    /\ flags \subseteq {"setup", "subscribe"}
    /\ connected \in BOOLEAN /\ announced \in BOOLEAN /\ station \in BOOLEAN
    /\ memory \in BOOLEAN /\ link \in BOOLEAN
    /\ outbox \in Seq(Messages) /\ Len(outbox) <= OutboxLimit
    /\ broker \in [client : BOOLEAN, subscribed : BOOLEAN, announced : BOOLEAN,
                   availability : {"online", "offline"}, state : States \cup {"old"}]

-------------------------------------------------------------------------------
(* esp_mqtt_client_enqueue.                                                 *)
Room == IF memory THEN OutboxLimit - Len(outbox) ELSE 0
Fits == Room > 0
Enqueued(m) == outbox' = Append(outbox, m)

GoTo(place) == mqtt' = [mqtt EXCEPT !.pc = place]

(* bc250_mqtt_service_start, once at boot: without memory for the client or *)
(* the task there is no MQTT until the next boot.                           *)
Wanted == settings.configured /\ settings.mqtt # "off" /\ settings.profile = "wifi"
MqttStart ==
    /\ mqtt.pc = "boot"
    /\ \/ Wanted /\ GoTo("address")
       \/ (Wanted => ~memory) /\ GoTo("off")
    /\ UNCHANGED <<flags, wire, outbox, broker>>

(* mqtt_task waits for the station's address, then tries to start the       *)
(* client until it succeeds.                                                *)
AwaitAddress ==
    /\ mqtt.pc = "address" /\ station
    /\ GoTo("start")
    /\ UNCHANGED <<flags, wire, outbox, broker>>
StartClient ==
    /\ mqtt.pc = "start" /\ memory
    /\ GoTo("wait")
    /\ UNCHANGED <<flags, wire, outbox, broker>>

(* The wait ends with a notification or after five seconds, and what was    *)
(* asked for before and not done yet is still pending.                      *)
MutCollected == [mqtt EXCEPT !.pc = "check", !.setup = "setup" \in flags, !.subscribe = "subscribe" \in flags]
Collected ==
    [mqtt EXCEPT !.pc = "check", !.setup = @ \/ "setup" \in flags,
                 !.subscribe = @ \/ "subscribe" \in flags]
Collect ==
    /\ mqtt.pc = "wait"
    /\ mqtt' = Collected /\ flags' = {}
    /\ UNCHANGED <<wire, outbox, broker>>

Check ==
    /\ mqtt.pc = "check"
    /\ GoTo(IF connected /\ station /\ Len(outbox) <= OutboxHigh THEN "subscribe" ELSE "wait")
    /\ UNCHANGED <<flags, wire, outbox, broker>>

(* A subscription is refused without a connection, and lost with a          *)
(* connection the client does not know yet to be broken.                    *)
Subscribe ==
    /\ mqtt.pc = "subscribe"
    /\ IF ~mqtt.subscribe THEN GoTo("discover") /\ UNCHANGED broker
       ELSE \/ /\ connected /\ memory
               /\ mqtt' = [mqtt EXCEPT !.pc = "discover", !.subscribe = FALSE]
               /\ broker' = [broker EXCEPT !.subscribed = @ \/ link]
            \/ ~(connected /\ memory) /\ GoTo("wait") /\ UNCHANGED broker
    /\ UNCHANGED <<flags, wire, outbox>>

(* publish_discovery, begun anew by the next pass when a message did not    *)
(* fit, and the reading of the status (bc250_status_json).                  *)
Snapshot == IF status.available THEN "available" ELSE "unavailable"
Discover ==
    /\ mqtt.pc = "discover"
    /\ IF ~mqtt.setup THEN UNCHANGED outbox
       ELSE IF Fits THEN Enqueued("discovery") ELSE UNCHANGED outbox
    /\ IF mqtt.setup => Fits
       THEN mqtt' = [mqtt EXCEPT !.pc = "publish", !.setup = FALSE, !.json = Snapshot]
       ELSE GoTo("wait")
    /\ UNCHANGED <<flags, wire, broker>>

(* The state first: only if it was taken, that the controller is online.    *)
MutAfterState(fits) == "online"
AfterState(fits) == IF fits THEN "online" ELSE "wait"
PublishState ==
    /\ mqtt.pc = "publish"
    /\ IF Fits THEN Enqueued(mqtt.json) ELSE UNCHANGED outbox
    /\ GoTo(AfterState(Fits))
    /\ UNCHANGED <<flags, wire, broker>>
PublishOnline ==
    /\ mqtt.pc = "online"
    /\ IF Fits THEN Enqueued("online") ELSE UNCHANGED outbox
    /\ GoTo("wait")
    /\ UNCHANGED <<flags, wire, broker>>

MqttTask ==
    \/ MqttStart \/ AwaitAddress \/ StartClient
    \/ Collect \/ Check \/ Subscribe \/ Discover \/ PublishState \/ PublishOnline

-------------------------------------------------------------------------------
(* mqtt_event, in the client's task.                                        *)

(* The broker publishes the old will when the client comes back before its  *)
(* loss was noticed.                                                        *)
Connect ==
    /\ mqtt.pc \notin {"boot", "off", "address", "start"} /\ ~connected /\ ~announced /\ station
    /\ link' = TRUE /\ connected' = TRUE /\ announced' = TRUE
    /\ broker' = [broker EXCEPT !.client = TRUE, !.subscribed = FALSE,
                                !.availability = IF broker.client THEN "offline" ELSE @]
    /\ UNCHANGED <<mqtt, flags, station, memory, outbox>>

NotifyTask ==
    /\ announced /\ announced' = FALSE
    /\ flags' = flags \cup {"setup", "subscribe"}
    /\ UNCHANGED <<mqtt, connected, station, memory, link, outbox, broker>>

Disconnected ==
    /\ connected /\ ~link /\ ~announced
    /\ connected' = FALSE
    /\ UNCHANGED <<mqtt, flags, announced, station, memory, link, outbox, broker>>

(* Home Assistant came back and says so.                                    *)
Birth ==
    /\ connected /\ link /\ ~announced /\ broker.subscribed
    /\ flags' = flags \cup {"setup"}
    /\ UNCHANGED <<mqtt, wire, outbox, broker>>

-------------------------------------------------------------------------------
(* Client library, network and broker.                                      *)

Retained(m) ==
    CASE m = "discovery" -> [broker EXCEPT !.announced = TRUE]
      [] m \in States -> [broker EXCEPT !.state = m]
      [] m = "online" -> [broker EXCEPT !.availability = m]
Deliver ==
    /\ connected /\ link /\ outbox # <<>>
    /\ broker' = Retained(Head(outbox))
    /\ outbox' \in {Tail(outbox), outbox}    \* acknowledged, or to be sent again
    /\ (outbox' = outbox => link' = FALSE) /\ (outbox' # outbox => UNCHANGED link)
    /\ UNCHANGED <<mqtt, flags, connected, announced, station, memory>>
(* What could not be delivered for 30 seconds is dropped, the messages of   *)
(* one pass together: a pass takes no such time.                            *)
Expire ==
    /\ ~connected /\ outbox # <<>> /\ mqtt.pc \in {"wait", "check"}
    /\ LET ends == {i \in 1 .. Len(outbox) : outbox[i] = "online"}
       IN  outbox' = IF ends = {} THEN <<>> ELSE SubSeq(outbox, Min(ends) + 1, Len(outbox))
    /\ UNCHANGED <<mqtt, flags, wire, broker>>
Break ==
    /\ link /\ link' = FALSE
    /\ UNCHANGED <<mqtt, flags, connected, announced, station, memory, outbox, broker>>
Will ==
    /\ ~link /\ broker.client
    /\ broker' = [broker EXCEPT !.client = FALSE, !.subscribed = FALSE, !.availability = "offline"]
    /\ UNCHANGED <<mqtt, flags, wire, outbox>>
StationChange ==
    /\ station' = ~station /\ (~station' => link' = FALSE) /\ (station' => UNCHANGED link)
    /\ UNCHANGED <<mqtt, flags, connected, announced, memory, outbox, broker>>
MemoryChange ==
    /\ memory' = ~memory
    /\ UNCHANGED <<mqtt, flags, connected, announced, station, link, outbox, broker>>

Client == Connect \/ NotifyTask \/ Disconnected
Network == Break \/ Will \/ StationChange \/ MemoryChange \/ Birth \/ Expire

MqttInit ==
    /\ mqtt = [pc |-> "boot", setup |-> FALSE, subscribe |-> FALSE, json |-> "unavailable"]
    /\ flags = {} /\ connected = FALSE /\ announced = FALSE
    /\ station \in BOOLEAN /\ memory \in BOOLEAN /\ link = FALSE /\ outbox = <<>>
    (* What an earlier boot left behind, its connection not missed yet.     *)
    /\ broker \in [client : BOOLEAN, subscribed : {FALSE}, announced : BOOLEAN,
                   availability : {"online", "offline"}, state : {"old"}]
    /\ broker.client <=> broker.availability = "online"

-------------------------------------------------------------------------------
(* Properties.                                                              *)

(* While the client of this boot is there, the broker shows the controller  *)
(* online only after this boot has reported a state: what an earlier boot   *)
(* left is never shown as current.                                          *)
OnlineMeansKnown ==
    connected /\ link /\ broker.availability = "online" => broker.state # "old"

(* Once station and connection last, Home Assistant is told everything and  *)
(* keeps being told: the topics are subscribed, the entities announced,     *)
(* the controller shown online, and a PSU that stays available or not is    *)
(* shown so in the end, whatever broke, filled up or expired before.        *)
Served ==
    broker.subscribed /\ broker.announced /\ broker.availability = "online"
HomeAssistantIsServed ==
    <>[](station /\ memory /\ connected /\ link /\ flags = {}) =>
        /\ <>[]Served
        /\ \A s \in States : <>[](Snapshot = s) => <>[](broker.state = s)

===============================================================================
