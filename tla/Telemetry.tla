-------------------------------- MODULE Telemetry ------------------------------
(****************************************************************************)
(* Settings, I2C bus, PSU monitoring and the two reporters together, the    *)
(* way src/src/app_main.c starts them.  A scenario says who acts: the shell *)
(* on the settings, PSU task and scanners on the bus, or one of the two     *)
(* radio profiles.  The reporters see of the PSU only what it publishes, so *)
(* in their scenarios a sample that is available or not may be published    *)
(* at any time in place of the transactions that lead to it.                *)
(****************************************************************************)
EXTENDS MqttReport, ZigbeeReport

CONSTANT Scenarios
ASSUME ScenariosAssumption == Scenarios \subseteq {"settings", "bus", "wifi", "zigbee"}

VARIABLE scenario

vars == <<scenario, settingsVars, busVars, psuVars, mqttVars, zigbeeVars>>

TypeOK ==
    /\ scenario \in Scenarios
    /\ SettingsOK /\ BusOK /\ PsuOK /\ MqttOK /\ ZigbeeOK

Init ==
    /\ scenario \in Scenarios
    /\ SettingsInit /\ BusInit /\ PsuInit /\ MqttInit /\ ZigbeeInit
    /\ scenario # "settings" =>
          settings.profile = IF scenario = "zigbee" THEN "zigbee" ELSE "wifi"
    /\ scenario # "bus" => line = "good" /\ knownAt = 1 /\ fitted = {}
    /\ scenario # "wifi" => station /\ memory /\ ~broker.client /\ ~broker.announced
    /\ scenario # "zigbee" => ~member

Shell ==
    /\ scenario = "settings" /\ SettingsNext
    /\ UNCHANGED <<scenario, busVars, psuVars, mqttVars, zigbeeVars>>

OnBus(action) ==
    /\ scenario = "bus" /\ action
    /\ UNCHANGED <<scenario, settingsVars, mqttVars, zigbeeVars>>
PsuBoot == OnBus(PsuStart)
PsuStep == OnBus(PsuTask \/ PsuNotify)
(* Shell and web server are started after PSU monitoring.                   *)
Scanning(t) == OnBus(psuPc # "boot" /\ (ScanStart(t) \/ ScanProbe(t)) /\ UNCHANGED psuVars)
Swept(t) == OnBus(ScanEnd(t) /\ UNCHANGED psuVars)
Wires == OnBus(WiresChange /\ UNCHANGED psuVars)

(* What PsuPublish makes of a pass, in the reporters' scenarios.            *)
Sample ==
    /\ scenario \in {"wifi", "zigbee"} /\ settings.psu.enabled
    /\ status' = [status EXCEPT !.available = ~@, !.sampled = TRUE, !.sample = [r \in 1 .. Registers |-> r]]
    /\ UNCHANGED <<scenario, settingsVars, busVars, psuPc, pass, raw, psuLocals, mqttVars, zigbeeVars>>

OnWifi(action) ==
    /\ scenario = "wifi" /\ action
    /\ UNCHANGED <<scenario, settingsVars, busVars, psuVars, zigbeeVars>>
MqttStep == OnWifi(MqttTask)
MqttClient == OnWifi(Connect \/ Disconnected)
MqttFlags == OnWifi(NotifyTask)
MqttDeliver == OnWifi(Deliver)
MqttNetwork == OnWifi(Network)

OnZigbee(action) ==
    /\ scenario = "zigbee" /\ action
    /\ UNCHANGED <<scenario, settingsVars, busVars, psuVars, mqttVars>>
ZigbeeSignal == OnZigbee(Signals)
ZigbeeRequest == OnZigbee(Requests)
ZigbeeCallback == OnZigbee(Callback)
ZigbeeRadio == OnZigbee(Radio)
(* Each pass of psu_task ends with a post.                                  *)
PsuTells ==
    OnZigbee(PsuPost /\ UNCHANGED <<stack, started, joining, joined, wasAvailable, lastReport, radioState>>)

Next ==
    \/ Shell
    \/ PsuBoot \/ PsuStep \/ Wires \/ \E t \in Scanners : Scanning(t) \/ Swept(t)
    \/ Sample
    \/ MqttStep \/ MqttClient \/ MqttFlags \/ MqttDeliver \/ MqttNetwork
    \/ ZigbeeSignal \/ ZigbeeRequest \/ ZigbeeCallback \/ ZigbeeRadio \/ PsuTells

(* Tasks run, a sweep ends within its three seconds, the client library     *)
(* delivers what it can, and the stack serves its queue.                    *)
Fairness ==
    /\ WF_vars(PsuStep) /\ \A t \in Scanners : WF_vars(Swept(t))
    /\ WF_vars(MqttStep) /\ WF_vars(MqttFlags) /\ WF_vars(MqttDeliver)
    /\ WF_vars(ZigbeeCallback) /\ WF_vars(PsuTells)

Spec == Init /\ [][Next]_vars /\ Fairness

-------------------------------------------------------------------------------
(* A task that uses the bus holds the mutex exactly as long as it does.     *)
BusIsShared == ScansKeepApart /\ PsuKeepsApart

(* Readings are whole, and so is the EEPROM where only one can answer.      *)
PublishedIsWhole == SamplesAreWhole /\ (Cardinality(fitted) <= 1 => EepromIsWhole)

===============================================================================
