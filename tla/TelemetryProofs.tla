----------------------------- MODULE TelemetryProofs ---------------------------
(****************************************************************************)
(* Proofs about settings, I2C bus, PSU monitoring and the two reporters,    *)
(* for every set of pins, timings, scanners, registers, EEPROM addresses    *)
(* and queue lengths.  A step belongs to one scenario and moves the         *)
(* variables of its components only, so each invariant is proved by itself. *)
(****************************************************************************)
EXTENDS Telemetry, FiniteSetTheorems, WellFoundedInduction, TLAPS

-------------------------------------------------------------------------------
(* Settings.                                                                *)

(* Changing one setting of a configuration leaves a configuration.          *)
LEMMA EditsAreSettings ==
    ASSUME NEW c \in Settings, NEW d \in OneSettingAway(c)
    PROVE  d \in Settings
<1>1. CASE \/ d \in {[c EXCEPT !.configured = b] : b \in BOOLEAN}
           \/ d \in {[c EXCEPT !.profile = p] : p \in {"wifi", "zigbee"}}
           \/ d \in {[c EXCEPT !.strategy = s] : s \in Strategies}
           \/ d \in {[c EXCEPT !.hold = b] : b \in BOOLEAN}
           \/ d \in {[c EXCEPT !.ssid = b] : b \in BOOLEAN}
           \/ d \in {[c EXCEPT !.mqtt = m] : m \in {"off", "complete", "incomplete"}}
           \/ d \in {[c EXCEPT !.ranged = b] : b \in BOOLEAN}
  BY <1>1 DEF Settings
<1>2. CASE d \in {[c EXCEPT !.role[r] = g] : r \in Roles, g \in Gpio}
  BY <1>2 DEF Settings
<1>3. CASE \/ d \in {[c EXCEPT !.psu.enabled = b] : b \in BOOLEAN}
           \/ d \in {[c EXCEPT !.psu[l] = g] : l \in {"sda", "scl"}, g \in Gpio}
  <2>1. c.psu \in Psu BY DEF Settings
  <2>2. \A b \in BOOLEAN : [c.psu EXCEPT !.enabled = b] \in Psu BY <2>1 DEF Psu
  <2>3. \A l \in {"sda", "scl"}, g \in Gpio : [c.psu EXCEPT ![l] = g] \in Psu BY <2>1 DEF Psu
  <2>4. \A p \in Psu : [c EXCEPT !.psu = p] \in Settings BY DEF Settings
  <2>. QED BY <1>3, <2>2, <2>3, <2>4 DEF Settings
<1>4. CASE \/ d \in {[c EXCEPT !.buttons[i].enabled = b] : i \in ButtonSlots, b \in BOOLEAN}
           \/ d \in {[c EXCEPT !.buttons[i].gpio = g] : i \in ButtonSlots, g \in Gpio}
           \/ d \in {[c EXCEPT !.buttons[i].radio = r] : i \in ButtonSlots, r \in {"none", "wifi", "zigbee"}}
           \/ d \in {[c EXCEPT !.buttons[i][t] = x] :
                         i \in ButtonSlots, t \in {"debounce", "double", "long"}, x \in Times}
  <2>1. c.buttons \in [ButtonSlots -> Button] BY DEF Settings
  <2>2. \A f \in [ButtonSlots -> Button] : [c EXCEPT !.buttons = f] \in Settings BY DEF Settings
  <2>3. \A i \in ButtonSlots, b \in Button : [c.buttons EXCEPT ![i] = b] \in [ButtonSlots -> Button]
    BY <2>1
  <2>4. ASSUME NEW b \in Button
        PROVE  /\ \A x \in BOOLEAN : [b EXCEPT !.enabled = x] \in Button
               /\ \A x \in Gpio : [b EXCEPT !.gpio = x] \in Button
               /\ \A x \in {"none", "wifi", "zigbee"} : [b EXCEPT !.radio = x] \in Button
               /\ \A t \in {"debounce", "double", "long"}, x \in Times : [b EXCEPT ![t] = x] \in Button
    BY DEF Button
  <2>5. \A i \in ButtonSlots : c.buttons[i] \in Button BY <2>1
  <2>6. \A i \in ButtonSlots, b \in Button : [c EXCEPT !.buttons = [c.buttons EXCEPT ![i] = b]] \in Settings
    BY <2>2, <2>3
  <2>7. CASE d \in {[c EXCEPT !.buttons[i].enabled = b] : i \in ButtonSlots, b \in BOOLEAN}
    <3>1. PICK i \in ButtonSlots, x \in BOOLEAN : d = [c EXCEPT !.buttons[i].enabled = x] BY <2>7
    <3>2. d = [c EXCEPT !.buttons = [c.buttons EXCEPT ![i] = [c.buttons[i] EXCEPT !.enabled = x]]] BY <3>1
    <3>3. [c.buttons[i] EXCEPT !.enabled = x] \in Button BY <2>4, <2>5
    <3>. QED BY <2>6, <3>2, <3>3
  <2>8. CASE d \in {[c EXCEPT !.buttons[i].gpio = g] : i \in ButtonSlots, g \in Gpio}
    <3>1. PICK i \in ButtonSlots, x \in Gpio : d = [c EXCEPT !.buttons[i].gpio = x] BY <2>8
    <3>2. d = [c EXCEPT !.buttons = [c.buttons EXCEPT ![i] = [c.buttons[i] EXCEPT !.gpio = x]]] BY <3>1
    <3>3. [c.buttons[i] EXCEPT !.gpio = x] \in Button BY <2>4, <2>5
    <3>. QED BY <2>6, <3>2, <3>3
  <2>9. CASE d \in {[c EXCEPT !.buttons[i].radio = r] : i \in ButtonSlots, r \in {"none", "wifi", "zigbee"}}
    <3>1. PICK i \in ButtonSlots, x \in {"none", "wifi", "zigbee"} : d = [c EXCEPT !.buttons[i].radio = x] BY <2>9
    <3>2. d = [c EXCEPT !.buttons = [c.buttons EXCEPT ![i] = [c.buttons[i] EXCEPT !.radio = x]]] BY <3>1
    <3>3. [c.buttons[i] EXCEPT !.radio = x] \in Button BY <2>4, <2>5
    <3>. QED BY <2>6, <3>2, <3>3
  <2>10. CASE d \in {[c EXCEPT !.buttons[i][t] = x] :
                         i \in ButtonSlots, t \in {"debounce", "double", "long"}, x \in Times}
    <3>1. PICK i \in ButtonSlots, t \in {"debounce", "double", "long"}, x \in Times :
             d = [c EXCEPT !.buttons[i][t] = x] BY <2>10
    <3>2. d = [c EXCEPT !.buttons = [c.buttons EXCEPT ![i] = [c.buttons[i] EXCEPT ![t] = x]]] BY <3>1
    <3>3. [c.buttons[i] EXCEPT ![t] = x] \in Button BY <2>4, <2>5
    <3>. QED BY <2>6, <3>2, <3>3
  <2>. QED BY <1>4, <2>7, <2>8, <2>9, <2>10
<1>5. CASE d \in {[c EXCEPT !.timing[t] = x] : t \in DOMAIN c.timing, x \in Times}
  <2>1. c.timing \in Timing BY DEF Settings
  <2>2. \A t \in DOMAIN c.timing, x \in Times : [c.timing EXCEPT ![t] = x] \in Timing
    BY <2>1 DEF Timing
  <2>3. \A t \in Timing : [c EXCEPT !.timing = t] \in Settings BY DEF Settings
  <2>. QED BY <1>5, <2>2, <2>3 DEF Settings
<1>. QED BY <1>1, <1>2, <1>3, <1>4, <1>5 DEF OneSettingAway

(* The settings are valid from the start and replaced by valid ones only.   *)
SettingsInv == SettingsOK /\ Valid(settings)

LEMMA SettingsKept ==
    ASSUME SettingsInv, [Next]_vars
    PROVE  SettingsInv'
<1>. USE SettingsAssumption DEF SettingsInv, SettingsOK
<1>1. CASE Shell
  <2>1. CASE EditSetting
    <3>1. PICK c \in OneSettingAway(shell.draft) :
             shell' = [draft |-> c, dirty |-> TRUE, edits |-> shell.edits + 1]
      BY <2>1 DEF EditSetting
    <3>2. c \in Settings BY <3>1, EditsAreSettings
    <3>. QED BY <2>1, <3>1, <3>2 DEF EditSetting
  <2>2. CASE DiscardConfig BY <2>2 DEF DiscardConfig, Clean
  <2>3. CASE SaveConfig BY <2>3 DEF SaveConfig, Clean
  <2>. QED BY <1>1, <2>1, <2>2, <2>3 DEF Shell, SettingsNext
<1>2. CASE UNCHANGED settingsVars BY <1>2 DEF settingsVars
<1>. QED
  BY <1>1, <1>2 DEF Next, vars, PsuBoot, PsuStep, Wires, Scanning, Swept, OnBus, Sample,
     MqttStep, MqttClient, MqttFlags, MqttDeliver, MqttNetwork, OnWifi,
     ZigbeeSignal, ZigbeeRequest, ZigbeeCallback, ZigbeeRadio, PsuTells, OnZigbee

LEMMA SettingsAlways == Spec => []SettingsInv
<1>1. Init => SettingsInv
  BY SettingsAssumption DEF Init, SettingsInit, SettingsInv, SettingsOK
<1>. QED BY <1>1, SettingsKept, PTL DEF Spec

(* What validation lets through has its pins apart.                         *)
LEMMA ValidPinsAreApart ==
    ASSUME NEW c \in Settings, Valid(c)
    PROVE  PinsAreApart(c)
<1>. USE DEF Disabled
<1>1. ASSUME NEW r \in Roles, c.role[r] # Disabled
      PROVE  /\ c.role[r] \in (IF r = "sense" THEN InputPins ELSE OutputPins) /\ c.role[r] \notin BlockedPins
             /\ \A s \in Roles : s # r => c.role[s] # c.role[r]
             /\ c.psu.enabled => c.role[r] \notin {c.psu.sda, c.psu.scl}
  BY <1>1 DEF Valid, FixedPinsOK, PinOK, Roles
<1>2. ASSUME c.psu.enabled
      PROVE  /\ c.psu.sda # c.psu.scl
             /\ \A g \in {c.psu.sda, c.psu.scl} : g \in OutputPins /\ g \notin BlockedPins
  BY <1>2 DEF Valid, FixedPinsOK, PinOK, Roles
<1>3. ASSUME NEW i \in ButtonSlots, c.buttons[i].enabled
      PROVE  /\ c.buttons[i].gpio \in InputPins /\ c.buttons[i].gpio \notin BlockedPins
             /\ c.buttons[i].gpio # Disabled
             /\ \A r \in Roles : c.role[r] # c.buttons[i].gpio
             /\ c.psu.enabled => c.buttons[i].gpio \notin {c.psu.sda, c.psu.scl}
             /\ \A j \in ButtonSlots \ {i} : c.buttons[j].enabled => c.buttons[j].gpio # c.buttons[i].gpio
  BY <1>3 DEF Valid, ButtonOK, PinOK, PinInUse
<1>4. ASSUME NEW u \in Uses(c)
      PROVE  \/ \E r \in Roles : u = <<r, c.role[r]>> /\ c.role[r] # Disabled
             \/ c.psu.enabled /\ (u = <<"sda", c.psu.sda>> \/ u = <<"scl", c.psu.scl>>)
             \/ \E i \in ButtonSlots : c.buttons[i].enabled /\ u = <<i, c.buttons[i].gpio>>
  BY <1>4 DEF Uses
<1>5. ASSUME NEW u \in Uses(c)
      PROVE  /\ u[2] \in IF u[1] \in {"sense"} \cup ButtonSlots THEN InputPins ELSE OutputPins
             /\ u[2] \notin BlockedPins
  <2>1. \A i \in ButtonSlots : i \notin Roles \cup {"sda", "scl"} BY SettingsAssumption
  <2>2. CASE \E r \in Roles : u = <<r, c.role[r]>> /\ c.role[r] # Disabled BY <1>1, <2>1, <2>2
  <2>3. CASE c.psu.enabled /\ (u = <<"sda", c.psu.sda>> \/ u = <<"scl", c.psu.scl>>) BY <1>2, <2>1, <2>3
  <2>4. CASE \E i \in ButtonSlots : c.buttons[i].enabled /\ u = <<i, c.buttons[i].gpio>> BY <1>3, <2>4
  <2>. QED BY <1>4, <2>2, <2>3, <2>4
<1>6. ASSUME NEW u \in Uses(c), NEW v \in Uses(c), u # v
      PROVE  u[2] # v[2]
  <2>1. CASE \E r \in Roles : u = <<r, c.role[r]>> /\ c.role[r] # Disabled
    BY <1>1, <1>3, <1>4, <1>6, <2>1
  <2>2. CASE c.psu.enabled /\ (u = <<"sda", c.psu.sda>> \/ u = <<"scl", c.psu.scl>>)
    BY <1>1, <1>2, <1>3, <1>4, <1>6, <2>2
  <2>3. CASE \E i \in ButtonSlots : c.buttons[i].enabled /\ u = <<i, c.buttons[i].gpio>>
    BY <1>3, <1>4, <1>6, <2>3
  <2>. QED BY <1>4, <2>1, <2>2, <2>3
<1>. QED BY <1>5, <1>6 DEF PinsAreApart

(* Validation implies what the other components count on.                   *)
LEMMA ValidIsSound ==
    ASSUME SettingsInv
    PROVE  AcceptedIsSound
<1>. DEFINE c == settings
<1>1. c \in Settings /\ Valid(c) BY DEF SettingsInv, SettingsOK
<1>2. PinsAreApart(c) BY <1>1, ValidPinsAreApart
<1>3. c.configured => RolesAreWired(c)
  BY <1>1 DEF Valid, Complete, RequiredRoles, RolesAreWired, Sensing, Strategies, Settings
<1>4. TimingIsSafe(c)
  <2>1. /\ c.timing.pulse \in Nat /\ c.timing.forceOff \in Nat
        /\ c.timing.start \in Nat /\ c.timing.shutdown \in Nat
    BY <1>1, SettingsAssumption DEF Settings, Timing
  <2>2. \A i \in ButtonSlots : c.buttons[i].debounce \in Nat /\ c.buttons[i].long \in Nat
    BY <1>1, SettingsAssumption DEF Settings, Button
  <2>3. /\ c.timing.pulse > 0 /\ c.timing.forceOff > 0
        /\ c.timing.start > c.timing.pulse /\ c.timing.shutdown > c.timing.pulse
    BY <1>1, <2>1, SettingsAssumption DEF Valid, TimingOK
  <2>4. ASSUME NEW i \in ButtonSlots, c.buttons[i].enabled
        PROVE  c.buttons[i].debounce > 0 /\ c.buttons[i].long > c.buttons[i].debounce
    <3>1. ButtonOK(c, i) BY <1>1, <2>4 DEF Valid
    <3>2. c.buttons[i].debounce # 0 /\ c.buttons[i].long > c.buttons[i].debounce BY <3>1 DEF ButtonOK
    <3>3. c.buttons[i].debounce \in Nat BY <2>2
    <3>. QED BY <3>2, <3>3
  <2>. QED BY <2>3, <2>4 DEF TimingIsSafe
<1>5. c.profile \in Radios /\ (c.mqtt # "off" => c.profile = "wifi")
  BY <1>1 DEF Valid
<1>6. ASSUME ~Warned(c), NEW u \in Uses(c)
      PROVE  u[2] \in SafePins
  <2>1. u[2] \notin BlockedPins BY <1>2 DEF PinsAreApart
  <2>2. u[2] # Disabled
    <3>1. c.psu.enabled => Disabled \notin {c.psu.sda, c.psu.scl} BY <1>1 DEF Valid, FixedPinsOK
    <3>2. \A i \in ButtonSlots : c.buttons[i].enabled => c.buttons[i].gpio # Disabled
      BY <1>1 DEF Valid, ButtonOK
    <3>. QED BY <3>1, <3>2 DEF Uses
  <2>3. u[2] \in {c.role[r] : r \in Roles}
                 \cup (IF c.psu.enabled THEN {c.psu.sda, c.psu.scl} ELSE {})
                 \cup {c.buttons[i].gpio : i \in {b \in ButtonSlots : c.buttons[b].enabled}}
    BY DEF Uses
  <2>. QED BY <1>6, <2>1, <2>2, <2>3 DEF Warned
<1>. QED BY <1>2, <1>3, <1>4, <1>5, <1>6 DEF AcceptedIsSound

(* For any target, pins, buttons and sequence of edits, saves and discards, *)
(* the running settings are those the other components count on.            *)
THEOREM AcceptedSound == Spec => []AcceptedIsSound
BY SettingsAlways, ValidIsSound, PTL

-------------------------------------------------------------------------------
(* The bus.                                                                 *)

(* The wires of a bus are in no other role.                                 *)
Elsewhere(b) ==
    b.driver # "none" =>
        \A u \in Uses([settings EXCEPT !.psu.enabled = FALSE]) : u[2] \notin {b.sda, b.scl}

LEMMA CheckedPinsAreElsewhere ==
    ASSUME SettingsOK, NEW sda \in Gpio, NEW scl \in Gpio, I2cPinsOK(settings, sda, scl)
    PROVE  \A u \in Uses([settings EXCEPT !.psu.enabled = FALSE]) : u[2] \notin {sda, scl}
<1>. DEFINE c == [settings EXCEPT !.psu.enabled = FALSE]
<1>1. c.psu.enabled = FALSE BY DEF SettingsOK, Settings, Psu
<1>2. Disabled \notin {sda, scl} /\ ~PinInUse(c, sda, {}) /\ ~PinInUse(c, scl, {})
  BY DEF I2cPinsOK
<1>. HIDE DEF c
<1>3. \A g \in {sda, scl} : /\ \A r \in Roles : c.role[r] # g
                            /\ \A b \in ButtonSlots : c.buttons[b].enabled => c.buttons[b].gpio # g
  BY <1>2 DEF PinInUse
<1>4. \A u \in Uses(c) : u[2] \notin {sda, scl} BY <1>1, <1>3 DEF Uses
<1>. QED BY <1>4 DEF c

(* Taking and releasing a bus moves no wires; a temporary bus ends with its *)
(* release.                                                                 *)
BusRecord == [owner : Scanners \cup {"none", "psu"}, driver : {"none", "kept", "temporary"},
              sda : Gpio, scl : Gpio]

LEMMA TakingIsSafe ==
    ASSUME NEW b \in BusRecord, NEW t \in Scanners \cup {"psu"}
    PROVE  /\ Taken(b, t) \in BusRecord /\ Taken(b, t).owner = t
           /\ Taken(b, t).driver = b.driver
           /\ Elsewhere(b) => Elsewhere(Taken(b, t))
BY DEF BusRecord, Taken, Elsewhere

LEMMA WiringIsSafe ==
    ASSUME NEW b \in BusRecord, NEW d \in {"kept", "temporary"}, NEW sda \in Gpio, NEW scl \in Gpio
    PROVE  /\ [b EXCEPT !.driver = d, !.sda = sda, !.scl = scl] \in BusRecord
           /\ [b EXCEPT !.driver = d, !.sda = sda, !.scl = scl].owner = b.owner
           /\ [b EXCEPT !.driver = d, !.sda = sda, !.scl = scl].driver = d
           /\ [b EXCEPT !.driver = d, !.sda = sda, !.scl = scl].sda = sda
           /\ [b EXCEPT !.driver = d, !.sda = sda, !.scl = scl].scl = scl
BY DEF BusRecord

LEMMA ReleasingIsSafe ==
    ASSUME NEW b \in BusRecord
    PROVE  /\ Released(b) \in BusRecord /\ Released(b).owner = "none"
           /\ Released(b).driver # "temporary"
           /\ Elsewhere(b) => Elsewhere(Released(b))
<1>1. NoBus \in BusRecord /\ NoBus.owner = "none" /\ NoBus.driver = "none" /\ Elsewhere(NoBus)
  BY DEF NoBus, BusRecord, Gpio, Elsewhere
<1>2. CASE b.driver = "temporary" BY <1>1, <1>2 DEF Released
<1>3. CASE b.driver # "temporary" BY <1>3 DEF Released, BusRecord, Elsewhere
<1>. QED BY <1>2, <1>3

(* Types of PSU task and bus.                                               *)
PassRecord == [reg : 1 .. Registers, tried : BOOLEAN, failed : BOOLEAN]
FruRecord == [at : 0 .. Eeproms, left : SUBSET (1 .. Eeproms), chunk : 1 .. Chunks,
              tried : BOOLEAN, captured : 0 .. Eeproms]
StatusRecord == [available : BOOLEAN, sampled : BOOLEAN, sample : [1 .. Registers -> 0 .. Registers],
                 eepromAt : 0 .. Eeproms, eeprom : [1 .. Chunks -> 0 .. Eeproms]]
Readings == [1 .. Registers -> 0 .. Registers]
EepromBytes == [1 .. Chunks -> 0 .. Eeproms]

(* A set of addresses that is not empty has a largest.                      *)
LEMMA LargestExists ==
    ASSUME NEW S \in SUBSET (1 .. Eeproms), S # {}
    PROVE  Max(S) \in S
<1>. DEFINE T == {Eeproms - x : x \in S}
<1>1. Eeproms \in Nat BY PsuAssumption
<1>2. T \subseteq Nat /\ T # {}
  <2>1. ASSUME NEW x \in S PROVE Eeproms - x \in Nat BY <1>1
  <2>2. PICK x \in S : TRUE OBVIOUS
  <2>3. Eeproms - x \in T BY <2>2
  <2>. QED BY <2>1, <2>3
<1>3. \E m \in T : \A n \in T : <<n, m>> \notin OpToRel(<, Nat)
  <2>. HIDE DEF T
  <2>. QED BY <1>2, NatLessThanWellFounded, WFMin
<1>4. PICK m \in T : \A n \in T : ~(n < m) BY <1>2, <1>3 DEF OpToRel
<1>5. PICK x \in S : m = Eeproms - x BY <1>4
<1>6. \A y \in S : x >= y BY <1>1, <1>4, <1>5
<1>. QED BY <1>6 DEF Max

LEMMA NextAddressIsLeft ==
    ASSUME fru \in FruRecord, fru.left # {}
    PROVE  NextAddress \in fru.left /\ NextAddress \in 1 .. Eeproms
BY LargestExists DEF FruRecord, NextAddress

(* Chunks are read from an address that has answered.                       *)
PsuTypes == BusOK /\ PsuOK /\ (psuPc = "chunks" => fru.at # 0)

LEMMA PassUpdates ==
    ASSUME NEW p \in PassRecord
    PROVE  /\ \A b \in BOOLEAN : [p EXCEPT !.failed = b] \in PassRecord
           /\ \A b \in BOOLEAN : [p EXCEPT !.tried = b] \in PassRecord
           /\ p.reg < Registers => [p EXCEPT !.reg = @ + 1] \in PassRecord
           /\ Renewed \in PassRecord
BY BusAssumption DEF PassRecord, Renewed, NewPass

LEMMA FruUpdates ==
    ASSUME NEW f \in FruRecord, NEW a \in 1 .. Eeproms
    PROVE  /\ [f EXCEPT !.left = @ \ {a}] \in FruRecord
           /\ [f EXCEPT !.at = a, !.left = @ \ {a}, !.chunk = 1, !.tried = FALSE] \in FruRecord
           /\ f.chunk < Chunks => [f EXCEPT !.chunk = @ + 1] \in FruRecord
           /\ [f EXCEPT !.captured = f.at] \in FruRecord
           /\ [f EXCEPT !.tried = TRUE, !.chunk = 1] \in FruRecord
<1>1. [f EXCEPT !.left = @ \ {a}] \in FruRecord BY DEF FruRecord
<1>. 1 \in 1 .. Chunks BY PsuAssumption
<1>2. [f EXCEPT !.at = a, !.left = @ \ {a}, !.chunk = 1, !.tried = FALSE] \in FruRecord
  <2>1. a \in 0 .. Eeproms /\ f.left \ {a} \in SUBSET (1 .. Eeproms) BY DEF FruRecord
  <2>. QED BY <2>1 DEF FruRecord
<1>3. f.chunk < Chunks => [f EXCEPT !.chunk = @ + 1] \in FruRecord BY PsuAssumption DEF FruRecord
<1>4. [f EXCEPT !.captured = f.at] \in FruRecord BY DEF FruRecord
<1>5. [f EXCEPT !.tried = TRUE, !.chunk = 1] \in FruRecord BY DEF FruRecord
<1>. QED BY <1>1, <1>2, <1>3, <1>4, <1>5

LEMMA PsuStepsKeepTypes ==
    ASSUME PsuTypes, PsuTask \/ PsuNotify
    PROVE  PsuTypes'
<1>. USE BusAssumption, PsuAssumption
<1>1. /\ bus \in BusRecord /\ line \in Lines /\ asked \in 0 .. Registers
      /\ scan \in [Scanners -> {"idle", "sweep", "blocked"}]
      /\ pass \in PassRecord /\ raw \in Readings /\ fru \in FruRecord /\ buffer \in EepromBytes
      /\ knownAt \in 1 .. Eeproms /\ status \in StatusRecord /\ fitted \subseteq 1 .. Eeproms
  BY DEF PsuTypes, BusOK, PsuOK, BusRecord, PassRecord, Readings, FruRecord, EepromBytes, StatusRecord
<1>2. psuPc' \in {"lock", "write", "read", "publish", "identify", "probe", "chunks", "identified", "notify", "rest"}
  BY DEF PsuTask, PsuNotify, PsuLock, PsuWrite, PsuRead, PsuPublish, Identify, IdProbe, IdRead,
         PublishIdentity, PsuRest, GiveUp, TimedOut, Identified
<1>3. bus' \in BusRecord
  <2>1. bus' \in {bus, Taken(bus, "psu"), Released(bus)}
    BY DEF PsuTask, PsuNotify, PsuLock, PsuWrite, PsuRead, PsuPublish, Identify, IdProbe, IdRead,
           PublishIdentity, PsuRest, GiveUp, TimedOut, Identified, busVars
  <2>. QED BY <1>1, <2>1, TakingIsSafe, ReleasingIsSafe
<1>4. line' \in Lines /\ scan' = scan /\ fitted' = fitted
  BY <1>1 DEF PsuTask, PsuNotify, PsuLock, PsuWrite, PsuRead, PsuPublish, Identify, IdProbe, IdRead,
         PublishIdentity, PsuRest, GiveUp, TimedOut, Identified, busVars, psuLocals, Reset, Lines
<1>5. /\ asked' \in 0 .. Registers /\ pass' \in PassRecord
  <2>1. asked' \in {asked, 0, pass.reg}
    BY DEF PsuTask, PsuNotify, PsuLock, PsuWrite, PsuRead, PsuPublish, Identify, IdProbe, IdRead,
           PublishIdentity, PsuRest, busVars
  <2>2. \/ pass' \in {pass, Renewed}
        \/ \E b \in BOOLEAN : pass' = [pass EXCEPT !.failed = b] \/ pass' = [pass EXCEPT !.tried = b]
        \/ pass.reg < Registers /\ pass' = [pass EXCEPT !.reg = @ + 1]
    BY DEF PsuTask, PsuNotify, PsuLock, PsuWrite, PsuRead, PsuPublish, Identify, IdProbe, IdRead,
           PublishIdentity, PsuRest, GiveUp, TimedOut
  <2>3. pass.reg \in 0 .. Registers BY <1>1 DEF PassRecord
  <2>4. pass' \in PassRecord BY <1>1, <2>2, PassUpdates
  <2>5. asked' \in 0 .. Registers BY <1>1, <2>1, <2>3
  <2>. QED BY <2>4, <2>5
<1>6. raw' \in Readings
  BY <1>1 DEF PsuTask, PsuNotify, PsuLock, PsuWrite, PsuRead, PsuPublish, Identify, IdProbe, IdRead,
         PublishIdentity, PsuRest, Readings, PassRecord, Unread
<1>7. status' \in StatusRecord
  <2>1. \/ status' = status
        \/ status' = [status EXCEPT !.available = FALSE]
        \/ status' = [status EXCEPT !.available = TRUE, !.sampled = TRUE, !.sample = raw]
        \/ status' = [status EXCEPT !.eepromAt = fru.captured, !.eeprom = buffer]
    BY DEF PsuTask, PsuNotify, PsuLock, PsuWrite, PsuRead, PsuPublish, Identify, IdProbe, IdRead,
           PublishIdentity, PsuRest, Published
  <2>2. fru.captured \in 0 .. Eeproms BY <1>1 DEF FruRecord
  <2>. QED BY <1>1, <2>1, <2>2 DEF StatusRecord, Readings, EepromBytes
<1>8. fru' \in FruRecord /\ knownAt' \in 1 .. Eeproms /\ buffer' \in EepromBytes
  <2>1. NoFru \in FruRecord /\ NoChunks \in EepromBytes
    BY DEF NoFru, FruRecord, NoChunks, EepromBytes
  <2>2. CASE Identify BY <1>1, <2>1, <2>2 DEF Identify, FruRecord, NoFru
  <2>3. CASE IdProbe
    <3>1. fru.left # {} => NextAddress \in 1 .. Eeproms BY <1>1, NextAddressIsLeft
    <3>2. \/ fru' = fru
          \/ fru.left # {} /\ fru' = [fru EXCEPT !.left = @ \ {NextAddress}]
          \/ fru.left # {} /\ fru' = [fru EXCEPT !.at = NextAddress, !.left = @ \ {NextAddress},
                                                 !.chunk = 1, !.tried = FALSE]
      BY <2>3 DEF IdProbe
    <3>3. ASSUME NEW a \in 1 .. Eeproms
          PROVE  /\ [fru EXCEPT !.left = @ \ {a}] \in FruRecord
                 /\ [fru EXCEPT !.at = a, !.left = @ \ {a}, !.chunk = 1, !.tried = FALSE] \in FruRecord
      BY <1>1, FruUpdates
    <3>4. fru' \in FruRecord BY <1>1, <3>1, <3>2, <3>3
    <3>. QED BY <1>1, <2>3, <3>4 DEF IdProbe
  <2>4. CASE IdRead
    <3>1. fru.chunk \in 1 .. Chunks /\ fru.at \in 0 .. Eeproms BY <1>1 DEF FruRecord
    <3>2. \/ fru' = fru
          \/ fru.chunk < Chunks /\ fru' = [fru EXCEPT !.chunk = @ + 1]
          \/ fru' = [fru EXCEPT !.captured = fru.at]
          \/ fru' = [fru EXCEPT !.tried = TRUE, !.chunk = 1]
      BY <2>4 DEF IdRead
    <3>3. fru' \in FruRecord
      <4>1. 1 \in 1 .. Eeproms BY PsuAssumption
      <4>2. CASE fru.chunk < Chunks /\ fru' = [fru EXCEPT !.chunk = @ + 1]
        BY <1>1, <4>1, <4>2, FruUpdates
      <4>3. CASE ~(fru.chunk < Chunks /\ fru' = [fru EXCEPT !.chunk = @ + 1])
        <5>1. \/ fru' \in {fru, [fru EXCEPT !.captured = fru.at]}
              \/ fru' = [fru EXCEPT !.tried = TRUE, !.chunk = 1]
          BY <3>2, <4>3
        <5>. QED BY <1>1, <4>1, <5>1, FruUpdates
      <4>. QED BY <4>2, <4>3
    <3>4. buffer' \in {buffer, [buffer EXCEPT ![fru.chunk] = fru.at]} /\ knownAt' \in {knownAt, fru.at}
      BY <2>4 DEF IdRead
    <3>5. fru.at # 0 BY <2>4 DEF IdRead, PsuTypes
    <3>6. buffer' \in EepromBytes BY <1>1, <3>1, <3>4 DEF EepromBytes
    <3>. QED BY <1>1, <3>1, <3>3, <3>4, <3>5, <3>6
  <2>5. CASE PublishIdentity BY <1>1, <2>1, <2>5 DEF PublishIdentity
  <2>6. CASE UNCHANGED psuLocals BY <1>1, <2>6 DEF psuLocals
  <2>. QED
    BY <2>2, <2>3, <2>4, <2>5, <2>6
    DEF PsuTask, PsuNotify, PsuLock, PsuWrite, PsuRead, PsuPublish, PsuRest
<1>9. psuPc' = "chunks" => fru'.at # 0
  <2>1. CASE IdProbe
    <3>1. fru.left # {} => NextAddress \in 1 .. Eeproms BY <1>1, NextAddressIsLeft
    <3>2. psuPc' = "chunks" => fru.left # {} /\ fru' = [fru EXCEPT !.at = NextAddress, !.left = @ \ {NextAddress},
                                                 !.chunk = 1, !.tried = FALSE]
      BY <2>1 DEF IdProbe, Identified
    <3>3. \A a \in 1 .. Eeproms : [fru EXCEPT !.at = a, !.left = @ \ {a}, !.chunk = 1, !.tried = FALSE].at # 0
      BY <1>1 DEF FruRecord
    <3>. QED BY <3>1, <3>2, <3>3
  <2>2. CASE IdRead
    <3>1. fru'.at = fru.at BY <1>1, <2>2 DEF IdRead, FruRecord
    <3>. QED BY <2>2, <3>1 DEF IdRead, PsuTypes
  <2>3. CASE ~IdProbe /\ ~IdRead
    BY <2>3 DEF PsuTask, PsuNotify, PsuLock, PsuWrite, PsuRead, PsuPublish, Identify,
       PublishIdentity, PsuRest, GiveUp, TimedOut
  <2>. QED BY <2>1, <2>2, <2>3
<1>. QED
  BY <1>1, <1>2, <1>3, <1>4, <1>5, <1>6, <1>7, <1>8, <1>9
  DEF PsuTypes, BusOK, PsuOK, BusRecord, PassRecord, Readings, FruRecord, EepromBytes, StatusRecord

(* Nobody is on the bus before PSU monitoring has started or not.           *)
BusInv ==
    /\ BusOK /\ BusIsShared
    /\ scenario # "bus" => psuPc = "boot"
    /\ psuPc = "boot" => bus = NoBus /\ \A t \in Scanners : scan[t] = "idle"

(* The task on the bus is the one that says so.                             *)
OnIt == psuPc \in {"write", "read", "probe", "chunks"}
OnItNext == psuPc' \in {"write", "read", "probe", "chunks"}

LEMMA PsuStepsKeepBus ==
    ASSUME BusInv, BusOK', scenario = "bus", UNCHANGED <<scenario, settingsVars>>, PsuTask \/ PsuNotify
    PROVE  BusInv'
<1>. USE BusAssumption
<1>1. bus \in BusRecord BY DEF BusInv, BusOK, BusRecord
<1>2. /\ psuPc # "boot" /\ psuPc' # "boot" /\ scan' = scan
  BY DEF PsuTask, PsuNotify, PsuLock, PsuWrite, PsuRead, PsuPublish, Identify, IdProbe, IdRead,
         PublishIdentity, PsuRest, GiveUp, TimedOut, Identified, busVars
<1>4. \/ bus.owner = "none" /\ ~OnIt /\ OnItNext /\ bus' = Taken(bus, "psu")
      \/ OnIt /\ ~OnItNext /\ bus' = Released(bus)
      \/ (OnIt <=> OnItNext) /\ bus' = bus
  BY DEF PsuTask, PsuNotify, PsuLock, PsuWrite, PsuRead, PsuPublish, Identify, IdProbe, IdRead,
         PublishIdentity, PsuRest, GiveUp, TimedOut, Identified, busVars, Free, OnIt, OnItNext
<1>5. /\ Elsewhere(bus) /\ (OnIt <=> bus.owner = "psu")
      /\ \A t \in Scanners : scan[t] # "idle" <=> bus.owner = t
      /\ bus.driver = "temporary" => bus.owner \in Scanners
  BY DEF BusInv, BusIsShared, ScansKeepApart, PsuKeepsApart, OnIt, Elsewhere
<1>6. /\ bus' \in BusRecord /\ Elsewhere(bus') /\ (OnItNext <=> bus'.owner = "psu")
      /\ \A t \in Scanners : scan[t] # "idle" <=> bus'.owner = t
      /\ bus'.driver = "temporary" => bus'.owner \in Scanners
  BY <1>1, <1>4, <1>5, TakingIsSafe, ReleasingIsSafe
<1>. QED
  BY <1>2, <1>6
  DEF BusInv, BusRecord, BusIsShared, ScansKeepApart, PsuKeepsApart, OnItNext, Elsewhere, settingsVars

(* Boot and scans, and the readings of the reporters' scenarios.            *)
LEMMA OthersKeepTypes ==
    ASSUME PsuTypes, SettingsOK,
           \/ PsuStart
           \/ \E t \in Scanners : (ScanStart(t) \/ ScanProbe(t) \/ ScanEnd(t)) /\ UNCHANGED psuVars
           \/ WiresChange /\ UNCHANGED psuVars
    PROVE  PsuTypes'
<1>. USE BusAssumption, SettingsAssumption
<1>1. bus \in BusRecord /\ line \in Lines /\ asked \in 0 .. Registers /\ scan \in [Scanners -> {"idle", "sweep", "blocked"}]
  BY DEF PsuTypes, BusOK, BusRecord
<1>2. CASE PsuStart
  <2>1. bus' \in BusRecord
    <3>1. settings.psu.sda \in Gpio /\ settings.psu.scl \in Gpio BY DEF SettingsOK, Settings, Psu
    <3>2. \A sda, scl \in Gpio : [bus EXCEPT !.driver = "kept", !.sda = sda, !.scl = scl] \in BusRecord
      BY <1>1, WiringIsSafe
    <3>3. bus' = bus \/ bus' = [bus EXCEPT !.driver = "kept", !.sda = settings.psu.sda, !.scl = settings.psu.scl]
      BY <1>2 DEF PsuStart, BusStart
    <3>4. [bus EXCEPT !.driver = "kept", !.sda = settings.psu.sda, !.scl = settings.psu.scl] \in BusRecord
      BY <3>1, <3>2
    <3>. QED BY <1>1, <3>3, <3>4
  <2>2. psuPc' \in {"off", "lock"} BY <1>2 DEF PsuStart
  <2>. QED BY <1>1, <1>2, <2>1, <2>2 DEF PsuStart, PsuTypes, BusOK, PsuOK, BusRecord, psuLocals
<1>3. ASSUME NEW t \in Scanners, ScanStart(t) \/ ScanProbe(t) \/ ScanEnd(t), UNCHANGED psuVars
      PROVE  PsuTypes'
  <2>1. scan' \in [Scanners -> {"idle", "sweep", "blocked"}] BY <1>1, <1>3 DEF ScanStart, ScanProbe, ScanEnd
  <2>2. asked' \in {asked, 0} /\ line' \in {line, "good"}
    BY <1>3 DEF ScanStart, ScanProbe, ScanEnd, Reset
  <2>3. bus' \in BusRecord
    <3>1. \A sda, scl \in Gpio : [bus EXCEPT !.driver = "temporary", !.sda = sda, !.scl = scl] \in BusRecord
      BY <1>1, WiringIsSafe
    <3>2. CASE ScanStart(t)
      <4>1. PICK pins \in ScanPins :
               bus' \in {Taken(bus, t), Taken([bus EXCEPT !.driver = "temporary", !.sda = pins[1], !.scl = pins[2]], t)}
        BY <3>2 DEF ScanStart
      <4>2. pins[1] \in Gpio /\ pins[2] \in Gpio BY DEF Gpio
      <4>3. [bus EXCEPT !.driver = "temporary", !.sda = pins[1], !.scl = pins[2]] \in BusRecord
        BY <3>1, <4>2
      <4>4. \A b \in BusRecord : Taken(b, t) \in BusRecord BY TakingIsSafe
      <4>. QED BY <1>1, <4>1, <4>3, <4>4
    <3>3. CASE ~ScanStart(t) BY <1>1, <1>3, <3>3, ReleasingIsSafe DEF ScanProbe, ScanEnd
    <3>. QED BY <3>2, <3>3
  <2>4. asked' \in 0 .. Registers /\ line' \in Lines BY <1>1, <2>2 DEF Lines
  <2>5. PsuOK' /\ (psuPc' = "chunks" => fru'.at # 0) BY <1>3 DEF PsuTypes, PsuOK, psuVars
  <2>. QED BY <2>1, <2>3, <2>4, <2>5 DEF PsuTypes, BusOK, BusRecord
<1>4. CASE WiresChange /\ UNCHANGED psuVars
  <2>1. PsuOK' /\ (psuPc' = "chunks" => fru'.at # 0) BY <1>4 DEF PsuTypes, PsuOK, psuVars
  <2>2. BusOK' BY <1>4 DEF WiresChange, PsuTypes, BusOK
  <2>. QED BY <2>1, <2>2 DEF PsuTypes
<1>. QED BY <1>2, <1>3, <1>4

LEMMA SampleKeepsTypes ==
    ASSUME PsuTypes, Sample
    PROVE  PsuTypes'
<1>1. status \in StatusRecord BY DEF PsuTypes, PsuOK, StatusRecord
<1>2. [r \in 1 .. Registers |-> r] \in Readings BY BusAssumption DEF Readings
<1>3. status' \in StatusRecord BY <1>1, <1>2 DEF Sample, StatusRecord, Readings
<1>. QED BY <1>3 DEF Sample, PsuTypes, PsuOK, BusOK, StatusRecord, busVars, psuLocals

LEMMA PsuTypesKept ==
    ASSUME SettingsInv, PsuTypes, [Next]_vars
    PROVE  PsuTypes'
<1>1. CASE PsuStep BY <1>1, PsuStepsKeepTypes DEF PsuStep, OnBus
<1>2. CASE PsuBoot \/ Wires \/ \E t \in Scanners : Scanning(t) \/ Swept(t)
  BY <1>2, OthersKeepTypes DEF PsuBoot, Wires, Scanning, Swept, OnBus, SettingsInv
<1>3. CASE Sample BY <1>3, SampleKeepsTypes
<1>4. CASE UNCHANGED <<busVars, psuVars>>
  BY <1>4 DEF busVars, psuVars, PsuTypes, BusOK, PsuOK
<1>. QED
  BY <1>1, <1>2, <1>3, <1>4 DEF Next, vars, Shell, MqttStep, MqttClient, MqttFlags, MqttDeliver, MqttNetwork,
     OnWifi, ZigbeeSignal, ZigbeeRequest, ZigbeeCallback, ZigbeeRadio, PsuTells, OnZigbee

LEMMA PsuTypesAtFirst ==
    ASSUME Init
    PROVE  PsuTypes
BY BusAssumption, PsuAssumption DEF Init, BusInit, PsuInit, PsuTypes, BusOK, PsuOK, NoBus, Gpio,
   NewPass, Unread, NoFru, NoChunks

LEMMA ScansKeepBus ==
    ASSUME BusInv, SettingsOK, NEW t \in Scanners, psuPc # "boot", UNCHANGED <<scenario, settingsVars, psuVars>>,
           BusOK', scenario = "bus", ScanStart(t) \/ ScanProbe(t) \/ ScanEnd(t)
    PROVE  BusInv'
<1>. USE BusAssumption
<1>1. /\ bus \in BusRecord /\ scan \in [Scanners -> {"idle", "sweep", "blocked"}]
      /\ Elsewhere(bus) /\ (OnIt <=> bus.owner = "psu")
      /\ \A s \in Scanners : scan[s] # "idle" <=> bus.owner = s
      /\ bus.driver = "temporary" => bus.owner \in Scanners
  BY DEF BusInv, BusOK, BusRecord, BusIsShared, ScansKeepApart, PsuKeepsApart, OnIt, Elsewhere
<1>2. CASE ScanStart(t)
  <2>1. PICK pins \in ScanPins :
           /\ I2cPinsOK(settings, pins[1], pins[2])
           /\ \/ bus' = Taken(bus, t)
              \/ bus' = Taken([bus EXCEPT !.driver = "temporary", !.sda = pins[1], !.scl = pins[2]], t)
    BY <1>2 DEF ScanStart
  <2>2. pins[1] \in Gpio /\ pins[2] \in Gpio BY DEF Gpio
  <2>. DEFINE wired == [bus EXCEPT !.driver = "temporary", !.sda = pins[1], !.scl = pins[2]]
  <2>3. /\ wired \in BusRecord /\ wired.driver = "temporary" /\ wired.sda = pins[1] /\ wired.scl = pins[2]
    <3>1. wired \in BusRecord
      <4>1. \A sda, scl \in Gpio : [bus EXCEPT !.driver = "temporary", !.sda = sda, !.scl = scl] \in BusRecord
        BY <1>1, WiringIsSafe
      <4>. QED BY <2>2, <4>1
    <3>. QED BY <1>1, <3>1 DEF BusRecord
  <2>. HIDE DEF wired
  <2>4. Elsewhere(wired) BY <2>1, <2>2, <2>3, CheckedPinsAreElsewhere DEF Elsewhere
  <2>5. bus' = Taken(bus, t) \/ bus' = Taken(wired, t) BY <2>1 DEF wired
  <2>6. bus'.owner = t /\ Elsewhere(bus') BY <1>1, <2>3, <2>4, <2>5, TakingIsSafe
  <2>7. bus.owner = "none" /\ \E s \in {"sweep", "blocked"} : scan' = [scan EXCEPT ![t] = s]
    BY <1>2 DEF ScanStart, Free
  <2>8. \A s \in Scanners : scan'[s] # "idle" <=> s = t BY <1>1, <2>7
  <2>9. ~OnIt BY <1>1, <2>7
  <2>. QED
    BY <1>1, <2>6, <2>8, <2>9
    DEF BusInv, BusIsShared, ScansKeepApart, PsuKeepsApart, OnIt, Elsewhere, settingsVars, psuVars
<1>3. CASE ScanProbe(t)
  BY <1>3 DEF ScanProbe, BusInv, BusIsShared, ScansKeepApart, PsuKeepsApart, settingsVars, psuVars
<1>4. CASE ScanEnd(t)
  <2>1. bus.owner = t /\ bus' = Released(bus) /\ scan' = [scan EXCEPT ![t] = "idle"]
    BY <1>1, <1>4 DEF ScanEnd
  <2>2. bus'.owner = "none" /\ bus'.driver # "temporary" /\ Elsewhere(bus')
    BY <1>1, <2>1, ReleasingIsSafe
  <2>3. \A s \in Scanners : scan'[s] = "idle" BY <1>1, <2>1
  <2>4. ~OnIt BY <1>1, <2>1
  <2>. QED
    BY <2>2, <2>3, <2>4
    DEF BusInv, BusIsShared, ScansKeepApart, PsuKeepsApart, OnIt, Elsewhere, settingsVars, psuVars
<1>. QED BY <1>2, <1>3, <1>4

LEMMA BootKeepsBus ==
    ASSUME BusInv, SettingsOK, UNCHANGED <<scenario, settingsVars>>, BusOK', scenario = "bus", PsuStart
    PROVE  BusInv'
<1>1. bus = NoBus /\ scan' = scan /\ \A t \in Scanners : scan[t] = "idle" BY DEF BusInv, PsuStart
<1>2. psuPc' \in {"off", "lock"} BY DEF PsuStart
<1>3. CASE bus' = bus
  BY <1>1, <1>2, <1>3, BusAssumption
  DEF NoBus, BusInv, BusIsShared, ScansKeepApart, PsuKeepsApart
<1>4. CASE bus' # bus
  <2>. DEFINE sda == settings.psu.sda
              scl == settings.psu.scl
  <2>1. I2cPinsOK(settings, sda, scl) /\ sda \in Gpio /\ scl \in Gpio
    BY <1>4 DEF PsuStart, SettingsOK, Settings, Psu
  <2>2. bus' = [owner |-> "none", driver |-> "kept", sda |-> sda, scl |-> scl]
    BY <1>1, <1>4 DEF PsuStart, BusStart, NoBus
  <2>3. \A u \in Uses([settings EXCEPT !.psu.enabled = FALSE]) : u[2] \notin {sda, scl}
    BY <2>1, CheckedPinsAreElsewhere
  <2>. QED
    BY <1>1, <1>2, <2>2, <2>3, BusAssumption
    DEF BusInv, BusIsShared, ScansKeepApart, PsuKeepsApart, settingsVars
<1>. QED BY <1>3, <1>4

LEMMA BusKept ==
    ASSUME SettingsInv, PsuTypes', BusInv, [Next]_vars
    PROVE  BusInv'
<1>. BusOK' BY DEF PsuTypes
<1>. SettingsOK BY DEF SettingsInv
<1>1. CASE PsuStep BY <1>1, PsuStepsKeepBus DEF PsuStep, OnBus
<1>2. CASE PsuBoot BY <1>2, BootKeepsBus DEF PsuBoot, OnBus
<1>3. CASE Wires
  BY <1>3 DEF Wires, OnBus, WiresChange, BusInv, BusIsShared, ScansKeepApart, PsuKeepsApart, settingsVars, psuVars
<1>4. ASSUME NEW t \in Scanners, Scanning(t) \/ Swept(t) PROVE BusInv'
  <2>1. psuPc # "boot"
    BY <1>4 DEF Scanning, Swept, OnBus, ScanEnd, BusInv
  <2>. QED BY <1>4, <2>1, ScansKeepBus DEF Scanning, Swept, OnBus
<1>5. CASE Shell
  <2>1. bus = NoBus /\ UNCHANGED <<scenario, busVars, psuVars>> BY <1>5 DEF Shell, BusInv
  <2>. QED BY <2>1 DEF BusInv, BusIsShared, ScansKeepApart, PsuKeepsApart, NoBus, busVars, psuVars
<1>6. CASE UNCHANGED <<scenario, settingsVars, busVars, psuPc>>
  BY <1>6 DEF BusInv, BusIsShared, ScansKeepApart, PsuKeepsApart, busVars, settingsVars
<1>. QED
  BY <1>1, <1>2, <1>3, <1>4, <1>5, <1>6 DEF Next, vars, Sample, MqttStep, MqttClient, MqttFlags, MqttDeliver,
     MqttNetwork, OnWifi, ZigbeeSignal, ZigbeeRequest, ZigbeeCallback, ZigbeeRadio, PsuTells, OnZigbee, psuVars

LEMMA BusAlways == Spec => [](SettingsInv /\ PsuTypes /\ BusInv)
<1>1. Init => BusInv
  BY PsuTypesAtFirst, BusAssumption
  DEF Init, BusInit, PsuInit, BusInv, PsuTypes, BusIsShared, ScansKeepApart, PsuKeepsApart, NoBus
<1>. QED BY <1>1, SettingsAlways, PsuTypesAtFirst, PsuTypesKept, BusKept, PTL DEF Spec

(* For any number of scanners, any wires and whatever they are asked to     *)
(* scan, one task at a time has the bus, a temporary bus ends with its      *)
(* scan, and none is driven on pins of another role.                        *)
THEOREM BusShared == Spec => []BusIsShared
BY BusAlways, PTL DEF BusInv

-------------------------------------------------------------------------------
(* What is published.                                                       *)

(* A pass has read what it should as far as it has come.                    *)
PassRight ==
    /\ psuPc \in {"lock", "write", "read"} => \A r \in 1 .. Registers : r < pass.reg => raw[r] = r
    /\ psuPc = "read" => asked = pass.reg
    /\ psuPc = "publish" => pass.failed \/ \A r \in 1 .. Registers : raw[r] = r
    /\ psuPc = "boot" => pass.reg = 1
    /\ SamplesAreWhole

LEMMA PsuStepsKeepPass ==
    ASSUME PsuTypes, PassRight, PsuTask \/ PsuNotify
    PROVE  PassRight'
<1>. USE BusAssumption
<1>1. /\ pass \in PassRecord /\ pass.reg \in 1 .. Registers /\ raw \in Readings /\ status \in StatusRecord
  BY DEF PsuTypes, PsuOK, PassRecord, Readings, StatusRecord
<1>2. SamplesAreWhole'
  <2>1. \/ status'.available = status.available /\ status'.sampled = status.sampled /\ status'.sample = status.sample
        \/ ~status'.available /\ status'.sampled = status.sampled /\ status'.sample = status.sample
        \/ psuPc = "publish" /\ ~pass.failed /\ status'.available /\ status'.sampled /\ status'.sample = raw
    <3>1. CASE PsuPublish BY <1>1, <3>1 DEF PsuPublish, Published, StatusRecord
    <3>2. CASE PublishIdentity BY <1>1, <3>2 DEF PublishIdentity, StatusRecord
    <3>3. CASE status' = status BY <3>3
    <3>. QED
      BY <3>1, <3>2, <3>3 DEF PsuTask, PsuNotify, PsuLock, PsuWrite, PsuRead, Identify, IdProbe, IdRead, PsuRest
  <2>. QED BY <2>1 DEF PassRight, SamplesAreWhole
<1>3. psuPc' # "boot"
  BY DEF PsuTask, PsuNotify, PsuLock, PsuWrite, PsuRead, PsuPublish, Identify, IdProbe, IdRead,
         PublishIdentity, PsuRest, GiveUp, TimedOut, Identified
<1>4. CASE PsuLock
  <2>1. CASE GiveUp
    <3>1. pass'.failed BY <1>1, <2>1 DEF GiveUp, PassRecord
    <3>. QED BY <1>2, <1>3, <2>1, <3>1 DEF GiveUp, PassRight
  <2>2. CASE ~GiveUp
    <3>1. psuPc = "lock" /\ psuPc' = "write" /\ pass'.reg = pass.reg /\ raw' = raw
      BY <1>1, <1>4, <2>2 DEF PsuLock, PassRecord
    <3>. QED BY <1>2, <3>1 DEF PassRight
  <2>. QED BY <2>1, <2>2
<1>5. CASE PsuWrite \/ PsuRead
  <2>1. CASE psuPc' = "publish" /\ pass'.failed BY <1>2, <2>1 DEF PassRight
  <2>2. CASE psuPc' = "write" /\ pass'.reg = pass.reg /\ raw' = raw
    BY <1>2, <1>5, <2>2 DEF PassRight, PsuWrite, PsuRead
  <2>3. CASE psuPc' = "read" /\ pass' = pass /\ raw' = raw /\ asked' = pass.reg
    BY <1>2, <1>5, <2>3 DEF PassRight, PsuWrite, PsuRead
  <2>4. CASE /\ psuPc = "read" /\ raw' = [raw EXCEPT ![pass.reg] = asked]
             /\ \/ pass.reg < Registers /\ pass'.reg = pass.reg + 1 /\ psuPc' = "lock"
                \/ ~(pass.reg < Registers) /\ psuPc' = "publish"
    <3>1. \A r \in 1 .. Registers : r <= pass.reg => raw'[r] = r
      BY <1>1, <2>4 DEF PassRight, Readings
    <3>. QED BY <1>1, <1>2, <2>4, <3>1 DEF PassRight
  <2>5. GiveUp => psuPc' = "publish" /\ pass'.failed BY <1>1 DEF GiveUp, PassRecord
  <2>6. TimedOut /\ ~GiveUp => psuPc' = "write" /\ pass'.reg = pass.reg
    BY <1>1 DEF TimedOut, PassRecord
  <2>7. CASE PsuWrite BY <2>1, <2>2, <2>3, <2>5, <2>6, <2>7 DEF PsuWrite
  <2>8. CASE PsuRead
    <3>1. CASE GiveUp BY <2>1, <2>5, <3>1
    <3>2. CASE TimedOut /\ ~GiveUp /\ raw' = raw BY <2>2, <2>6, <3>2
    <3>3. CASE /\ raw' = [raw EXCEPT ![pass.reg] = asked]
               /\ IF pass.reg < Registers
                  THEN pass' = [pass EXCEPT !.reg = @ + 1] /\ psuPc' = "lock"
                  ELSE psuPc' = "publish" /\ UNCHANGED pass
      <4>1. pass.reg < Registers => pass'.reg = pass.reg + 1 BY <1>1, <3>3 DEF PassRecord
      <4>. QED BY <2>4, <2>8, <3>3, <4>1 DEF PsuRead
    <3>. QED BY <2>8, <3>1, <3>2, <3>3 DEF PsuRead
  <2>. QED BY <1>5, <2>7, <2>8
<1>6. CASE PsuRest
  <2>1. psuPc' = "lock" /\ pass'.reg = 1 BY <1>6 DEF PsuRest, Renewed, NewPass
  <2>. QED BY <1>2, <2>1 DEF PassRight
<1>7. CASE PsuPublish \/ Identify \/ IdProbe \/ IdRead \/ PublishIdentity \/ PsuNotify
  <2>1. psuPc' \notin {"lock", "write", "read", "publish", "boot"}
    BY <1>7 DEF PsuPublish, Identify, IdProbe, IdRead, PublishIdentity, PsuNotify, Identified
  <2>. QED BY <1>2, <2>1 DEF PassRight
<1>. QED BY <1>4, <1>5, <1>6, <1>7 DEF PsuTask

(* The EEPROM addresses involved are those that are fitted.                 *)
EepromRight ==
    /\ fru.at \in fitted \cup {0} /\ fru.captured \in fitted \cup {0}
    /\ \A k \in 1 .. Chunks : buffer[k] \in fitted \cup {0}
    /\ psuPc = "chunks" => \A k \in 1 .. Chunks : k < fru.chunk => buffer[k] # 0
    /\ fru.captured # 0 => \A k \in 1 .. Chunks : buffer[k] # 0
    /\ status.eepromAt \in fitted \cup {0}
    /\ status.eepromAt # 0 => \A k \in 1 .. Chunks : status.eeprom[k] \in fitted

LEMMA PsuStepsKeepEeprom ==
    ASSUME PsuTypes, PsuTypes', EepromRight, PsuTask \/ PsuNotify
    PROVE  EepromRight'
<1>. USE PsuAssumption
<1>1. /\ fru \in FruRecord /\ buffer \in EepromBytes /\ status \in StatusRecord
      /\ fitted \subseteq 1 .. Eeproms /\ fitted' = fitted
  BY DEF PsuTypes, PsuOK, FruRecord, EepromBytes, StatusRecord, PsuTask, PsuNotify, PsuLock, PsuWrite, PsuRead,
         PsuPublish, Identify, IdProbe, IdRead, PublishIdentity, PsuRest, psuLocals
<1>2. CASE PublishIdentity
  <2>1. fru' = NoFru /\ buffer' = NoChunks /\ psuPc' = "notify" BY <1>2 DEF PublishIdentity
  <2>2. \/ status' = status
        \/ fru.captured # 0 /\ status'.eepromAt = fru.captured /\ status'.eeprom = buffer
    BY <1>1, <1>2 DEF PublishIdentity, StatusRecord
  <2>. QED BY <1>1, <2>1, <2>2 DEF EepromRight, NoFru, NoChunks
<1>3. CASE ~PublishIdentity
  <2>1. status'.eepromAt = status.eepromAt /\ status'.eeprom = status.eeprom
    <3>1. CASE PsuPublish BY <1>1, <3>1 DEF PsuPublish, Published, StatusRecord
    <3>2. CASE ~PsuPublish
      BY <1>3, <3>2 DEF PsuTask, PsuNotify, PsuLock, PsuWrite, PsuRead, Identify, IdProbe, IdRead, PsuRest
    <3>. QED BY <3>1, <3>2
  <2>2. CASE Identify
    <3>1. buffer' = NoChunks /\ psuPc' # "chunks" /\ fru'.at = 0 /\ fru'.captured = 0
      BY <2>2 DEF Identify, NoFru
    <3>. QED BY <1>1, <2>1, <3>1 DEF EepromRight, NoChunks
  <2>3. CASE IdProbe
    <3>1. fru'.captured = fru.captured /\ buffer' = buffer BY <1>1, <2>3 DEF IdProbe, FruRecord
    <3>2. psuPc' = "chunks" => fru'.chunk = 1 BY <1>1, <2>3 DEF IdProbe, FruRecord, Identified
    <3>3. fru'.at \in fitted \cup {0} BY <1>1, <2>3 DEF IdProbe, FruRecord, EepromRight
    <3>. QED BY <1>1, <2>1, <3>1, <3>2, <3>3 DEF EepromRight
  <2>4. CASE IdRead
    <3>1. psuPc = "chunks" /\ fru.at # 0 /\ fru.chunk \in 1 .. Chunks
      BY <1>1, <2>4 DEF IdRead, PsuTypes, FruRecord
    <3>2. fru'.at = fru.at BY <1>1, <2>4 DEF IdRead, FruRecord
    <3>3. CASE buffer' = [buffer EXCEPT ![fru.chunk] = fru.at]
      <4>1. \A k \in 1 .. Chunks : buffer'[k] = IF k = fru.chunk THEN fru.at ELSE buffer[k]
        BY <1>1, <3>3 DEF EepromBytes
      <4>. HIDE <3>3
      <4>2. \A k \in 1 .. Chunks : k <= fru.chunk => buffer'[k] # 0 BY <3>1, <4>1 DEF EepromRight
      <4>3. \/ fru'.captured = fru.captured
            \/ fru.chunk = Chunks /\ fru'.captured = fru.at
        BY <1>1, <2>4 DEF IdRead, FruRecord
      <4>4. fru'.chunk \in {1, fru.chunk, fru.chunk + 1} BY <1>1, <2>4 DEF IdRead, FruRecord
      <4>5. fru'.captured # 0 => \A k \in 1 .. Chunks : buffer'[k] # 0
        BY <3>1, <4>1, <4>2, <4>3 DEF EepromRight
      <4>6. \A k \in 1 .. Chunks : k < fru'.chunk => buffer'[k] # 0 BY <3>1, <4>2, <4>4
      <4>7. \A k \in 1 .. Chunks : buffer'[k] \in fitted \cup {0} BY <4>1 DEF EepromRight
      <4>8. fru'.captured \in fitted \cup {0} BY <4>3 DEF EepromRight
      <4>. QED BY <1>1, <2>1, <3>2, <4>5, <4>6, <4>7, <4>8 DEF EepromRight
    <3>4. CASE buffer' = buffer
      <4>2. CASE fru' = fru \/ fru' = [fru EXCEPT !.tried = TRUE, !.chunk = 1]
        <5>1. fru'.captured = fru.captured /\ fru'.chunk \in {1, fru.chunk}
          BY <1>1, <4>2 DEF FruRecord
        <5>. QED BY <1>1, <2>1, <3>1, <3>2, <3>4, <5>1 DEF EepromRight
      <4>3. CASE ~(fru' = fru \/ fru' = [fru EXCEPT !.tried = TRUE, !.chunk = 1])
        BY <2>4, <3>3, <4>3 DEF IdRead
      <4>. QED BY <4>2, <4>3
    <3>. QED BY <2>4, <3>3, <3>4 DEF IdRead
  <2>5. CASE UNCHANGED <<fru, buffer>> /\ psuPc' # "chunks" BY <1>1, <2>1, <2>5 DEF EepromRight
  <2>. QED
    BY <1>3, <2>2, <2>3, <2>4, <2>5
    DEF PsuTask, PsuNotify, PsuLock, PsuWrite, PsuRead, PsuPublish, PsuRest, GiveUp, TimedOut, psuLocals
<1>. QED BY <1>2, <1>3

PublishInv == PassRight /\ EepromRight

LEMMA PublishKept ==
    ASSUME PsuTypes, PsuTypes', BusInv, PublishInv, [Next]_vars
    PROVE  PublishInv'
<1>1. CASE PsuStep
  BY <1>1, PsuStepsKeepPass, PsuStepsKeepEeprom DEF PsuStep, OnBus, PublishInv
<1>2. CASE PsuBoot
  <2>1. psuPc = "boot" /\ psuPc' \in {"off", "lock"} /\ UNCHANGED <<pass, raw, psuLocals, status>>
    BY <1>2 DEF PsuBoot, OnBus, PsuStart
  <2>2. PassRight' BY <2>1, BusAssumption DEF PassRight, PublishInv, SamplesAreWhole
  <2>3. EepromRight' BY <2>1 DEF EepromRight, PublishInv, psuLocals
  <2>. QED BY <2>2, <2>3 DEF PublishInv
<1>3. CASE Wires \/ \E t \in Scanners : Scanning(t) \/ Swept(t)
  <2>1. UNCHANGED psuVars BY <1>3 DEF Wires, Scanning, Swept, OnBus
  <2>2. psuPc = "read" => asked' = asked
    <3>1. psuPc = "read" => \A t \in Scanners : scan[t] = "idle"
      BY BusAssumption DEF BusInv, BusIsShared, PsuKeepsApart, ScansKeepApart
    <3>. QED BY <1>3, <3>1 DEF Wires, WiresChange, Scanning, Swept, ScanStart, ScanProbe, ScanEnd, OnBus
  <2>3. PassRight' BY <2>1, <2>2 DEF PassRight, PublishInv, SamplesAreWhole, psuVars
  <2>4. EepromRight' BY <2>1 DEF EepromRight, PublishInv, psuVars
  <2>. QED BY <2>3, <2>4 DEF PublishInv
<1>4. CASE Sample
  <2>1. status \in StatusRecord BY DEF PsuTypes, PsuOK, StatusRecord
  <2>2. /\ status'.eepromAt = status.eepromAt /\ status'.eeprom = status.eeprom
        /\ status'.sampled /\ \A r \in 1 .. Registers : status'.sample[r] = r
    BY <1>4, <2>1 DEF Sample, StatusRecord
  <2>3. UNCHANGED <<psuPc, pass, raw, asked, psuLocals>> BY <1>4 DEF Sample, busVars
  <2>4. PassRight' BY <2>2, <2>3 DEF PassRight, PublishInv, SamplesAreWhole
  <2>5. EepromRight' BY <2>2, <2>3 DEF EepromRight, PublishInv, psuLocals
  <2>. QED BY <2>4, <2>5 DEF PublishInv
<1>5. CASE UNCHANGED <<busVars, psuVars>>
  BY <1>5 DEF PublishInv, PassRight, EepromRight, SamplesAreWhole, busVars, psuVars
<1>. QED
  BY <1>1, <1>2, <1>3, <1>4, <1>5 DEF Next, vars, Shell, MqttStep, MqttClient, MqttFlags, MqttDeliver,
     MqttNetwork, OnWifi, ZigbeeSignal, ZigbeeRequest, ZigbeeCallback, ZigbeeRadio, PsuTells, OnZigbee

LEMMA OneEepromAtMost ==
    ASSUME PsuTypes, Cardinality(fitted) <= 1
    PROVE  \A a, b \in fitted : a = b
<1>1. fitted \in SUBSET (1 .. Eeproms) BY DEF PsuTypes, PsuOK
<1>2. IsFiniteSet(fitted)
  <2>1. 1 \in Int /\ Eeproms \in Int BY PsuAssumption
  <2>2. IsFiniteSet(1 .. Eeproms) BY <2>1, FS_Interval
  <2>. QED BY <1>1, <2>2, FS_Subset
<1>3. Cardinality(fitted) \in Nat BY <1>2, FS_CardinalityType
<1>4. Cardinality(fitted) = 0 \/ Cardinality(fitted) = 1 BY <1>3
<1>. QED BY <1>2, <1>4, FS_EmptySet, FS_Singleton

(* For any number of registers and chunks, any faults of the wires and any  *)
(* scans in between, readings are published whole, and so is the EEPROM     *)
(* where no more than one is fitted.                                        *)
THEOREM PublishedWhole == Spec => []PublishedIsWhole
<1>1. Init => PublishInv
  BY BusAssumption, PsuAssumption
  DEF Init, PsuInit, PublishInv, PassRight, EepromRight, SamplesAreWhole, NewPass, Unread, NoFru, NoChunks
<1>2. Spec => []PublishInv BY <1>1, BusAlways, PublishKept, PTL DEF Spec
<1>3. PsuTypes /\ PublishInv => PublishedIsWhole
  <2>1. SUFFICES ASSUME PsuTypes, PublishInv, Cardinality(fitted) <= 1, status.eepromAt # 0,
                        NEW k \in 1 .. Chunks
                 PROVE  status.eeprom[k] = status.eepromAt
    BY DEF PublishedIsWhole, EepromIsWhole, PublishInv, PassRight
  <2>2. status.eepromAt \in fitted /\ status.eeprom[k] \in fitted BY <2>1 DEF PublishInv, EepromRight
  <2>. QED BY <2>1, <2>2, OneEepromAtMost
<1>. QED BY <1>2, <1>3, BusAlways, PTL

-------------------------------------------------------------------------------
(* The Zigbee flags.                                                        *)

(* Steering and callbacks need a stack that is up.                          *)
FlagsInv ==
    /\ FlagsTellNetwork
    /\ steering \/ posts # <<>> => started

LEMMA ZigbeeStepsKeepFlags ==
    ASSUME ZigbeeOK, FlagsInv, Signals \/ Requests \/ Callback \/ Radio
    PROVE  FlagsInv'
<1>. USE DEF FlagsInv, FlagsTellNetwork
<1>1. CASE StackStart BY <1>1 DEF StackStart, radioState
<1>2. CASE Initialized BY <1>2 DEF Initialized, Commission
<1>3. CASE Steered BY <1>3 DEF Steered
<1>4. CASE Leave BY <1>4 DEF Leave
<1>5. CASE Teardown BY <1>5 DEF Teardown, Stopped
<1>6. CASE Requests BY <1>6 DEF Requests, Ask, radioState
<1>7. CASE Callback
  <2>1. started BY <1>7 DEF Callback
  <2>2. CASE CommissionCb BY <2>1, <2>2 DEF CommissionCb, Commission
  <2>3. CASE ResetCb /\ posts' = <<>> BY <2>3 DEF ResetCb
  <2>4. CASE PsuCb BY <2>1, <2>4 DEF PsuCb
  <2>5. Head(posts) \in {"commission", "reset", "psu"} BY <1>7 DEF Callback, ZigbeeOK
  <2>. QED BY <1>7, <2>2, <2>3, <2>4, <2>5 DEF Callback
<1>8. CASE Radio BY <1>8 DEF Radio, Elapse, TakenChange, AirChange, radioState
<1>. QED BY <1>1, <1>2, <1>3, <1>4, <1>5, <1>6, <1>7, <1>8 DEF Signals

(* Types of the reporter.                                                   *)
Callbacks == {"commission", "reset", "psu"}

LEMMA PostingIsBounded ==
    ASSUME NEW q \in Seq(Callbacks), Len(q) <= PostCap, NEW c \in Callbacks
    PROVE  Posted(q, c) \in Seq(Callbacks) /\ Len(Posted(q, c)) <= PostCap
BY ZigbeeAssumption DEF Posted

LEMMA ServingShortens ==
    ASSUME NEW q \in Seq(Callbacks), Len(q) <= PostCap, q # <<>>
    PROVE  /\ Tail(q) \in Seq(Callbacks) /\ Len(Tail(q)) <= PostCap /\ Head(q) \in Callbacks
           /\ Len(<<>>) <= PostCap /\ <<>> \in Seq(Callbacks)
BY ZigbeeAssumption

ZigbeeStep ==
    \/ Signals \/ Requests \/ Callback \/ Radio
    \/ PsuPost /\ UNCHANGED <<stack, started, joining, joined, wasAvailable, lastReport, radioState>>

LEMMA ZigbeeStepsKeepTypes ==
    ASSUME ZigbeeOK, PsuOK, ZigbeeStep
    PROVE  ZigbeeOK'
<1>. USE DEF Callbacks
<1>a. \/ Signals \/ Requests \/ Callback \/ Radio
      \/ PsuPost /\ UNCHANGED <<stack, started, joining, joined, wasAvailable, lastReport, radioState>>
  BY DEF ZigbeeStep
<1>0. posts \in Seq(Callbacks) /\ Len(posts) <= PostCap BY DEF ZigbeeOK
<1>1. posts' \in Seq(Callbacks) /\ Len(posts') <= PostCap
  <2>1. \/ posts' \in {posts, <<>>} \/ (\E c \in Callbacks : posts' = Posted(posts, c))
        \/ posts # <<>> /\ posts' = Tail(posts)
    <3>1. CASE Signals
      BY <3>1 DEF Signals, StackStart, Initialized, Steered, Leave, Teardown
    <3>2. CASE Requests BY <3>2 DEF Requests, Ask
    <3>3. CASE Callback
      <4>1. posts # <<>> /\ Head(posts) \in Callbacks BY <1>0, <3>3, ServingShortens DEF Callback
      <4>. QED BY <3>3, <4>1 DEF Callback
    <3>4. CASE Radio BY <3>4 DEF Radio, Elapse, TakenChange, AirChange
    <3>5. CASE PsuPost BY <3>5 DEF PsuPost
    <3>. QED BY <1>a, <3>1, <3>2, <3>3, <3>4, <3>5
  <2>. QED BY <1>0, <2>1, PostingIsBounded, ServingShortens, ZigbeeAssumption
<1>b. status.available \in BOOLEAN BY DEF PsuOK
<1>c. Callback => CommissionCb \/ ResetCb \/ PsuCb
  <2>1. posts # <<>> => Head(posts) \in Callbacks BY <1>0, ServingShortens
  <2>. QED BY <2>1 DEF Callback
<1>2. /\ stack' \in {"down", "starting", "up"} /\ started' \in BOOLEAN /\ joining' \in BOOLEAN /\ joined' \in BOOLEAN
      /\ wasAvailable' \in BOOLEAN /\ lastReport' \in {"never", "recent", "old"}
      /\ steering' \in BOOLEAN /\ member' \in BOOLEAN /\ taken' \in BOOLEAN /\ air' \in BOOLEAN
  <2>1. CASE Signals
    BY <2>1 DEF ZigbeeOK, Signals, StackStart, Initialized, Steered, Leave, Teardown, Stopped, Commission, radioState
  <2>2. CASE Requests BY <2>2 DEF ZigbeeOK, Requests, Ask, radioState
  <2>3. CASE Callback
    <3>1. CASE CommissionCb BY <3>1 DEF ZigbeeOK, CommissionCb, Commission
    <3>2. CASE ResetCb BY <3>2 DEF ZigbeeOK, ResetCb
    <3>3. CASE PsuCb BY <3>3, <1>b DEF ZigbeeOK, PsuCb
    <3>. QED BY <1>c, <2>3, <3>1, <3>2, <3>3
  <2>4. CASE Radio
    <3>1. CASE Elapse BY <3>1 DEF ZigbeeOK, Elapse, radioState
    <3>2. CASE TakenChange BY <3>2 DEF ZigbeeOK, TakenChange
    <3>3. CASE AirChange BY <3>3 DEF ZigbeeOK, AirChange
    <3>. QED BY <2>4, <3>1, <3>2, <3>3 DEF Radio
  <2>5. CASE PsuPost /\ UNCHANGED <<stack, started, joining, joined, wasAvailable, lastReport, radioState>>
    BY <2>5 DEF ZigbeeOK, PsuPost, radioState
  <2>. QED BY <1>a, <2>1, <2>2, <2>3, <2>4, <2>5
<1>3. coordinator' \in [values : {"none", "valid", "invalid"}, flags : {"none", "ok", "fault"}]
  <2>1. CASE Signals
    BY <2>1 DEF ZigbeeOK, Signals, StackStart, Initialized, Steered, Leave, Teardown, Stopped, Commission, radioState
  <2>2. CASE Requests BY <2>2 DEF ZigbeeOK, Requests, Ask, radioState
  <2>3. CASE Callback
    <3>1. CASE CommissionCb \/ ResetCb BY <3>1 DEF ZigbeeOK, CommissionCb, ResetCb
    <3>2. CASE PsuCb
      <4>1. Validity(status.available) \in {"none", "valid", "invalid"} BY DEF Validity
      <4>2. Flags(status.available) \in {"none", "ok", "fault"} BY DEF Flags
      <4>3. \A v \in {"none", "valid", "invalid"}, f \in {"none", "ok", "fault"} :
               [values |-> v, flags |-> f] \in [values : {"none", "valid", "invalid"}, flags : {"none", "ok", "fault"}]
        OBVIOUS
      <4>4. /\ coordinator \in [values : {"none", "valid", "invalid"}, flags : {"none", "ok", "fault"}]
            /\ coordinator.values \in {"none", "valid", "invalid"} /\ coordinator.flags \in {"none", "ok", "fault"}
        BY DEF ZigbeeOK
      <4>5. coordinator' = coordinator \/ \E told \in SUBSET ReportSet(status.available # wasAvailable) :
               coordinator' = [values |-> IF "values" \in told THEN Validity(status.available) ELSE coordinator.values,
                               flags |-> IF "flags" \in told THEN Flags(status.available) ELSE coordinator.flags]
        BY <3>2 DEF PsuCb
      <4>. QED BY <4>1, <4>2, <4>3, <4>4, <4>5
    <3>. QED BY <1>c, <2>3, <3>1, <3>2
  <2>4. CASE Radio BY <2>4 DEF ZigbeeOK, Radio, Elapse, TakenChange, AirChange, radioState
  <2>5. CASE PsuPost /\ UNCHANGED <<stack, started, joining, joined, wasAvailable, lastReport, radioState>>
    BY <2>5 DEF ZigbeeOK, PsuPost, radioState
  <2>. QED BY <1>a, <2>1, <2>2, <2>3, <2>4, <2>5
<1>. QED BY <1>1, <1>2, <1>3 DEF ZigbeeOK

LEMMA ZigbeeKept ==
    ASSUME PsuTypes, ZigbeeOK, FlagsInv, [Next]_vars
    PROVE  ZigbeeOK' /\ FlagsInv'
<1>. PsuOK BY DEF PsuTypes
<1>1. CASE ZigbeeSignal \/ ZigbeeRequest \/ ZigbeeCallback \/ ZigbeeRadio
  <2>1. Signals \/ Requests \/ Callback \/ Radio
    BY <1>1 DEF ZigbeeSignal, ZigbeeRequest, ZigbeeCallback, ZigbeeRadio, OnZigbee
  <2>2. ZigbeeOK'
    <3>1. ZigbeeStep BY <2>1 DEF ZigbeeStep
    <3>. QED BY <3>1, ZigbeeStepsKeepTypes
  <2>3. FlagsInv' BY <2>1, ZigbeeStepsKeepFlags
  <2>. QED BY <2>2, <2>3
<1>2. CASE PsuTells
  <2>1. ZigbeeOK'
    <3>1. ZigbeeStep BY <1>2 DEF PsuTells, OnZigbee, ZigbeeStep
    <3>. QED BY <3>1, ZigbeeStepsKeepTypes
  <2>2. FlagsInv' BY <1>2 DEF PsuTells, OnZigbee, PsuPost, FlagsInv, FlagsTellNetwork, radioState
  <2>. QED BY <2>1, <2>2
<1>3. CASE UNCHANGED zigbeeVars
  <2>1. ZigbeeOK' BY <1>3 DEF zigbeeVars, radioState, ZigbeeOK
  <2>2. FlagsInv' BY <1>3 DEF zigbeeVars, FlagsInv, FlagsTellNetwork
  <2>. QED BY <2>1, <2>2
<1>. QED
  BY <1>1, <1>2, <1>3 DEF Next, vars, Shell, PsuBoot, PsuStep, Wires, Scanning, Swept, OnBus, Sample,
     MqttStep, MqttClient, MqttFlags, MqttDeliver, MqttNetwork, OnWifi

LEMMA ZigbeeAlways == Spec => [](ZigbeeOK /\ FlagsInv)
<1>1. Init => ZigbeeOK /\ FlagsInv
  <2>1. SUFFICES ASSUME Init PROVE ZigbeeOK /\ FlagsInv OBVIOUS
  <2>2. FlagsInv BY <2>1 DEF Init, ZigbeeInit, FlagsInv, FlagsTellNetwork
  <2>3. posts \in Seq(Callbacks) /\ Len(posts) <= PostCap
    BY <2>1, ZigbeeAssumption DEF Init, ZigbeeInit
  <2>4. coordinator \in [values : {"none", "valid", "invalid"}, flags : {"none", "ok", "fault"}]
    BY <2>1 DEF Init, ZigbeeInit
  <2>. QED BY <2>1, <2>2, <2>3, <2>4 DEF Init, ZigbeeInit, ZigbeeOK, Callbacks
<1>. QED BY <1>1, BusAlways, ZigbeeKept, PTL DEF Spec

(* For any length of the stack's queue, any signals, requests and losses,   *)
(* the flags tell of the network.                                           *)
THEOREM FlagsTold == Spec => []FlagsTellNetwork
BY ZigbeeAlways, PTL DEF FlagsInv

-------------------------------------------------------------------------------
(* The MQTT reporter.                                                       *)

Known == broker.state # "old"
EndsWithState(q) == Len(q) > 0 /\ q[Len(q)] \in States
OnlineFollowsState(q) ==
    \A i \in 1 .. Len(q) : q[i] = "online" => i > 1 /\ q[i - 1] \in States

(* Every "online" on its way follows a state on its way, until the broker   *)
(* has a state of this boot; and what an earlier boot left behind as online *)
(* is gone when the client connects.                                        *)
OnlineInv ==
    /\ ~Known => OnlineFollowsState(outbox)
    /\ ~Known /\ mqtt.pc = "online" => EndsWithState(outbox)
    /\ ~Known /\ broker.availability = "online" => broker.client /\ ~link

MqttRecord == [pc : {"boot", "off", "address", "start", "wait", "check", "subscribe", "discover", "publish", "online"},
               setup : BOOLEAN, subscribe : BOOLEAN, json : States]
BrokerRecord == [client : BOOLEAN, subscribed : BOOLEAN, announced : BOOLEAN,
                 availability : {"online", "offline"}, state : States \cup {"old"}]

LEMMA AppendKeepsOrder ==
    ASSUME NEW q \in Seq(Messages), NEW m \in Messages, OnlineFollowsState(q), m = "online" => EndsWithState(q)
    PROVE  /\ OnlineFollowsState(Append(q, m))
           /\ m \in States => EndsWithState(Append(q, m))
<1>1. /\ Append(q, m) \in Seq(Messages) /\ Len(Append(q, m)) = Len(q) + 1 /\ Len(q) \in Nat
      /\ \A i \in 1 .. Len(q) : Append(q, m)[i] = q[i]
      /\ Append(q, m)[Len(q) + 1] = m
  OBVIOUS
<1>. QED BY <1>1 DEF OnlineFollowsState, EndsWithState

LEMMA TailKeepsOrder ==
    ASSUME NEW q \in Seq(Messages), q # <<>>, OnlineFollowsState(q), Head(q) \notin States
    PROVE  OnlineFollowsState(Tail(q)) /\ (EndsWithState(q) => EndsWithState(Tail(q)))
<1>1. /\ Tail(q) \in Seq(Messages) /\ Len(Tail(q)) = Len(q) - 1 /\ Len(q) \in Nat /\ Len(q) > 0
      /\ \A i \in 1 .. Len(q) - 1 : Tail(q)[i] = q[i + 1]
      /\ Head(q) = q[1]
  OBVIOUS
<1>2. q[1] \notin States BY <1>1
<1>3. OnlineFollowsState(Tail(q))
  <2>1. SUFFICES ASSUME NEW i \in 1 .. Len(q) - 1, q[i + 1] = "online"
                 PROVE  i > 1 /\ Tail(q)[i - 1] \in States
    BY <1>1 DEF OnlineFollowsState
  <2>2. q[i] \in States BY <1>1, <2>1 DEF OnlineFollowsState
  <2>3. i # 1 BY <1>2, <2>2
  <2>. QED BY <1>1, <2>2, <2>3
<1>4. EndsWithState(q) => EndsWithState(Tail(q))
  <2>1. SUFFICES ASSUME EndsWithState(q) PROVE EndsWithState(Tail(q)) OBVIOUS
  <2>2. Len(q) # 1 BY <1>2, <2>1 DEF EndsWithState
  <2>. QED BY <1>1, <2>1, <2>2 DEF EndsWithState
<1>. QED BY <1>3, <1>4

(* Whole passes expire: what remains begins after an "online".              *)
LEMMA SuffixKeepsOrder ==
    ASSUME NEW q \in Seq(Messages), OnlineFollowsState(q), NEW n \in 1 .. Len(q), q[n] = "online"
    PROVE  OnlineFollowsState(SubSeq(q, n + 1, Len(q)))
<1>. DEFINE s == SubSeq(q, n + 1, Len(q))
<1>1. /\ s \in Seq(Messages) /\ Len(s) = Len(q) - n /\ Len(q) \in Nat
      /\ \A i \in 1 .. Len(q) - n : s[i] = q[i + n]
  OBVIOUS
<1>. HIDE DEF s
<1>2. SUFFICES ASSUME NEW i \in 1 .. Len(q) - n, q[i + n] = "online"
               PROVE  i > 1 /\ s[i - 1] \in States
  BY <1>1 DEF OnlineFollowsState, s
<1>3. q[i + n - 1] \in States BY <1>1, <1>2 DEF OnlineFollowsState
<1>4. i # 1 BY <1>3 DEF States
<1>. QED BY <1>1, <1>3, <1>4

LEMMA FirstExists ==
    ASSUME NEW n \in Nat, NEW S \in SUBSET (1 .. n), S # {}
    PROVE  Min(S) \in S
<1>1. S \subseteq Nat OBVIOUS
<1>2. PICK m \in S : \A x \in S : <<x, m>> \notin OpToRel(<, Nat)
  BY <1>1, NatLessThanWellFounded, WFMin
<1>3. \A x \in S : ~(x < m) BY <1>1, <1>2 DEF OpToRel
<1>4. \A x \in S : m <= x BY <1>1, <1>3
<1>. QED BY <1>4 DEF Min

LEMMA MqttTypesKept ==
    ASSUME MqttOK, PsuOK, MqttTask \/ Client \/ Deliver \/ Network
    PROVE  MqttOK'
<1>. USE MqttAssumption
<1>1. /\ mqtt \in MqttRecord /\ broker \in BrokerRecord /\ flags \subseteq {"setup", "subscribe"}
      /\ outbox \in Seq(Messages) /\ Len(outbox) <= OutboxLimit
  BY DEF MqttOK, MqttRecord, BrokerRecord
<1>2. mqtt' \in MqttRecord
  <2>1. \A p \in {"off", "address", "start", "wait", "check", "subscribe", "discover", "publish", "online"} : [mqtt EXCEPT !.pc = p] \in MqttRecord
    BY <1>1 DEF MqttRecord
  <2>2. CASE MqttStart \/ AwaitAddress \/ StartClient
    BY <2>1, <2>2 DEF MqttStart, AwaitAddress, StartClient, GoTo
  <2>3. CASE Collect BY <1>1, <2>3 DEF Collect, Collected, MqttRecord
  <2>4. CASE Check BY <2>1, <2>4 DEF Check, GoTo
  <2>5. CASE Subscribe
    <3>1. [mqtt EXCEPT !.pc = "discover", !.subscribe = FALSE] \in MqttRecord BY <1>1 DEF MqttRecord
    <3>. QED BY <2>1, <2>5, <3>1 DEF Subscribe, GoTo
  <2>6. CASE Discover
    <3>1. Snapshot \in States BY DEF Snapshot, States
    <3>2. \A j \in States : [mqtt EXCEPT !.pc = "publish", !.setup = FALSE, !.json = j] \in MqttRecord
      BY <1>1 DEF MqttRecord
    <3>. QED BY <2>1, <2>6, <3>1, <3>2 DEF Discover, GoTo
  <2>7. CASE PublishState \/ PublishOnline BY <2>1, <2>7 DEF PublishState, PublishOnline, AfterState, GoTo
  <2>8. CASE mqtt' = mqtt BY <1>1, <2>8
  <2>. QED
    BY <2>2, <2>3, <2>4, <2>5, <2>6, <2>7, <2>8
    DEF MqttTask, Client, Connect, NotifyTask, Disconnected, Deliver, Network, Break, Will, StationChange,
        MemoryChange, Birth, Expire
<1>3. outbox' \in Seq(Messages) /\ Len(outbox') <= OutboxLimit
  <2>1. \/ outbox' = outbox \/ outbox' = <<>>
        \/ Fits /\ \E m \in Messages : outbox' = Append(outbox, m)
        \/ outbox # <<>> /\ outbox' = Tail(outbox)
        \/ \E n \in 1 .. Len(outbox) : outbox' = SubSeq(outbox, n + 1, Len(outbox))
    <3>1. CASE MqttTask
      <4>1. mqtt.json \in Messages BY <1>1 DEF MqttRecord, Messages
      <4>. QED
        BY <3>1, <4>1 DEF MqttTask, MqttStart, AwaitAddress, StartClient, Collect, Check, Subscribe, Discover, PublishState, PublishOnline, Enqueued, Messages
    <3>2. CASE Client BY <3>2 DEF Client, Connect, NotifyTask, Disconnected
    <3>3. CASE Deliver BY <3>3 DEF Deliver
    <3>4. CASE Expire
      <4>. DEFINE ends == {i \in 1 .. Len(outbox) : outbox[i] = "online"}
      <4>1. ends # {} => Min(ends) \in 1 .. Len(outbox)
        <5>1. ends \in SUBSET (1 .. Len(outbox)) /\ Len(outbox) \in Nat BY <1>1
        <5>. HIDE DEF ends
        <5>. QED BY <5>1, FirstExists
      <4>. QED BY <3>4, <4>1 DEF Expire
    <3>5. CASE Network /\ ~Expire BY <3>5 DEF Network, Break, Will, StationChange, MemoryChange, Birth, wire
    <3>. QED BY <3>1, <3>2, <3>3, <3>4, <3>5
  <2>2. CASE \E n \in 1 .. Len(outbox) : outbox' = SubSeq(outbox, n + 1, Len(outbox))
    <3>1. PICK n \in 1 .. Len(outbox) : outbox' = SubSeq(outbox, n + 1, Len(outbox)) BY <2>2
    <3>2. /\ SubSeq(outbox, n + 1, Len(outbox)) \in Seq(Messages)
          /\ Len(SubSeq(outbox, n + 1, Len(outbox))) = Len(outbox) - n
      BY <1>1
    <3>. QED BY <1>1, <3>1, <3>2
  <2>3. CASE Fits /\ \E m \in Messages : outbox' = Append(outbox, m)
    <3>1. Len(outbox) < OutboxLimit BY <1>1, <2>3 DEF Fits, Room
    <3>. QED BY <1>1, <2>3, <3>1
  <2>4. CASE outbox' = outbox BY <1>1, <2>4
  <2>5. CASE outbox' = <<>> BY <2>5
  <2>6. CASE outbox # <<>> /\ outbox' = Tail(outbox) BY <1>1, <2>6
  <2>. QED BY <2>1, <2>2, <2>3, <2>4, <2>5, <2>6
<1>4. broker' \in BrokerRecord
  <2>1. CASE Deliver
    <3>1. Head(outbox) \in Messages BY <1>1, <2>1 DEF Deliver
    <3>2. \A m \in Messages : Retained(m) \in BrokerRecord BY <1>1 DEF Messages, Retained, BrokerRecord, States
    <3>. QED BY <2>1, <3>1, <3>2 DEF Deliver
  <2>2. CASE MqttTask
    BY <1>1, <2>2 DEF BrokerRecord, MqttTask, MqttStart, AwaitAddress, StartClient, Collect, Check, Subscribe, Discover, PublishState, PublishOnline
  <2>3. CASE Client BY <1>1, <2>3 DEF BrokerRecord, Client, Connect, NotifyTask, Disconnected
  <2>4. CASE Network
    BY <1>1, <2>4 DEF BrokerRecord, Network, Break, Will, StationChange, MemoryChange, Birth, Expire
  <2>. QED BY <2>1, <2>2, <2>3, <2>4
<1>5. flags' \subseteq {"setup", "subscribe"}
  BY <1>1 DEF MqttTask, MqttStart, AwaitAddress, StartClient, Collect, Check, Subscribe, Discover, PublishState, PublishOnline, Client,
     Connect, NotifyTask, Disconnected, Deliver, Network, Break, Will, StationChange, MemoryChange, Birth, Expire
<1>6. /\ connected' \in BOOLEAN /\ announced' \in BOOLEAN /\ station' \in BOOLEAN
      /\ memory' \in BOOLEAN /\ link' \in BOOLEAN
  BY DEF MqttOK, MqttTask, MqttStart, AwaitAddress, StartClient, Collect, Check, Subscribe, Discover, PublishState, PublishOnline, Client,
     Connect, NotifyTask, Disconnected, Deliver, Network, Break, Will, StationChange, MemoryChange, Birth, Expire, wire
<1>. QED BY <1>2, <1>3, <1>4, <1>5, <1>6 DEF MqttOK, MqttRecord, BrokerRecord

(* What a step makes of the broker and the connection, by who takes it.     *)
LEMMA TaskKeepsOnline ==
    ASSUME MqttOK, PsuOK, OnlineInv, MqttTask
    PROVE  OnlineInv'
<1>. USE MqttAssumption
<1>1. /\ mqtt \in MqttRecord /\ broker \in BrokerRecord /\ outbox \in Seq(Messages)
  BY DEF MqttOK, MqttRecord, BrokerRecord
<1>2. broker'.state = broker.state /\ broker'.availability = broker.availability
      /\ broker'.client = broker.client /\ link' = link
  BY <1>1 DEF BrokerRecord, MqttTask, MqttStart, AwaitAddress, StartClient, Collect, Check, Subscribe, Discover, PublishState, PublishOnline, wire
<1>3. ASSUME ~Known
      PROVE  OnlineFollowsState(outbox') /\ (mqtt'.pc = "online" => EndsWithState(outbox'))
  <2>1. OnlineFollowsState(outbox) /\ (mqtt.pc = "online" => EndsWithState(outbox))
    BY <1>3 DEF OnlineInv
  <2>2. CASE MqttStart \/ AwaitAddress \/ StartClient \/ Collect \/ Check \/ Subscribe
    <3>1. CASE MqttStart \/ AwaitAddress \/ StartClient \/ Check
      BY <1>1, <2>1, <3>1 DEF MqttRecord, MqttStart, AwaitAddress, StartClient, Check, GoTo
    <3>2. CASE Collect BY <1>1, <2>1, <3>2 DEF MqttRecord, Collect, Collected
    <3>3. CASE Subscribe BY <1>1, <2>1, <3>3 DEF MqttRecord, Subscribe, GoTo
    <3>. QED BY <2>2, <3>1, <3>2, <3>3
  <2>3. CASE Discover
    <3>1. mqtt'.pc # "online" BY <1>1, <2>3 DEF Discover, GoTo, MqttRecord
    <3>2. outbox' = outbox \/ outbox' = Append(outbox, "discovery") BY <2>3 DEF Discover, Enqueued
    <3>3. OnlineFollowsState(Append(outbox, "discovery"))
      <4>1. "discovery" \in Messages BY DEF Messages
      <4>. QED BY <1>1, <2>1, <4>1, AppendKeepsOrder
    <3>. QED BY <2>1, <3>1, <3>2, <3>3
  <2>4. CASE PublishState
    <3>1. mqtt.json \in States /\ mqtt.json \in Messages /\ mqtt.json # "online"
      BY <1>1 DEF MqttRecord, Messages, States
    <3>2. OnlineFollowsState(Append(outbox, mqtt.json)) /\ EndsWithState(Append(outbox, mqtt.json))
      BY <1>1, <2>1, <3>1, AppendKeepsOrder
    <3>3. CASE Fits
      <4>1. outbox' = Append(outbox, mqtt.json) BY <2>4, <3>3 DEF PublishState, Enqueued
      <4>. QED BY <3>2, <4>1
    <3>4. CASE ~Fits
      <4>1. outbox' = outbox /\ mqtt'.pc = "wait"
        BY <1>1, <2>4, <3>4 DEF PublishState, AfterState, GoTo, MqttRecord
      <4>. QED BY <2>1, <4>1
    <3>. QED BY <3>3, <3>4
  <2>5. CASE PublishOnline
    <3>1. mqtt'.pc = "wait" /\ EndsWithState(outbox)
      BY <1>1, <2>1, <2>5 DEF PublishOnline, GoTo, MqttRecord
    <3>2. outbox' = outbox \/ outbox' = Append(outbox, "online") BY <2>5 DEF PublishOnline, Enqueued
    <3>3. OnlineFollowsState(Append(outbox, "online"))
      <4>1. "online" \in Messages BY DEF Messages
      <4>. QED BY <1>1, <2>1, <3>1, <4>1, AppendKeepsOrder
    <3>. QED BY <2>1, <3>1, <3>2, <3>3
  <2>. QED BY <2>2, <2>3, <2>4, <2>5 DEF MqttTask
<1>. QED BY <1>2, <1>3 DEF OnlineInv, Known, OnlineFollowsState, EndsWithState

LEMMA DeliverKeepsOnline ==
    ASSUME MqttOK, OnlineInv, Deliver
    PROVE  OnlineInv'
<1>1. /\ broker \in BrokerRecord /\ outbox \in Seq(Messages) /\ outbox # <<>> /\ mqtt' = mqtt
      /\ Head(outbox) \in Messages /\ Head(outbox) = outbox[1] /\ Len(outbox) \in Nat /\ Len(outbox) >= 1
  BY DEF MqttOK, BrokerRecord, Deliver
<1>2. CASE Head(outbox) \in States
  <2>1. broker'.state = Head(outbox)
    BY <1>1, <1>2 DEF Deliver, Retained, BrokerRecord, States
  <2>2. Known' BY <1>2, <2>1 DEF Known, States
  <2>. QED BY <2>2 DEF OnlineInv
<1>3. CASE Head(outbox) \notin States /\ Known
  <2>1. broker'.state = broker.state
    BY <1>1, <1>3 DEF Deliver, Retained, BrokerRecord, Messages
  <2>. QED BY <1>3, <2>1 DEF OnlineInv, Known
<1>4. CASE Head(outbox) \notin States /\ ~Known
  <2>1. OnlineFollowsState(outbox) /\ (mqtt.pc = "online" => EndsWithState(outbox))
    BY <1>4 DEF OnlineInv
  <2>2. outbox[1] # "online" BY <1>1, <2>1 DEF OnlineFollowsState
  <2>3. Head(outbox) = "discovery" BY <1>1, <1>4, <2>2 DEF Messages
  <2>4. broker'.availability = broker.availability
    BY <1>1, <2>3 DEF Deliver, Retained, BrokerRecord, States
  <2>5. broker.availability # "online" BY <1>4 DEF OnlineInv, Deliver
  <2>6. OnlineFollowsState(Tail(outbox)) /\ (EndsWithState(outbox) => EndsWithState(Tail(outbox)))
    BY <1>1, <1>4, <2>1, TailKeepsOrder
  <2>7. outbox' = outbox \/ outbox' = Tail(outbox) BY DEF Deliver
  <2>8. OnlineFollowsState(outbox') /\ (mqtt.pc = "online" => EndsWithState(outbox'))
    BY <2>1, <2>6, <2>7
  <2>. QED BY <1>1, <2>4, <2>5, <2>8 DEF OnlineInv, OnlineFollowsState, EndsWithState
<1>. QED BY <1>2, <1>3, <1>4

LEMMA OthersKeepOnline ==
    ASSUME MqttOK, OnlineInv, Client \/ Network
    PROVE  OnlineInv'
<1>1. broker \in BrokerRecord /\ outbox \in Seq(Messages) /\ mqtt' = mqtt
  BY DEF MqttOK, BrokerRecord, Client, Connect, NotifyTask, Disconnected, Network, Break, Will, StationChange,
     MemoryChange, Birth, Expire
<1>2. broker'.state = broker.state
  BY <1>1 DEF BrokerRecord, Client, Connect, NotifyTask, Disconnected, Network, Break, Will, StationChange,
     MemoryChange, Birth, Expire
<1>3. \/ broker'.availability # "online"
      \/ broker'.availability = broker.availability /\ broker'.client = broker.client /\ (link' => link)
      \/ broker'.availability = broker.availability /\ ~broker.client
  BY <1>1 DEF BrokerRecord, Client, Connect, NotifyTask, Disconnected, Network, Break, Will, StationChange,
     MemoryChange, Birth, Expire, wire
<1>4. ~Known /\ broker'.availability = "online" => broker'.client /\ ~link'
  BY <1>3 DEF OnlineInv
<1>5. ASSUME ~Known
      PROVE  OnlineFollowsState(outbox') /\ (mqtt.pc = "online" => EndsWithState(outbox'))
  <2>1. OnlineFollowsState(outbox) /\ (mqtt.pc = "online" => EndsWithState(outbox))
    BY <1>5 DEF OnlineInv
  <2>2. CASE Expire
    <3>. DEFINE ends == {i \in 1 .. Len(outbox) : outbox[i] = "online"}
    <3>1. mqtt.pc # "online" BY <2>2 DEF Expire
    <3>2. outbox' = IF ends = {} THEN <<>> ELSE SubSeq(outbox, Min(ends) + 1, Len(outbox))
      BY <2>2 DEF Expire
    <3>3. ends # {} => Min(ends) \in ends
      <4>1. ends \in SUBSET (1 .. Len(outbox)) /\ Len(outbox) \in Nat BY <1>1
      <4>. HIDE DEF ends
      <4>. QED BY <4>1, FirstExists
    <3>4. CASE ends = {}
      <4>1. outbox' = <<>> BY <3>2, <3>4
      <4>. QED BY <3>1, <4>1 DEF OnlineFollowsState
    <3>5. CASE ends # {}
      <4>1. Min(ends) \in 1 .. Len(outbox) /\ outbox[Min(ends)] = "online" BY <3>3, <3>5
      <4>2. outbox' = SubSeq(outbox, Min(ends) + 1, Len(outbox)) BY <3>2, <3>5
      <4>. HIDE DEF ends
      <4>3. OnlineFollowsState(SubSeq(outbox, Min(ends) + 1, Len(outbox)))
        BY <1>1, <2>1, <4>1, SuffixKeepsOrder
      <4>. QED BY <3>1, <4>2, <4>3
    <3>. QED BY <3>4, <3>5
  <2>3. CASE ~Expire
    <3>1. outbox' = outbox
      BY <2>3 DEF Client, Connect, NotifyTask, Disconnected, Network, Break, Will, StationChange, MemoryChange, Birth, wire
    <3>. QED BY <2>1, <3>1
  <2>. QED BY <2>2, <2>3
<1>. QED BY <1>1, <1>2, <1>4, <1>5 DEF OnlineInv, Known, OnlineFollowsState, EndsWithState

LEMMA MqttKept ==
    ASSUME PsuTypes, MqttOK, OnlineInv, [Next]_vars
    PROVE  MqttOK' /\ OnlineInv'
<1>. PsuOK BY DEF PsuTypes
<1>1. CASE MqttStep \/ MqttClient \/ MqttFlags \/ MqttDeliver \/ MqttNetwork
  <2>1. MqttTask \/ Client \/ Deliver \/ Network
    BY <1>1 DEF MqttStep, MqttClient, MqttFlags, MqttDeliver, MqttNetwork, OnWifi, Client
  <2>2. MqttOK' BY <2>1, MqttTypesKept
  <2>3. OnlineInv'
    <3>1. CASE MqttTask BY <3>1, TaskKeepsOnline
    <3>2. CASE Deliver BY <3>2, DeliverKeepsOnline
    <3>3. CASE Client \/ Network BY <3>3, OthersKeepOnline
    <3>. QED BY <2>1, <3>1, <3>2, <3>3
  <2>. QED BY <2>2, <2>3
<1>2. CASE UNCHANGED mqttVars
  <2>1. MqttOK' BY <1>2 DEF mqttVars, MqttOK
  <2>2. OnlineInv' BY <1>2 DEF mqttVars, OnlineInv, Known, OnlineFollowsState, EndsWithState
  <2>. QED BY <2>1, <2>2
<1>. QED
  BY <1>1, <1>2 DEF Next, vars, Shell, PsuBoot, PsuStep, Wires, Scanning, Swept, OnBus, Sample,
     ZigbeeSignal, ZigbeeRequest, ZigbeeCallback, ZigbeeRadio, PsuTells, OnZigbee

LEMMA MqttAlways == Spec => [](MqttOK /\ OnlineInv)
<1>1. Init => MqttOK /\ OnlineInv
  <2>1. SUFFICES ASSUME Init PROVE MqttOK /\ OnlineInv OBVIOUS
  <2>2. outbox = <<>> /\ Len(outbox) = 0 /\ outbox \in Seq(Messages) /\ Len(outbox) <= OutboxLimit
    BY <2>1, MqttAssumption DEF Init, MqttInit
  <2>3. MqttOK
    <3>1. mqtt \in MqttRecord BY <2>1 DEF Init, MqttInit, MqttRecord, States
    <3>2. broker \in BrokerRecord BY <2>1 DEF Init, MqttInit, BrokerRecord
    <3>. QED BY <2>1, <2>2, <3>1, <3>2 DEF Init, MqttInit, MqttOK, MqttRecord, BrokerRecord
  <2>4. OnlineInv
    BY <2>1, <2>2 DEF Init, MqttInit, OnlineInv, Known, OnlineFollowsState
  <2>. QED BY <2>3, <2>4
<1>. QED BY <1>1, BusAlways, MqttKept, PTL DEF Spec

(* For any size of the outbox, and whatever breaks, fills up, is sent twice *)
(* or expires: shown online, the broker has a state of this boot.           *)
THEOREM OnlineKnown == Spec => []OnlineMeansKnown
<1>1. OnlineInv => OnlineMeansKnown BY DEF OnlineInv, OnlineMeansKnown, Known
<1>. QED BY <1>1, MqttAlways, PTL

-------------------------------------------------------------------------------
(* All variables keep their types, for any bounds.                          *)
THEOREM TypeCorrect == Spec => []TypeOK
<1>1. Init => scenario \in Scenarios BY DEF Init
<1>2. scenario \in Scenarios /\ [Next]_vars => (scenario \in Scenarios)'
  BY DEF Next, vars, Shell, PsuBoot, PsuStep, Wires, Scanning, Swept, OnBus, Sample, MqttStep, MqttClient,
     MqttFlags, MqttDeliver, MqttNetwork, OnWifi, ZigbeeSignal, ZigbeeRequest, ZigbeeCallback, ZigbeeRadio,
     PsuTells, OnZigbee
<1>3. Spec => [](scenario \in Scenarios) BY <1>1, <1>2, PTL DEF Spec
<1>4. SettingsInv /\ PsuTypes /\ BusInv /\ ZigbeeOK /\ MqttOK /\ scenario \in Scenarios => TypeOK
  BY DEF SettingsInv, PsuTypes, TypeOK
<1>. QED BY <1>3, <1>4, BusAlways, ZigbeeAlways, MqttAlways, PTL

===============================================================================
