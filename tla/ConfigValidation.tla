---------------------------- MODULE ConfigValidation ---------------------------
(****************************************************************************)
(* What the controller accepts as settings (src/src/config_validation.c),   *)
(* and the serial shell's set, save and discard (serial_service.c), which   *)
(* stage a draft that validation lets through or not.  Where an accepted    *)
(* configuration is kept, tried and rolled back is in ConfigStore.          *)
(*                                                                          *)
(* A button is enabled here when it is below button_count as well.  Ranges  *)
(* no other setting depends on (BLE and sense timing, Zigbee channel, PSU   *)
(* address and polling) are one flag, and so are the texts of MQTT.  As in  *)
(* PowerLogic, a definition named Mut... is a plausible bug.                *)
(****************************************************************************)
EXTENDS Integers

CONSTANTS
    Pins,           \* the GPIO numbers the shell takes, beside -1
    InputPins,      \* GPIO_IS_VALID_GPIO on this target
    OutputPins,     \* GPIO_IS_VALID_OUTPUT_GPIO on this target
    BlockedPins,    \* bc250_config_pin_is_blocked: boot failures of a board
    SafePins,       \* bc250_config_pin_is_safe: the conservative recommendation
    Radios,         \* the radios this target has, of "wifi" and "zigbee"
    ButtonSlots,    \* the indices of buttons[]
    Times,          \* the durations the shell takes
    MinPulse,       \* 50 ms
    MinForceOff,    \* 1000 ms
    BootConfigs,    \* the configurations the controller may have booted with
    MaxEdits        \* bound: settings changed in the shell

Disabled == -1
Sensing == {"ps_on_only", "button_only", "ps_on_then_button", "simultaneous"}
Strategies == Sensing \cup {"ps_on_latched", "ps_on_latched_then_button"}
Roles == {"psOn", "powerButton", "sense", "led"}
Gpio == Pins \cup {Disabled}

Button == [enabled : BOOLEAN, gpio : Gpio, radio : {"none", "wifi", "zigbee"},
           debounce : Times, double : Times, long : Times]
Psu == [enabled : BOOLEAN, sda : Gpio, scl : Gpio]
Timing == [pulse : Times, forceOff : Times, start : Times, shutdown : Times]
Settings == [configured : BOOLEAN, profile : {"wifi", "zigbee"}, strategy : Strategies,
             hold : BOOLEAN, role : [Roles -> Gpio], psu : Psu,
             buttons : [ButtonSlots -> Button], ssid : BOOLEAN,
             mqtt : {"off", "complete", "incomplete"}, timing : Timing, ranged : BOOLEAN]

-------------------------------------------------------------------------------
(* bc250_config_validate, check by check.                                   *)

MutPinInUse(c, g, except) == g \in {c.role[r] : r \in Roles}
PinInUse(c, g, except) ==
    /\ g # Disabled
    /\ \/ \E r \in Roles : c.role[r] = g
       \/ c.psu.enabled /\ g \in {c.psu.sda, c.psu.scl}
       \/ \E b \in ButtonSlots \ except : c.buttons[b].enabled /\ c.buttons[b].gpio = g

PinOK(g, usable) == g = Disabled \/ (g \in usable /\ g \notin BlockedPins)

(* The pins of a bus that is to be scanned or monitored may be those of the *)
(* monitored bus, and of no other role.                                     *)
I2cPinsOK(c, sda, scl) ==
    LET others == [c EXCEPT !.psu.enabled = FALSE]
    IN  /\ Disabled \notin {sda, scl} /\ sda # scl
        /\ PinOK(sda, OutputPins) /\ PinOK(scl, OutputPins)
        /\ ~PinInUse(others, sda, {}) /\ ~PinInUse(others, scl, {})

(* Every strategy but the plain latch uses the motherboard switch, and all  *)
(* but button_only without hold use PS_ON.                                  *)
RequiredRoles(c) ==
    (IF c.strategy \in Sensing THEN {"sense"} ELSE {})
    \cup (IF c.strategy # "button_only" \/ c.hold THEN {"psOn"} ELSE {})
    \cup (IF c.strategy # "ps_on_latched" THEN {"powerButton"} ELSE {})

Complete(c) ==
    c.configured => /\ \A r \in RequiredRoles(c) : c.role[r] # Disabled
                    /\ c.profile = "wifi" => c.ssid

FixedPinsOK(c) ==
    LET bus(r) == IF c.psu.enabled THEN c.psu[r] ELSE Disabled
        fixed == [r \in Roles \cup {"sda", "scl"} |-> IF r \in Roles THEN c.role[r] ELSE bus(r)]
    IN  /\ c.psu.enabled => Disabled \notin {c.psu.sda, c.psu.scl}
        /\ \A r \in DOMAIN fixed :
              /\ PinOK(fixed[r], IF r = "sense" THEN InputPins ELSE OutputPins)
              /\ \A s \in DOMAIN fixed \ {r} : fixed[r] # Disabled => fixed[r] # fixed[s]

ButtonOK(c, i) ==
    LET b == c.buttons[i]
    IN  /\ PinOK(b.gpio, InputPins)
        /\ b.gpio # Disabled /\ ~PinInUse(c, b.gpio, {i})
        /\ b.radio # "none" => b.radio \in Radios
        /\ b.debounce # 0 /\ b.double # 0 /\ b.long > b.debounce

TimingOK(c) ==
    /\ c.timing.pulse >= MinPulse /\ c.timing.forceOff >= MinForceOff
    /\ c.timing.start > c.timing.pulse /\ c.timing.shutdown > c.timing.pulse

Valid(c) ==
    /\ c.profile \in Radios
    /\ Complete(c)
    /\ c.mqtt # "off" => c.profile = "wifi" /\ c.mqtt = "complete"
    /\ c.ranged
    /\ FixedPinsOK(c)
    /\ \A i \in ButtonSlots : c.buttons[i].enabled => ButtonOK(c, i)
    /\ TimingOK(c)

(* bc250_config_pin_warnings: pins in use that are not recommended.         *)
Warned(c) ==
    LET used == {c.role[r] : r \in Roles}
                \cup (IF c.psu.enabled THEN {c.psu.sda, c.psu.scl} ELSE {})
                \cup {c.buttons[i].gpio : i \in {b \in ButtonSlots : c.buttons[b].enabled}}
    IN  used \ ({Disabled} \cup SafePins \cup BlockedPins) # {}

ASSUME SettingsAssumption ==
    /\ Pins \subseteq Nat /\ Times \subseteq Nat
    /\ MinPulse \in Nat \ {0} /\ MinForceOff \in Nat \ {0}
    /\ Radios \subseteq {"wifi", "zigbee"}
    /\ MaxEdits \in Nat
    /\ ButtonSlots \cap (Roles \cup {"sda", "scl"}) = {}
    /\ BootConfigs \subseteq Settings /\ \A c \in BootConfigs : Valid(c)

-------------------------------------------------------------------------------
VARIABLES
    settings,   \* the configuration the controller runs with
    shell       \* s_edit, s_dirty, and how many settings were changed so far

settingsVars == <<settings, shell>>
Clean(c) == [draft |-> c, dirty |-> FALSE, edits |-> shell.edits]

SettingsOK ==
    /\ settings \in Settings
    /\ shell \in [draft : Settings, dirty : BOOLEAN, edits : 0 .. MaxEdits]

(* bc250_serial_config_set changes one setting of the draft, or none.       *)
OneSettingAway(c) ==
    {[c EXCEPT !.configured = b] : b \in BOOLEAN}
    \cup {[c EXCEPT !.profile = p] : p \in {"wifi", "zigbee"}}
    \cup {[c EXCEPT !.strategy = s] : s \in Strategies}
    \cup {[c EXCEPT !.hold = b] : b \in BOOLEAN}
    \cup {[c EXCEPT !.role[r] = g] : r \in Roles, g \in Gpio}
    \cup {[c EXCEPT !.psu.enabled = b] : b \in BOOLEAN}
    \cup {[c EXCEPT !.psu[l] = g] : l \in {"sda", "scl"}, g \in Gpio}
    \cup {[c EXCEPT !.buttons[i].enabled = b] : i \in ButtonSlots, b \in BOOLEAN}
    \cup {[c EXCEPT !.buttons[i].gpio = g] : i \in ButtonSlots, g \in Gpio}
    \cup {[c EXCEPT !.buttons[i].radio = r] : i \in ButtonSlots, r \in {"none", "wifi", "zigbee"}}
    \cup {[c EXCEPT !.buttons[i][d] = t] : i \in ButtonSlots, d \in {"debounce", "double", "long"}, t \in Times}
    \cup {[c EXCEPT !.ssid = b] : b \in BOOLEAN}
    \cup {[c EXCEPT !.mqtt = m] : m \in {"off", "complete", "incomplete"}}
    \cup {[c EXCEPT !.timing[d] = t] : d \in DOMAIN c.timing, t \in Times}
    \cup {[c EXCEPT !.ranged = b] : b \in BOOLEAN}

EditSetting ==
    /\ shell.edits < MaxEdits
    /\ \E c \in OneSettingAway(shell.draft) :
          shell' = [draft |-> c, dirty |-> TRUE, edits |-> shell.edits + 1]
    /\ UNCHANGED settings

DiscardConfig == shell.dirty /\ shell' = Clean(settings) /\ UNCHANGED settings

(* save: validated, stored, rebooted with.                                  *)
SaveConfig ==
    /\ shell.dirty /\ Valid(shell.draft)
    /\ settings' = shell.draft
    /\ shell' = Clean(shell.draft)

SettingsInit ==
    /\ settings \in BootConfigs
    /\ shell = [draft |-> settings, dirty |-> FALSE, edits |-> 0]

SettingsNext == EditSetting \/ DiscardConfig \/ SaveConfig

-------------------------------------------------------------------------------
(* Properties.                                                              *)

Uses(c) ==
    {u \in {<<r, c.role[r]>> : r \in Roles} : u[2] # Disabled}
    \cup (IF c.psu.enabled THEN {<<"sda", c.psu.sda>>, <<"scl", c.psu.scl>>} ELSE {})
    \cup {<<i, c.buttons[i].gpio>> : i \in {b \in ButtonSlots : c.buttons[b].enabled}}

(* No GPIO has two roles, none is blocked, and each can do what its role    *)
(* asks of it: the sense and the buttons are read, all others are driven.   *)
PinsAreApart(c) ==
    /\ \A u, v \in Uses(c) : u # v => u[2] # v[2]
    /\ \A u \in Uses(c) : 
          /\ u[2] \in IF u[1] \in {"sense"} \cup ButtonSlots THEN InputPins ELSE OutputPins
          /\ u[2] \notin BlockedPins

(* The pins the documentation requires of a method of switching power.      *)
RolesAreWired(c) ==
    LET wired(r) == c.role[r] # Disabled
    IN  CASE c.strategy = "ps_on_latched" -> wired("psOn")
          [] c.strategy = "ps_on_latched_then_button" -> wired("psOn") /\ wired("powerButton")
          [] c.strategy = "button_only" -> wired("sense") /\ wired("powerButton") /\ (c.hold => wired("psOn"))
          [] OTHER -> wired("psOn") /\ wired("sense") /\ wired("powerButton")

(* What PowerLogic and Buttons assume of their timing.                      *)
TimingIsSafe(c) ==
    /\ c.timing.pulse > 0 /\ c.timing.forceOff > 0
    /\ c.timing.start > c.timing.pulse /\ c.timing.shutdown > c.timing.pulse
    /\ \A i \in ButtonSlots : c.buttons[i].enabled =>
          c.buttons[i].debounce > 0 /\ c.buttons[i].long > c.buttons[i].debounce

(* The settings the controller runs with, whatever was typed, saved and     *)
(* discarded, are those the other components count on: pins apart, the      *)
(* method of switching power wired, timing in order, a radio the target     *)
(* has; and pins beyond the recommended ones are warned of.                 *)
AcceptedIsSound ==
    /\ PinsAreApart(settings)
    /\ settings.configured => RolesAreWired(settings)
    /\ TimingIsSafe(settings)
    /\ settings.profile \in Radios /\ (settings.mqtt # "off" => settings.profile = "wifi")
    /\ ~Warned(settings) => \A u \in Uses(settings) : u[2] \in SafePins

===============================================================================
