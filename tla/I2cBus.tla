--------------------------------- MODULE I2cBus --------------------------------
(****************************************************************************)
(* The I2C bus of src/src/i2c_service.c: one mutex, the driver's bus, which *)
(* PSU monitoring keeps and a scan creates and deletes when there is none,  *)
(* and the address sweeps the serial shell and the web server ask for.      *)
(* What the wires do is the environment's, and so is what the PSU's PIC     *)
(* makes of a transaction: a command stays until it is answered, and any    *)
(* other transaction on its address clears it.                              *)
(****************************************************************************)
EXTENDS ConfigValidation

CONSTANTS
    Scanners,       \* the tasks that may ask for a scan: shell and web server
    ScanPins,       \* the <<sda, scl>> they ask for
    Registers       \* the registers of the PIC that are polled, in their order

ASSUME BusAssumption ==
    /\ Registers \in Nat \ {0}
    /\ "none" \notin Scanners /\ "psu" \notin Scanners
    /\ ScanPins \subseteq Pins \X Pins

(* "silent" devices do not acknowledge, "garbled" replies fail their        *)
(* checksum, a "stuck" transfer times out until the bus is reset, and       *)
(* nothing can be driven while the clock is "held" low.                     *)
Lines == {"good", "silent", "garbled", "stuck", "held"}

VARIABLES
    bus,        \* who holds s_mutex; s_bus, s_sda_gpio, s_scl_gpio
    line,       \* external: the state of the wires
    asked,      \* external: the register the PIC was asked for, 0 for none
    scan        \* per scanner: "idle", in its "sweep" over the addresses, or "blocked"

busVars == <<bus, line, asked, scan>>
NoBus == [owner |-> "none", driver |-> "none", sda |-> Disabled, scl |-> Disabled]

BusOK ==
    /\ bus \in [owner : Scanners \cup {"none", "psu"}, driver : {"none", "kept", "temporary"},
                sda : Gpio, scl : Gpio]
    /\ line \in Lines /\ asked \in 0 .. Registers
    /\ scan \in [Scanners -> {"idle", "sweep", "blocked"}]

-------------------------------------------------------------------------------
ClockHigh == line # "held"

(* bc250_i2c_service_recover: a reset frees the bus, or does not.           *)
Reset == line' \in {line, "good"}

Taken(b, t) == [b EXCEPT !.owner = t]
Free == bus.owner = "none"

(* bc250_i2c_service_start, which nothing contends with at boot.            *)
BusStart(sda, scl) ==
    bus' = [bus EXCEPT !.driver = "kept", !.sda = sda, !.scl = scl]

(* Pins that are in another role, or not those of the kept bus, end a scan  *)
(* before it has touched anything.  A clock that is held low ends it before *)
(* the first probe, with the mutex taken and a temporary bus created.       *)
ScanStart(t) ==
    /\ scan[t] = "idle" /\ Free
    /\ \E pins \in ScanPins :
          /\ I2cPinsOK(settings, pins[1], pins[2])
          /\ \/ bus.driver = "kept" /\ <<bus.sda, bus.scl>> = pins /\ bus' = Taken(bus, t)
             \/ bus.driver = "none"
                /\ bus' = Taken([bus EXCEPT !.driver = "temporary", !.sda = pins[1], !.scl = pins[2]], t)
    /\ scan' = [scan EXCEPT ![t] = IF ClockHigh THEN "sweep" ELSE "blocked"]
    /\ UNCHANGED <<line, asked>>

(* One address is probed, twice when the first probe times out and a reset  *)
(* frees the bus; the PIC's address among them.                             *)
ScanProbe(t) ==
    /\ scan[t] = "sweep"
    /\ asked' \in {asked, 0}
    /\ IF line = "stuck" THEN Reset ELSE UNCHANGED line
    /\ UNCHANGED <<bus, scan>>

(* A temporary bus, which no device was added to, is deleted: that call is  *)
(* taken to succeed.                                                        *)
MutReleased(b) == [b EXCEPT !.owner = "none"]
Released(b) == IF b.driver = "temporary" THEN NoBus ELSE [b EXCEPT !.owner = "none"]

(* The last address, the three seconds, an error, a stuck line, or the      *)
(* clock.                                                                   *)
ScanEnd(t) ==
    /\ scan[t] # "idle"
    /\ scan' = [scan EXCEPT ![t] = "idle"]
    /\ bus' = Released(bus)
    /\ UNCHANGED <<line, asked>>

(* The environment. *)
WiresChange == line' \in Lines /\ UNCHANGED <<bus, asked, scan>>

BusInit ==
    /\ bus = NoBus /\ line \in Lines /\ asked = 0
    /\ scan = [t \in Scanners |-> "idle"]

-------------------------------------------------------------------------------
(* Properties.                                                              *)

(* A scan has the bus to itself from its start to its end, a bus that a scan *)
(* created is gone with it, and no bus is ever driven on the pins of an     *)
(* output, the power sense, the LED or a button.                            *)
ScansKeepApart ==
    /\ \A t \in Scanners : scan[t] # "idle" <=> bus.owner = t
    /\ bus.driver = "temporary" => bus.owner \in Scanners
    /\ bus.driver # "none" => \A u \in Uses([settings EXCEPT !.psu.enabled = FALSE]) :
          u[2] \notin {bus.sda, bus.scl}

===============================================================================
