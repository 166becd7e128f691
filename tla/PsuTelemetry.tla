------------------------------ MODULE PsuTelemetry -----------------------------
(****************************************************************************)
(* PSU monitoring (src/src/psu_i2c_service.c): a task that polls the PIC's  *)
(* registers one locked transaction at a time, publishes the pass as a      *)
(* whole or as unavailable, now and then looks for the FRU EEPROM, and      *)
(* tells Zigbee.  A reading is the register the PIC answered for, a chunk   *)
(* of EEPROM the address it was read from, 0 what was never read.           *)
(****************************************************************************)
EXTENDS I2cBus, FiniteSetsExt

CONSTANTS
    Eeproms,        \* how many addresses an EEPROM may answer at, 8 in the code
    Chunks,         \* how many reads make an EEPROM, 8 in the code
    Fittings        \* the sets of EEPROM addresses that may answer

ASSUME PsuAssumption ==
    /\ Eeproms \in Nat \ {0} /\ Chunks \in Nat \ {0}
    /\ Fittings \subseteq SUBSET (1 .. Eeproms)

VARIABLES
    psuPc,      \* psu_task: where it is
    pass,       \* its pass: the register, whether it was tried before, whether it failed
    raw,        \* the readings of the pass
    fru,        \* read_identity: address, those left, chunk, tried before, address captured
    buffer,     \* the chunks read_identity has read
    knownAt,    \* s_eeprom_address
    status,     \* s_status and s_data, as other tasks see them
    fitted      \* external: the EEPROM addresses that answer

psuVars == <<psuPc, pass, raw, fru, buffer, knownAt, status, fitted>>
psuLocals == <<fru, buffer, knownAt, fitted>>

Unread == [r \in 1 .. Registers |-> 0]
NoChunks == [k \in 1 .. Chunks |-> 0]
NoFru == [at |-> 0, left |-> {}, chunk |-> 1, tried |-> FALSE, captured |-> 0]
NewPass == [reg |-> 1, tried |-> FALSE, failed |-> FALSE]

PsuOK ==
    /\ psuPc \in {"boot", "off", "lock", "write", "read", "publish", "identify", "probe", "chunks",
                  "identified", "notify", "rest"}
    /\ pass \in [reg : 1 .. Registers, tried : BOOLEAN, failed : BOOLEAN]
    /\ raw \in [1 .. Registers -> 0 .. Registers]
    /\ fru \in [at : 0 .. Eeproms, left : SUBSET (1 .. Eeproms), chunk : 1 .. Chunks,
                tried : BOOLEAN, captured : 0 .. Eeproms]
    /\ buffer \in [1 .. Chunks -> 0 .. Eeproms]
    /\ knownAt \in 1 .. Eeproms
    /\ status \in [available : BOOLEAN, sampled : BOOLEAN, sample : [1 .. Registers -> 0 .. Registers],
                   eepromAt : 0 .. Eeproms, eeprom : [1 .. Chunks -> 0 .. Eeproms]]
    /\ fitted \subseteq 1 .. Eeproms

-------------------------------------------------------------------------------
(* bc250_psu_i2c_service_start.  A device or a task that cannot be created  *)
(* leaves the bus behind.                                                   *)
PsuStart ==
    /\ psuPc = "boot"
    /\ \/ psuPc' = "off" /\ UNCHANGED bus
       \/ /\ settings.psu.enabled /\ I2cPinsOK(settings, settings.psu.sda, settings.psu.scl)
          /\ BusStart(settings.psu.sda, settings.psu.scl)
          /\ psuPc' \in {"lock", "off"}
    /\ UNCHANGED <<pass, raw, psuLocals, status, line, asked, scan>>

(* The first error ends a pass.                                             *)
GiveUp ==
    /\ pass' = [pass EXCEPT !.failed = TRUE]
    /\ psuPc' = "publish"

(* read_register takes the mutex, or waits a second for it in vain, and     *)
(* looks at the clock.                                                      *)
PsuLock ==
    /\ psuPc = "lock"
    /\ \/ /\ Free /\ ClockHigh
          /\ bus' = Taken(bus, "psu") /\ psuPc' = "write"
          /\ pass' = [pass EXCEPT !.tried = FALSE]
       \/ (Free => ~ClockHigh) /\ GiveUp /\ UNCHANGED bus
    /\ UNCHANGED <<raw, psuLocals, status, line, asked, scan>>

(* A timeout is followed by one more try of command and answer, if the bus  *)
(* can be reset.                                                            *)
TimedOut ==
    /\ line \in {"stuck", "held"}
    /\ \/ ~pass.tried /\ ClockHigh /\ Reset /\ UNCHANGED bus
          /\ pass' = [pass EXCEPT !.tried = TRUE] /\ psuPc' = "write"
       \/ GiveUp /\ bus' = Released(bus) /\ UNCHANGED line

PsuWrite ==
    /\ psuPc = "write"
    /\ \/ /\ line \in {"good", "garbled"}
          /\ asked' = pass.reg /\ psuPc' = "read" /\ UNCHANGED <<pass, bus, line>>
       \/ line = "silent" /\ GiveUp /\ bus' = Released(bus) /\ UNCHANGED <<asked, line>>
       \/ TimedOut /\ UNCHANGED asked
    /\ UNCHANGED <<raw, psuLocals, status, scan>>

PsuRead ==
    /\ psuPc = "read"
    /\ \/ /\ line = "good" /\ UNCHANGED line
          /\ raw' = [raw EXCEPT ![pass.reg] = asked] /\ asked' = 0
          /\ bus' = Released(bus)
          /\ IF pass.reg < Registers
             THEN pass' = [pass EXCEPT !.reg = @ + 1] /\ psuPc' = "lock"
             ELSE psuPc' = "publish" /\ UNCHANGED pass
       \/ /\ line \in {"garbled", "silent"} /\ UNCHANGED line
          /\ GiveUp /\ bus' = Released(bus) /\ asked' \in {0, asked} /\ UNCHANGED raw
       \/ TimedOut /\ UNCHANGED <<raw, asked>>
    /\ UNCHANGED <<psuLocals, status, scan>>

(* One critical section: available and the readings together.               *)
MutPublished == [status EXCEPT !.available = ~pass.failed, !.sampled = TRUE, !.sample = raw]
Published ==
    IF pass.failed THEN [status EXCEPT !.available = FALSE]
    ELSE [status EXCEPT !.available = TRUE, !.sampled = TRUE, !.sample = raw]
PsuPublish ==
    /\ psuPc = "publish"
    /\ status' = Published
    /\ psuPc' \in {"identify", "notify"}    \* every minute
    /\ UNCHANGED <<pass, raw, psuLocals, busVars>>

(* read_identity: one lock for all addresses.                               *)
Identify ==
    /\ psuPc = "identify"
    /\ \/ /\ Free /\ ClockHigh
          /\ bus' = Taken(bus, "psu") /\ psuPc' = "probe"
          /\ fru' = [NoFru EXCEPT !.left = 1 .. Eeproms]
       \/ psuPc' = "identified" /\ fru' = NoFru /\ UNCHANGED bus
    /\ buffer' = NoChunks
    /\ UNCHANGED <<pass, raw, knownAt, status, fitted, line, asked, scan>>

Identified == psuPc' = "identified" /\ bus' = Released(bus)

(* The last address that was good, then the others from the highest down.   *)
NextAddress == IF knownAt \in fru.left THEN knownAt ELSE Max(fru.left)

(* No answer, or a probe that timed out and was recovered from: the next    *)
(* address.  A clock held low, or a failed recovery, ends the search.       *)
IdProbe ==
    /\ psuPc = "probe"
    /\ \/ /\ fru.left # {} /\ ClockHigh
          /\ \/ /\ line # "stuck" /\ UNCHANGED line
                /\ IF line # "silent" /\ NextAddress \in fitted
                   THEN /\ fru' = [fru EXCEPT !.at = NextAddress, !.left = @ \ {NextAddress},
                                              !.chunk = 1, !.tried = FALSE]
                        /\ psuPc' = "chunks"
                   ELSE fru' = [fru EXCEPT !.left = @ \ {NextAddress}] /\ UNCHANGED psuPc
             \/ line = "stuck" /\ Reset /\ fru' = [fru EXCEPT !.left = @ \ {NextAddress}] /\ UNCHANGED psuPc
          /\ UNCHANGED bus
       \/ /\ fru.left = {} \/ line \in {"stuck", "held"}
          /\ Identified /\ UNCHANGED <<fru, line>>
    /\ UNCHANGED <<pass, raw, buffer, knownAt, status, fitted, asked, scan>>

(* A chunk, into the same buffer whatever the address.  The whole EEPROM is *)
(* captured, and ends the search if it decodes.                             *)
IdRead ==
    /\ psuPc = "chunks"
    /\ \/ /\ line \in {"good", "garbled"} /\ UNCHANGED line
          /\ buffer' = [buffer EXCEPT ![fru.chunk] = fru.at]
          /\ \/ /\ fru.chunk < Chunks
                /\ fru' = [fru EXCEPT !.chunk = @ + 1] /\ UNCHANGED <<psuPc, bus, knownAt>>
             \/ /\ fru.chunk = Chunks /\ fru' = [fru EXCEPT !.captured = fru.at]
                /\ \/ Identified /\ knownAt' = fru.at
                   \/ psuPc' = "probe" /\ UNCHANGED <<bus, knownAt>>
       \/ /\ line = "silent" /\ psuPc' = "probe" /\ UNCHANGED <<fru, line, bus, buffer, knownAt>>
       \/ /\ line = "stuck" /\ UNCHANGED <<bus, buffer, knownAt>>
          /\ \/ ~fru.tried /\ Reset /\ fru' = [fru EXCEPT !.tried = TRUE, !.chunk = 1] /\ UNCHANGED psuPc
             \/ psuPc' = "probe" /\ UNCHANGED <<fru, line>>
       \/ /\ line = "held" /\ Identified /\ UNCHANGED <<fru, line, buffer, knownAt>>
    /\ UNCHANGED <<pass, raw, status, fitted, asked, scan>>

PublishIdentity ==
    /\ psuPc = "identified" /\ psuPc' = "notify"
    /\ status' = IF fru.captured = 0 THEN status
                 ELSE [status EXCEPT !.eepromAt = fru.captured, !.eeprom = buffer]
    /\ fru' = NoFru /\ buffer' = NoChunks
    /\ UNCHANGED <<pass, raw, knownAt, fitted, busVars>>

(* bc250_zigbee_update_psu_status, then poll_interval_ms.                   *)
PsuNotify == psuPc = "notify" /\ psuPc' = "rest" /\ UNCHANGED <<pass, raw, psuLocals, status, busVars>>
MutRenewed == [NewPass EXCEPT !.failed = pass.failed]
Renewed == NewPass
PsuRest ==
    /\ psuPc = "rest" /\ psuPc' = "lock"
    /\ pass' = Renewed /\ raw' = Unread
    /\ UNCHANGED <<psuLocals, status, busVars>>

PsuTask ==
    \/ PsuLock \/ PsuWrite \/ PsuRead \/ PsuPublish
    \/ Identify \/ IdProbe \/ IdRead \/ PublishIdentity \/ PsuRest

PsuInit ==
    /\ psuPc = "boot" /\ pass = NewPass /\ raw = Unread
    /\ fru = NoFru /\ buffer = NoChunks /\ knownAt \in 1 .. Eeproms
    /\ status = [available |-> FALSE, sampled |-> FALSE, sample |-> Unread,
                 eepromAt |-> 0, eeprom |-> NoChunks]
    /\ fitted \in Fittings

-------------------------------------------------------------------------------
(* Properties.                                                              *)

(* The task holds the mutex in its transactions and nowhere else.           *)
PsuKeepsApart == psuPc \in {"write", "read", "probe", "chunks"} <=> bus.owner = "psu"

(* What is published of the PIC is one pass, each reading answered for the  *)
(* register it is shown under; never the rest of a pass that broke off.     *)
SamplesAreWhole ==
    /\ status.sampled => \A r \in 1 .. Registers : status.sample[r] = r
    /\ status.available => status.sampled

(* Monitoring follows the PSU: with a good line and no scans it becomes     *)
(* available and stays so, and when nothing answers, or nothing can, it     *)
(* does not show an old pass as available for good.                         *)
Monitoring == psuPc \notin {"boot", "off"}
PsuFollowsLine ==
    /\ <>[](Monitoring /\ line = "good" /\ \A t \in Scanners : scan[t] = "idle")
          => <>[]status.available
    /\ \A dead \in Lines \ {"good"} : <>[](Monitoring /\ line = dead) => <>[]~status.available

(* docs/API.md:27: the EEPROM that is shown is "the last complete 256-byte  *)
(* EEPROM read" from the address that is shown with it.                     *)
EepromIsWhole ==
    status.eepromAt # 0 => \A k \in 1 .. Chunks : status.eeprom[k] = status.eepromAt

===============================================================================
