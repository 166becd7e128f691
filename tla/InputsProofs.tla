------------------------------ MODULE InputsProofs ------------------------------
(****************************************************************************)
(* Proofs about Inputs, for any buttons, controllers, timings and length of *)
(* the queue: type correctness, GesturesTellPresses and                     *)
(* ArrivalsTellAbsence.                                                     *)
(****************************************************************************)
EXTENDS Inputs, TLAPS

-------------------------------------------------------------------------------
(* Buttons.  The presses that wait are the clicks counted and the press     *)
(* under way, unless the click counter is saturated; and no pass leaves a   *)
(* gesture behind that it could have reported.                              *)

Underway(b) == IF b.stable /\ ~b.longSent THEN 1 ELSE 0

Accounted(b, w) ==
    /\ w >= b.clicks + Underway(b)
    /\ b.clicks < MaxClicks => w = b.clicks + Underway(b)
    /\ b.longSent => b.clicks = 0
Exhausted(b) == ~IsLong(b) /\ ~WindowOver(b)

ButtonInv ==
    \A id \in ButtonIds : Accounted(buttons[id], waiting[id]) /\ Exhausted(buttons[id])

(* The parts of an update, field by field.                                  *)
LEMMA AgedFields ==
    ASSUME NEW b \in Button, NEW dt \in 1 .. MaxScan
    PROVE  /\ Aged(b, dt) \in Button
           /\ Aged(b, dt).stable = b.stable /\ Aged(b, dt).longSent = b.longSent
           /\ Aged(b, dt).clicks = b.clicks
<1>1. \A x \in Age : Older(x, dt) \in Age
  BY ButtonsAssumption DEF Older, Age
<1> QED
  BY <1>1 DEF Aged, Button

LEMMA ReadFields ==
    ASSUME NEW b \in Button, NEW raw \in BOOLEAN
    PROVE  /\ Read(b, raw) \in Button
           /\ Read(b, raw).stable = b.stable /\ Read(b, raw).longSent = b.longSent
           /\ Read(b, raw).clicks = b.clicks
<1>1. 0 \in Age
  BY ButtonsAssumption DEF Age
<1> QED
  BY <1>1 DEF Read, Button

LEMMA DebouncedFields ==
    ASSUME NEW b \in Button
    PROVE  LET s == Debounced(b)
           IN  /\ s \in Button
               /\ \/ s.stable = b.stable /\ s.longSent = b.longSent /\ s.clicks = b.clicks
                  \/ /\ ~b.stable /\ s.stable
                     /\ ~s.longSent /\ s.clicks = b.clicks
                  \/ /\ b.stable /\ ~s.stable /\ b.longSent
                     /\ s.longSent /\ s.clicks = b.clicks
                  \/ /\ b.stable /\ ~s.stable /\ ~b.longSent
                     /\ ~s.longSent /\ s.clicks = Count(b.clicks)
<1>1. 0 \in Age
  BY ButtonsAssumption DEF Age
<1>2. Count(b.clicks) \in 0 .. MaxClicks
  BY ButtonsAssumption DEF Count, Button
<1>3. b.stable \in BOOLEAN /\ b.raw \in BOOLEAN /\ b.longSent \in BOOLEAN
  BY DEF Button
<1>4. CASE b.stable = b.raw \/ b.rawAge < Debounce
  BY <1>4 DEF Debounced
<1>5. CASE ~(b.stable = b.raw \/ b.rawAge < Debounce) /\ b.raw
  <2>1. Debounced(b) = [b EXCEPT !.stable = TRUE, !.pressAge = 0, !.longSent = FALSE]
    BY <1>5 DEF Debounced, Pressed
  <2> QED
    BY <2>1, <1>1, <1>3, <1>5 DEF Button
<1>6. CASE ~(b.stable = b.raw \/ b.rawAge < Debounce) /\ ~b.raw /\ b.longSent
  <2>1. Debounced(b) = [b EXCEPT !.stable = FALSE]
    BY <1>6 DEF Debounced, Released
  <2> QED
    BY <2>1, <1>3, <1>6 DEF Button
<1>7. CASE ~(b.stable = b.raw \/ b.rawAge < Debounce) /\ ~b.raw /\ ~b.longSent
  <2> DEFINE c == Count(b.clicks)
  <2>1. Debounced(b) = [b EXCEPT !.stable = FALSE, !.clicks = c, !.releaseAge = 0]
    BY <1>7 DEF Debounced, Released
  <2> HIDE DEF c
  <2>2. /\ Debounced(b) \in Button
        /\ ~Debounced(b).stable /\ Debounced(b).longSent = b.longSent /\ Debounced(b).clicks = c
    BY <2>1, <1>1, <1>2 DEF Button, c
  <2> QED
    BY <2>2, <1>3, <1>7 DEF c
<1> QED
  BY <1>4, <1>5, <1>6, <1>7

(* What the first part of an update, before a gesture is looked for, does.  *)
LEMMA SettledFields ==
    ASSUME NEW b \in Button, NEW dt \in 1 .. MaxScan, NEW raw \in BOOLEAN
    PROVE  LET s == Settled(b, dt, raw)
           IN  /\ s \in Button
               /\ \/ s.stable = b.stable /\ s.longSent = b.longSent /\ s.clicks = b.clicks
                  \/ /\ ~b.stable /\ s.stable
                     /\ ~s.longSent /\ s.clicks = b.clicks
                  \/ /\ b.stable /\ ~s.stable /\ b.longSent
                     /\ s.longSent /\ s.clicks = b.clicks
                  \/ /\ b.stable /\ ~s.stable /\ ~b.longSent
                     /\ ~s.longSent /\ s.clicks = Count(b.clicks)
<1> DEFINE r == Read(Aged(b, dt), raw)
<1>1. /\ r \in Button
      /\ r.stable = b.stable /\ r.longSent = b.longSent /\ r.clicks = b.clicks
  BY AgedFields, ReadFields
<1>2. Settled(b, dt, raw) = Debounced(r)
  BY DEF Settled
<1> HIDE DEF r
<1> QED
  BY <1>1, <1>2, DebouncedFields

(* The fields a report changes.                                             *)
LEMMA ReportedFields ==
    ASSUME NEW b \in Button
    PROVE  /\ Reported(b) \in Button
           /\ Reported(b).stable = b.stable
           /\ Reported(b).pressAge = b.pressAge /\ Reported(b).releaseAge = b.releaseAge
           /\ IsLong(b) => Reported(b).longSent /\ Reported(b).clicks = 0
           /\ ~IsLong(b) => Reported(b).longSent = b.longSent
           /\ ~IsLong(b) /\ WindowOver(b) => Reported(b).clicks = 0
           /\ ~IsLong(b) /\ ~WindowOver(b) => Reported(b) = b
           /\ Recognized(b) \in Gestures
<1>1. Recognized(b) \in Gestures
  BY DEF Recognized, Gestures
<1>2. 0 \in 0 .. MaxClicks
  BY ButtonsAssumption
<1>3. CASE IsLong(b)
  <2>1. Reported(b) = [b EXCEPT !.longSent = TRUE, !.clicks = 0]
    BY <1>3 DEF Reported
  <2> QED
    BY <1>1, <1>2, <1>3, <2>1 DEF Button
<1>4. CASE ~IsLong(b) /\ WindowOver(b)
  <2>1. Reported(b) = [b EXCEPT !.clicks = 0]
    BY <1>4 DEF Reported
  <2> QED
    BY <1>1, <1>2, <1>4, <2>1 DEF Button
<1>5. CASE ~IsLong(b) /\ ~WindowOver(b)
  BY <1>1, <1>5 DEF Reported
<1> QED
  BY <1>3, <1>4, <1>5

(* One button in one pass: w presses waited before, p wait when the level   *)
(* has settled.                                                             *)
LEMMA ButtonPass ==
    ASSUME NEW id \in ButtonIds, NEW b \in Button, NEW w \in 0 .. Many,
           buttons[id] = b, waiting[id] = w, Accounted(b, w),
           NEW dt \in 1 .. MaxScan, NEW raw \in BOOLEAN
    PROVE  LET s == Settled(b, dt, raw)
               p == Presses(id, s)
           IN  /\ p \in 0 .. Many
               /\ Accounted(s, p)
               /\ Exhausted(Reported(s))
               /\ Recognized(s) = "none" => Reported(s) = s
               /\ Recognized(s) # "none" => Accounted(Reported(s), 0)
               /\ Recognized(s) = "short"  => ~s.stable /\ p = 1
               /\ Recognized(s) = "double" => ~s.stable /\ p >= 2
               /\ Recognized(s) = "long"   => s.stable /\ s.pressAge >= LongPress /\ p >= 1
<1> DEFINE s == Settled(b, dt, raw)
           p == Presses(id, s)
           t == Reported(s)
<1> USE ButtonsAssumption
<1>1. s \in Button
  BY SettledFields
<1>2. p = IF ~b.stable /\ s.stable /\ w < Many THEN w + 1 ELSE w
  BY DEF Presses
<1>3. /\ b.clicks \in 0 .. MaxClicks /\ s.clicks \in 0 .. MaxClicks
      /\ b.stable \in BOOLEAN /\ s.stable \in BOOLEAN
      /\ b.longSent \in BOOLEAN /\ s.longSent \in BOOLEAN
      /\ s.pressAge \in Int /\ s.releaseAge \in Int
  BY <1>1 DEF Button, Age
<1>4. p \in 0 .. Many /\ Accounted(s, p)
  <2>1. w >= b.clicks + Underway(b) /\ (b.clicks < MaxClicks => w = b.clicks + Underway(b))
        /\ (b.longSent => b.clicks = 0)
    BY DEF Accounted
  <2>2. CASE s.stable = b.stable /\ s.longSent = b.longSent /\ s.clicks = b.clicks
    BY <2>1, <2>2, <1>2, <1>3 DEF Accounted, Underway
  <2>3. CASE ~b.stable /\ s.stable /\ ~s.longSent /\ s.clicks = b.clicks
    BY <2>1, <2>3, <1>2, <1>3 DEF Accounted, Underway, Many
  <2>4. CASE b.stable /\ ~s.stable /\ b.longSent /\ s.longSent /\ s.clicks = b.clicks
    BY <2>1, <2>4, <1>2, <1>3 DEF Accounted, Underway
  <2>5. CASE b.stable /\ ~s.stable /\ ~b.longSent /\ ~s.longSent /\ s.clicks = Count(b.clicks)
    BY <2>1, <2>5, <1>2, <1>3 DEF Accounted, Underway, Count
  <2> QED
    BY <2>2, <2>3, <2>4, <2>5, SettledFields
<1> HIDE DEF s, p
<1>5. /\ t \in Button /\ t.stable = s.stable
      /\ t.pressAge = s.pressAge /\ t.releaseAge = s.releaseAge
      /\ IsLong(s) => t.longSent /\ t.clicks = 0
      /\ ~IsLong(s) => t.longSent = s.longSent
      /\ ~IsLong(s) /\ WindowOver(s) => t.clicks = 0
      /\ ~IsLong(s) /\ ~WindowOver(s) => t = s
  BY <1>1, ReportedFields
<1> HIDE DEF t
<1>6. CASE IsLong(s)
  <2>1. s.stable /\ ~s.longSent /\ s.pressAge >= LongPress /\ Recognized(s) = "long"
    BY <1>6 DEF IsLong, Recognized
  <2>2. p >= 1
    BY <2>1, <1>3, <1>4 DEF Accounted, Underway
  <2>3. Exhausted(t) /\ Accounted(t, 0)
    BY <2>1, <1>5, <1>6 DEF Exhausted, IsLong, WindowOver, Accounted, Underway
  <2> QED
    BY <2>1, <2>2, <2>3, <1>4 DEF s, p, t
<1>7. CASE ~IsLong(s) /\ WindowOver(s)
  <2>1. ~s.stable /\ s.clicks > 0 /\ Recognized(s) = IF s.clicks >= 2 THEN "double" ELSE "short"
    BY <1>7 DEF WindowOver, Recognized
  <2>2. p >= s.clicks /\ (s.clicks = 1 => p = 1)
    BY <2>1, <1>3, <1>4 DEF Accounted, Underway
  <2>3. Exhausted(t) /\ Accounted(t, 0)
    BY <2>1, <1>5, <1>7 DEF Exhausted, IsLong, WindowOver, Accounted, Underway
  <2>4. s.clicks >= 2 => p >= 2
    BY <2>2, <1>3, <1>4
  <2> QED
    BY <2>1, <2>2, <2>3, <2>4, <1>3, <1>4 DEF s, p, t
<1>8. CASE ~IsLong(s) /\ ~WindowOver(s)
  <2>1. Recognized(s) = "none" /\ t = s /\ Exhausted(t)
    BY <1>5, <1>8 DEF Recognized, Exhausted
  <2> QED
    BY <2>1, <1>4 DEF s, p, t
<1> QED
  BY <1>6, <1>7, <1>8

LEMMA ButtonsInitially == ButtonsInit => ButtonsOK /\ ButtonInv /\ GesturesTellPresses
<1> SUFFICES ASSUME ButtonsInit PROVE ButtonsOK /\ ButtonInv /\ GesturesTellPresses
  OBVIOUS
<1> DEFINE Fresh(held) == [raw |-> held, stable |-> held, longSent |-> FALSE,
               clicks |-> 0, rawAge |-> 0, pressAge |-> 0, releaseAge |-> 0]
<1>1. LongPress > 0 /\ DoublePress > 0 /\ 0 \in Age /\ 0 \in 0 .. MaxClicks
      /\ 0 \in 0 .. Many /\ 1 \in 0 .. Many /\ MaxClicks > 1 /\ MaxClicks \in Nat
  BY ButtonsAssumption DEF Age, Many
<1>2. \A held \in BOOLEAN :
         /\ Fresh(held) \in Button /\ Fresh(held).stable = held
         /\ Exhausted(Fresh(held)) /\ Accounted(Fresh(held), IF held THEN 1 ELSE 0)
         /\ Fresh(held).pressAge < LongPress /\ Fresh(held).releaseAge < DoublePress
  <2> SUFFICES ASSUME NEW held \in BOOLEAN
               PROVE  /\ Fresh(held) \in Button /\ Fresh(held).stable = held
                      /\ Exhausted(Fresh(held)) /\ Accounted(Fresh(held), IF held THEN 1 ELSE 0)
                      /\ Fresh(held).pressAge < LongPress
                      /\ Fresh(held).releaseAge < DoublePress
    OBVIOUS
  <2> DEFINE f == Fresh(held)
  <2>1. f \in Button
    BY <1>1 DEF Button
  <2>2. f.stable = held /\ f.longSent = FALSE /\ f.clicks = 0
        /\ f.pressAge = 0 /\ f.releaseAge = 0
    OBVIOUS
  <2> HIDE DEF f
  <2>3. Exhausted(f)
    BY <1>1, <2>2, ButtonsAssumption DEF Exhausted, IsLong, WindowOver
  <2>4. Accounted(f, IF held THEN 1 ELSE 0)
    BY <1>1, <2>2 DEF Accounted, Underway
  <2> QED
    BY <1>1, <2>1, <2>2, <2>3, <2>4 DEF f
<1> HIDE DEF Fresh
<1>3. buttons \in [ButtonIds -> {Fresh(held) : held \in BOOLEAN}]
  BY DEF ButtonsInit, Fresh
<1>4. \A id \in ButtonIds : \E held \in BOOLEAN : buttons[id] = Fresh(held)
  BY <1>3
<1>5. /\ gesture = [id \in ButtonIds |-> "none"] /\ answered = [id \in ButtonIds |-> 0]
      /\ waiting = [id \in ButtonIds |-> IF buttons[id].stable THEN 1 ELSE 0]
  BY DEF ButtonsInit
<1>6. ButtonsOK
  BY <1>1, <1>2, <1>3, <1>5 DEF ButtonsOK, Gestures
<1>7. ButtonInv
  BY <1>2, <1>4, <1>5 DEF ButtonInv
<1>8. GesturesTellPresses
  BY <1>2, <1>4, <1>5 DEF GesturesTellPresses
<1> QED
  BY <1>6, <1>7, <1>8

LEMMA ButtonsStep ==
    ASSUME ButtonsOK, ButtonInv, ButtonTask
    PROVE  ButtonsOK' /\ ButtonInv' /\ GesturesTellPresses'
<1>1. PICK dt \in 1 .. MaxScan, level \in [ButtonIds -> BOOLEAN] : Scan(dt, level)
  BY DEF ButtonTask
<1> DEFINE S(id) == Settled(buttons[id], dt, level[id])
           P(id) == Presses(id, S(id))
<1>2. \A id \in ButtonIds :
         /\ buttons'[id] = Reported(S(id)) /\ gesture'[id] = Recognized(S(id))
         /\ answered'[id] = IF Recognized(S(id)) = "none" THEN 0 ELSE P(id)
         /\ waiting'[id] = IF Recognized(S(id)) = "none" THEN P(id) ELSE 0
  BY <1>1 DEF Scan
<1>3. \A id \in ButtonIds :
         /\ S(id) \in Button /\ Reported(S(id)) \in Button /\ Recognized(S(id)) \in Gestures
         /\ Reported(S(id)).stable = S(id).stable
         /\ Reported(S(id)).pressAge = S(id).pressAge
  BY SettledFields, ReportedFields DEF ButtonsOK
<1>4. \A id \in ButtonIds :
         /\ P(id) \in 0 .. Many
         /\ Accounted(S(id), P(id))
         /\ Exhausted(Reported(S(id)))
         /\ Recognized(S(id)) = "none" => Reported(S(id)) = S(id)
         /\ Recognized(S(id)) # "none" => Accounted(Reported(S(id)), 0)
         /\ Recognized(S(id)) = "short"  => ~S(id).stable /\ P(id) = 1
         /\ Recognized(S(id)) = "double" => ~S(id).stable /\ P(id) >= 2
         /\ Recognized(S(id)) = "long" =>
                S(id).stable /\ S(id).pressAge >= LongPress /\ P(id) >= 1
  BY ButtonPass DEF ButtonsOK, ButtonInv
<1>5. ButtonsOK'
  <2>1. Many \in Nat
    BY ButtonsAssumption DEF Many
  <2>2. /\ DOMAIN buttons' = ButtonIds /\ DOMAIN gesture' = ButtonIds
        /\ DOMAIN answered' = ButtonIds /\ DOMAIN waiting' = ButtonIds
    BY <1>1 DEF Scan
  <2>3. /\ buttons' = [id \in ButtonIds |-> buttons'[id]]
        /\ gesture' = [id \in ButtonIds |-> gesture'[id]]
        /\ answered' = [id \in ButtonIds |-> answered'[id]]
        /\ waiting' = [id \in ButtonIds |-> waiting'[id]]
    BY <1>1 DEF Scan
  <2> HIDE DEF S, P
  <2>4. \A id \in ButtonIds :
           /\ buttons'[id] \in Button /\ gesture'[id] \in Gestures
           /\ answered'[id] \in 0 .. Many /\ waiting'[id] \in 0 .. Many
    BY <2>1, <1>2, <1>3, <1>4
  <2> QED
    BY <2>3, <2>4 DEF ButtonsOK
<1>6. ButtonInv'
  <2> HIDE DEF S, P
  <2>1. \A id \in ButtonIds :
           Accounted(buttons'[id], waiting'[id]) /\ Exhausted(buttons'[id])
    BY <1>2, <1>4
  <2> QED
    BY <2>1 DEF ButtonInv, Accounted, Exhausted, Underway, IsLong, WindowOver
<1>7. GesturesTellPresses'
  <2> SUFFICES ASSUME NEW id \in ButtonIds
               PROVE  /\ gesture'[id] = "short"  => ~buttons'[id].stable /\ answered'[id] = 1
                      /\ gesture'[id] = "double" => ~buttons'[id].stable /\ answered'[id] >= 2
                      /\ gesture'[id] = "long"   =>
                             /\ buttons'[id].stable /\ buttons'[id].pressAge >= LongPress
                             /\ answered'[id] >= 1
                      /\ waiting'[id] > 0 =>
                             IF buttons'[id].stable THEN buttons'[id].pressAge < LongPress
                             ELSE buttons'[id].releaseAge < DoublePress
    BY DEF GesturesTellPresses
  <2> DEFINE b == buttons'[id]
             w == waiting'[id]
  <2>1. /\ b.stable \in BOOLEAN /\ b.longSent \in BOOLEAN /\ b.clicks \in 0 .. MaxClicks
        /\ b.pressAge \in Int /\ b.releaseAge \in Int /\ w \in 0 .. Many
    BY <1>5, ButtonsAssumption DEF ButtonsOK, Button, Age
  <2>2. Accounted(b, w) /\ Exhausted(b)
    BY <1>2, <1>4
  <2> HIDE DEF S, P
  <2>3. /\ gesture'[id] = "short"  => ~b.stable /\ answered'[id] = 1
        /\ gesture'[id] = "double" => ~b.stable /\ answered'[id] >= 2
        /\ gesture'[id] = "long" => b.stable /\ b.pressAge >= LongPress /\ answered'[id] >= 1
    BY <1>2, <1>3, <1>4
  <2> HIDE DEF b, w
  <2>4. w > 0 => IF b.stable THEN b.pressAge < LongPress ELSE b.releaseAge < DoublePress
    BY <2>1, <2>2, ButtonsAssumption
       DEF Accounted, Exhausted, Underway, IsLong, WindowOver, Many
  <2> QED
    BY <2>3, <2>4 DEF b, w
<1> QED
  BY <1>5, <1>6, <1>7

-------------------------------------------------------------------------------
(* Presence on one core.  A device that is heard continuously has arrived   *)
(* and its age is no more than its silence, unless the host task is about   *)
(* to stamp it, and the clock stands still; so whatever is about to be      *)
(* dropped, or would be by the clock reading of the pass, is not heard      *)
(* continuously.  And what would be dropped is still to be looked at, about *)
(* to be dropped, or just heard again.                                      *)

Continuous(d) == silence[d] < Absent
HostInv ==
    /\ host.at # "idle" => host.device \in Devices
    /\ host.at \in {"stamp", "post"} => present[host.device]
    /\ host.at # "idle" /\ host.arrived => ~Continuous(host.device)
    /\ host.at = "post" =>
           host.arrived /\ age[host.device] = 0 /\ passAge[host.device] = -1
HeardInv ==
    \A d \in Devices : Continuous(d) =>
        /\ present[d] /\ age[d] < Absent /\ passAge[d] < Absent
        /\ age[d] > silence[d] => host.at \in {"set", "stamp"} /\ host.device = d
DropInv ==
    pass.at = "drop" =>
        /\ pass.device \in Devices
        /\ present[pass.device] /\ ~Continuous(pass.device)
        /\ host.at # "idle" /\ host.arrived => host.device # pass.device
LookInv ==
    /\ pass.at = "rest" => todo = {}
    /\ \A d \in Devices : present[d] /\ passAge[d] >= Absent =>
           \/ d \in todo
           \/ pass.at = "drop" /\ pass.device = d
           \/ host.at = "stamp" /\ host.device = d
PresenceInv == HostInv /\ HeardInv /\ DropInv /\ LookInv /\ repeated = {}

(* On any number of cores: a task that is at work is at work on a device.   *)
NamedInv ==
    /\ host.at # "idle" => host.device \in Devices
    /\ pass.at = "drop" => pass.device \in Devices

LEMMA PresenceInitially == PresenceInit => PresenceOK /\ NamedInv /\ PresenceInv
<1> SUFFICES ASSUME PresenceInit PROVE PresenceOK /\ NamedInv /\ PresenceInv
  OBVIOUS
<1> USE PresenceAssumption DEF PresenceInit
<1>1. PresenceOK
  <2>1. host \in [at : {"idle", "set", "stamp", "post"}, device : Devices \cup {Nobody},
                  arrived : BOOLEAN]
    BY DEF Resting
  <2>2. pass \in [at : {"rest", "look", "drop"}, device : Devices \cup {Nobody}]
    OBVIOUS
  <2>3. /\ present \in [Devices -> BOOLEAN] /\ silence \in [Devices -> 0 .. Absent]
        /\ age \in [Devices -> 0 .. Absent] /\ passAge \in [Devices -> -1 .. Absent]
    OBVIOUS
  <2> QED
    BY <2>1, <2>2, <2>3 DEF PresenceOK
<1>2. NamedInv /\ PresenceInv
  BY DEF NamedInv, PresenceInv, HostInv, HeardInv, Continuous, DropInv, LookInv, Resting
<1> QED
  BY <1>1, <1>2

PresenceStep == HostTask \/ PresenceTask \/ BleEnvironment

LEMMA PresenceTypes ==
    ASSUME PresenceOK, NamedInv, PresenceStep PROVE PresenceOK' /\ NamedInv'
<1> USE PresenceAssumption DEF PresenceOK, NamedInv
<1>1. ASSUME NEW d \in Devices, Hear(d) PROVE PresenceOK' /\ NamedInv'
  BY <1>1 DEF Hear, memory, looking, radio
<1>2. CASE SetPresent
  BY <1>2 DEF SetPresent, looking, radio
<1>3. CASE Stamp
  BY <1>3 DEF Stamp, Resting, radio
<1>4. CASE Arrive
  BY <1>4 DEF Arrive, Resting, looking, radio
<1>5. CASE PresenceTask
  <2>1. CASE BeginPass
    <3>1. age \in [Devices -> -1 .. Absent]
      OBVIOUS
    <3> QED
      BY <2>1, <3>1 DEF BeginPass, memory, Scanning
  <2>2. ASSUME NEW d \in Devices, Look(d) PROVE PresenceOK' /\ NamedInv'
    BY <2>2 DEF Look, memory, radio
  <2>3. CASE Drop
    BY <2>3 DEF Drop, radio
  <2>4. CASE EndPass
    BY <2>4 DEF EndPass, memory, radio
  <2> QED
    BY <1>5, <2>1, <2>2, <2>3, <2>4 DEF PresenceTask
<1>6. CASE BleEnvironment
  <2>1. CASE Sync \/ HostReset \/ StartLearning \/ LearningEnds
    BY <2>1 DEF Sync, HostReset, StartLearning, LearningEnds, memory, looking, Scanning
  <2>2. ASSUME NEW dt \in 1 .. MaxDelay, Advance(dt) PROVE PresenceOK' /\ NamedInv'
    <3>1. \A a \in 0 .. Absent : Later(a, dt) \in 0 .. Absent
      BY DEF Later
    <3>2. age' \in [Devices -> 0 .. Absent]
      BY <2>2, <3>1 DEF Advance
    <3>3. silence' \in [Devices -> 0 .. Absent]
      BY <2>2, <3>1 DEF Advance
    <3> QED
      BY <2>2, <3>2, <3>3 DEF Advance, looking, radio
  <2> QED
    BY <1>6, <2>1, <2>2 DEF BleEnvironment
<1> QED
  BY <1>1, <1>2, <1>3, <1>4, <1>5, <1>6 DEF PresenceStep, HostTask

LEMMA PresenceKept ==
    ASSUME Cores = 1, PresenceOK, PresenceInv, PresenceStep PROVE PresenceInv'
<1> USE PresenceAssumption DEF PresenceOK, PresenceInv, Continuous
<1>1. ASSUME NEW d \in Devices, Hear(d) PROVE PresenceInv'
  <2>1. /\ host.at = "idle"
        /\ host' = [at |-> "set", device |-> d, arrived |-> ~present[d]]
        /\ UNCHANGED <<present, age, repeated, pass, todo, passAge>>
    BY <1>1 DEF Hear, looking
  <2>2. \A e \in Devices : \/ silence'[e] = silence[e]
                           \/ e = d /\ silence[e] < Absent /\ silence'[e] = 0
    <3>1. CASE silence[d] = Absent
      BY <1>1, <3>1 DEF Hear
    <3>2. CASE silence[d] # Absent
      <4>1. silence' = [silence EXCEPT ![d] = 0]
        BY <1>1, <3>2 DEF Hear
      <4> QED
        BY <3>2, <4>1
    <3> QED
      BY <3>1, <3>2
  <2>3. \A e \in Devices : Continuous(e)' <=> Continuous(e)
    BY <2>2
  <2>4. host'.at = "set" /\ host'.device = d /\ host'.arrived = ~present[d]
    BY <2>1
  <2>5. HostInv'
    BY <2>1, <2>3, <2>4 DEF HostInv, HeardInv
  <2>6. HeardInv'
    BY <2>1, <2>2, <2>3, <2>4 DEF HeardInv
  <2>7. DropInv'
    BY <2>1, <2>3, <2>4 DEF DropInv
  <2>8. LookInv'
    BY <2>1, <2>4 DEF LookInv
  <2> QED
    BY <2>1, <2>5, <2>6, <2>7, <2>8
<1>2. CASE SetPresent
  <2> USE <1>2 DEF SetPresent, looking, radio
  <2>1. HostInv' /\ HeardInv'
    BY DEF HostInv, HeardInv
  <2>2. DropInv'
    BY DEF HostInv, DropInv
  <2>3. LookInv'
    BY DEF HostInv, LookInv
  <2> QED
    BY <2>1, <2>2, <2>3
<1>3. CASE Stamp
  <2> USE <1>3 DEF Stamp, Resting, radio
  <2>1. HostInv' /\ HeardInv'
    BY DEF HostInv, HeardInv
  <2>2. DropInv'
    BY DEF HostInv, DropInv
  <2>3. LookInv'
    BY DEF HostInv, LookInv
  <2> QED
    BY <2>1, <2>2, <2>3
<1>4. CASE Arrive
  <2> USE <1>4 DEF Arrive, Resting, looking, radio
  <2>1. HostInv' /\ HeardInv'
    BY DEF HostInv, HeardInv
  <2>2. DropInv' /\ LookInv'
    BY DEF HostInv, DropInv, LookInv
  <2>3. repeated' = {}
    BY DEF HostInv
  <2> QED
    BY <2>1, <2>2, <2>3
<1>5. CASE PresenceTask
  <2>1. CASE BeginPass
    <3> USE <2>1 DEF BeginPass, memory, Undivided
    <3>1. HostInv' /\ HeardInv'
      BY DEF HostInv, HeardInv
    <3>2. DropInv' /\ LookInv'
      BY DEF DropInv, LookInv
    <3> QED
      BY <3>1, <3>2
  <2>2. ASSUME NEW d \in Devices, Look(d) PROVE PresenceInv'
    <3> USE <2>2 DEF Look, memory, radio, Undivided
    <3>1. HostInv' /\ HeardInv'
      BY DEF HostInv, HeardInv
    <3>2. DropInv'
      BY DEF DropInv, Gone, HeardInv
    <3>3. LookInv'
      BY DEF LookInv, Gone
    <3> QED
      BY <3>1, <3>2, <3>3
  <2>3. CASE Drop
    <3> USE <2>3 DEF Drop, radio, Undivided
    <3>1. HostInv' /\ HeardInv'
      BY DEF HostInv, HeardInv, DropInv
    <3>2. DropInv' /\ LookInv'
      BY DEF DropInv, LookInv
    <3> QED
      BY <3>1, <3>2
  <2>4. CASE EndPass
    BY <2>4 DEF EndPass, memory, radio, HostInv, HeardInv, DropInv, LookInv
  <2> QED
    BY <1>5, <2>1, <2>2, <2>3, <2>4 DEF PresenceTask
<1>6. CASE BleEnvironment
  <2>1. CASE Sync \/ HostReset \/ StartLearning \/ LearningEnds
    BY <2>1 DEF Sync, HostReset, StartLearning, LearningEnds, memory, looking,
                HostInv, HeardInv, DropInv, LookInv
  <2>2. ASSUME NEW dt \in 1 .. MaxDelay, Advance(dt) PROVE PresenceInv'
    <3> USE <2>2 DEF Advance, looking, radio
    <3>1. \A d \in Devices :
             /\ silence'[d] < Absent => silence'[d] = silence[d] + dt
             /\ age'[d] = IF age[d] + dt < Absent THEN age[d] + dt ELSE Absent
      BY DEF Later
    <3>2. HostInv' /\ HeardInv'
      BY <3>1 DEF HostInv, HeardInv
    <3>3. DropInv' /\ LookInv'
      BY <3>1 DEF DropInv, LookInv
    <3> QED
      BY <3>2, <3>3
  <2> QED
    BY <1>6, <2>1, <2>2 DEF BleEnvironment
<1> QED
  BY <1>1, <1>2, <1>3, <1>4, <1>5, <1>6 DEF PresenceStep, HostTask

-------------------------------------------------------------------------------
(* The composition.  A gesture that is still to be posted has an action.    *)

UnpostedInv ==
    \A id \in unposted : gesture[id] # "none" /\ ActionOf[id][gesture[id]] # "none"

LEMMA PostedTypes ==
    ASSUME NEW event \in Event, events \in Seq(Event), Len(events) <= EventCap
    PROVE  Posted(event) \in Seq(Event) /\ Len(Posted(event)) <= EventCap
BY InputsAssumption DEF Posted

LEMMA InitTypes == Init => TypeOK /\ NamedInv /\ UnpostedInv
<1> SUFFICES ASSUME Init PROVE TypeOK /\ NamedInv /\ UnpostedInv
  OBVIOUS
<1>1. ButtonsOK /\ PresenceOK /\ NamedInv
  BY ButtonsInitially, PresenceInitially DEF Init
<1>2. events = <<>> /\ unposted = {}
  BY DEF Init
<1>3. events \in Seq(Event) /\ Len(events) <= EventCap
  BY <1>2, InputsAssumption
<1> QED
  BY <1>1, <1>2, <1>3 DEF TypeOK, UnpostedInv

(* Each part stands still while the other one moves.                        *)
LEMMA ButtonsUnchanged ==
    ASSUME UNCHANGED buttonVars
    PROVE  /\ ButtonsOK => ButtonsOK'
           /\ ButtonInv => ButtonInv'
           /\ GesturesTellPresses => GesturesTellPresses'
BY DEF buttonVars, ButtonsOK, ButtonInv, GesturesTellPresses, Accounted, Exhausted, Underway,
       IsLong, WindowOver

LEMMA PresenceUnchanged ==
    ASSUME UNCHANGED presenceVars
    PROVE  /\ PresenceOK => PresenceOK'
           /\ NamedInv => NamedInv'
           /\ PresenceInv => PresenceInv'
BY DEF presenceVars, PresenceOK, NamedInv, PresenceInv, HostInv, HeardInv, Continuous, DropInv,
       LookInv

LEMMA NextMovesOne ==
    ASSUME [Next]_inputVars
    PROVE  /\ ButtonTask \/ UNCHANGED buttonVars
           /\ PresenceStep \/ UNCHANGED presenceVars
BY DEF Next, inputVars, ScanButtons, EmitAction, PostArrival, Listen, Dispatch,
       PresenceStep, HostTask

LEMMA NextTypes ==
    ASSUME TypeOK, NamedInv, UnpostedInv, ButtonInv, [Next]_inputVars
    PROVE  TypeOK' /\ NamedInv' /\ UnpostedInv'
<1>1. ButtonsOK'
  BY NextMovesOne, ButtonsStep, ButtonsUnchanged DEF TypeOK
<1>2. PresenceOK' /\ NamedInv'
  BY NextMovesOne, PresenceTypes, PresenceUnchanged DEF TypeOK
<1> DEFINE Rest == /\ events' \in Seq(Event) /\ Len(events') <= EventCap
                   /\ unposted' \subseteq ButtonIds /\ UnpostedInv'
<1> SUFFICES Rest
  BY <1>1, <1>2 DEF TypeOK
<1>3. /\ events \in Seq(Event) /\ Len(events) <= EventCap /\ unposted \subseteq ButtonIds
      /\ gesture \in [ButtonIds -> Gestures]
  BY DEF TypeOK, ButtonsOK
<1>4. CASE ScanButtons
  <2>1. events' = events /\ unposted' \subseteq ButtonIds
    BY <1>4 DEF ScanButtons
  <2>2. UnpostedInv'
    BY <1>4 DEF ScanButtons, UnpostedInv
  <2> QED
    BY <1>3, <2>1, <2>2
<1>5. ASSUME NEW id \in ButtonIds, EmitAction(id) PROVE Rest
  <2> DEFINE event == [type |-> "action", what |-> ActionOf[id][gesture[id]]]
  <2>1. gesture[id] # "none" /\ ActionOf[id][gesture[id]] # "none"
    BY <1>5 DEF EmitAction, UnpostedInv
  <2>2. gesture[id] \in {"short", "double", "long"}
    BY <1>3, <2>1 DEF Gestures
  <2>3. event \in Event
    BY <2>1, <2>2, InputsAssumption DEF Event
  <2> HIDE DEF event
  <2>4. events' = Posted(event)
    BY <1>5 DEF EmitAction, event
  <2>5. events' \in Seq(Event) /\ Len(events') <= EventCap
    BY <1>3, <2>3, <2>4, PostedTypes
  <2>6. unposted' \subseteq ButtonIds /\ UnpostedInv'
    BY <1>3, <1>5 DEF EmitAction, UnpostedInv, buttonVars
  <2> QED
    BY <2>5, <2>6
<1>6. CASE PostArrival
  <2> DEFINE event == [type |-> "arrived", what |-> host.device]
  <2>1. event \in Event
    BY <1>6 DEF PostArrival, Arrive, NamedInv, Event
  <2> HIDE DEF event
  <2>2. events' = Posted(event)
    BY <1>6 DEF PostArrival, event
  <2>3. events' \in Seq(Event) /\ Len(events') <= EventCap
    BY <1>3, <2>1, <2>2, PostedTypes
  <2>4. unposted' \subseteq ButtonIds /\ UnpostedInv'
    BY <1>3, <1>6 DEF PostArrival, UnpostedInv, buttonVars
  <2> QED
    BY <2>3, <2>4
<1>7. CASE Dispatch
  <2>1. events' \in Seq(Event) /\ Len(events') <= EventCap
    BY <1>3, <1>7, InputsAssumption DEF Dispatch
  <2>2. unposted' \subseteq ButtonIds /\ UnpostedInv'
    BY <1>3, <1>7 DEF Dispatch, UnpostedInv, buttonVars
  <2> QED
    BY <2>1, <2>2
<1>8. CASE Listen \/ UNCHANGED inputVars
  BY <1>3, <1>8 DEF Listen, inputVars, UnpostedInv, buttonVars
<1> QED
  BY <1>4, <1>5, <1>6, <1>7, <1>8 DEF Next

-------------------------------------------------------------------------------
(* The theorems                                                             *)

(* Every reachable state is well typed, on one core or two: a gesture that  *)
(* is posted has an action, and the queue never exceeds its length.         *)
THEOREM TypeCorrect == Spec => []TypeOK
<1> DEFINE I == TypeOK /\ NamedInv /\ UnpostedInv /\ ButtonInv
<1>1. Init => I
  BY InitTypes, ButtonsInitially DEF Init
<1>2. I /\ [Next]_inputVars => I'
  BY NextTypes, NextMovesOne, ButtonsStep, ButtonsUnchanged DEF TypeOK
<1>3. I => TypeOK
  OBVIOUS
<1> QED
  BY <1>1, <1>2, <1>3, PTL DEF Spec

(* Gestures tell what was pressed, for any timing the configuration allows, *)
(* any bouncing and any delay of button_task.                               *)
THEOREM GesturesTold == Spec => []GesturesTellPresses
<1> DEFINE I == ButtonsOK /\ ButtonInv /\ GesturesTellPresses
<1>1. Init => I
  BY ButtonsInitially DEF Init
<1>2. I /\ [Next]_inputVars => I'
  BY NextMovesOne, ButtonsStep, ButtonsUnchanged
<1>3. I => GesturesTellPresses
  OBVIOUS
<1> QED
  BY <1>1, <1>2, <1>3, PTL DEF Spec

(* On one core a controller that is heard all the time arrives once, and    *)
(* one that was away for a whole pass is missed, for any number of          *)
(* controllers and any absence time.                                        *)
THEOREM ArrivalsTold == Spec => []ArrivalsTellAbsence
<1> DEFINE I == PresenceOK /\ NamedInv /\ (Cores = 1 => PresenceInv)
<1>1. Init => I
  BY PresenceInitially DEF Init
<1>2. I /\ [Next]_inputVars => I'
  <2> SUFFICES ASSUME I, [Next]_inputVars PROVE I'
    OBVIOUS
  <2>1. PresenceOK' /\ NamedInv'
    BY NextMovesOne, PresenceTypes, PresenceUnchanged
  <2>2. Cores = 1 => PresenceInv'
    BY NextMovesOne, PresenceKept, PresenceUnchanged
  <2> QED
    BY <2>1, <2>2
<1>3. I => ArrivalsTellAbsence
  BY PresenceAssumption DEF ArrivalsTellAbsence, PresenceOK, PresenceInv, LookInv
<1> QED
  BY <1>1, <1>2, <1>3, PTL DEF Spec

===============================================================================
