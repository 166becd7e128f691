------------------------------ MODULE WifiApProofs ------------------------------
(* Proofs about the configuration AP, for any openers, profiles, scenarios  *)
(* and numbers of failing calls.                                            *)
EXTENDS WifiAp, FiniteSetTheorems, TLAPS

(* The steps of an opening, up to the one that counts it in gen.            *)
Opening == {"ap", "pause", "mode", "config", "start"}

(* Tasks that will count one more opening: an opener in the middle of one,  *)
(* and a pairing, which may have to reopen the portal.                      *)
Upcoming == {t \in Openers \cup {"web"} : at[t] \in Opening \/ (t = "web" /\ pairing)}
Room == gen + Cardinality(Upcoming) <= MaxGeneration + Cardinality(Openers)

(* While the boot is under way nothing else is.                             *)
BootAlone ==
    at["boot"] # "idle" =>
        /\ \A t \in Tasks \ {"boot"} : at[t] = "idle"
        /\ ~busy /\ pairGen = 0
        /\ at["boot"] \in Opening \cup {"boot"} => gen = 0

(* Where a task is tells what it has claimed.                               *)
Claims ==
    /\ busy <=> at["web"] # "idle"
    /\ pairing => busy
    /\ at["web"] \in {"await", "commission", "failed"} => pairing
    /\ at["web"] \in Opening => ~pairing
    /\ \A t \in Tasks : at[t] = "watch" => gen > 0
    /\ at["expiry"] \notin Opening

(* What holds whatever overlaps and fails.                                  *)
Base == TypeOK /\ BootAlone /\ Claims /\ Room

-------------------------------------------------------------------------------
LEMMA Names ==
  /\ "boot" \in Tasks /\ "web" \in Tasks /\ "expiry" \in Tasks /\ Openers \subseteq Tasks
  /\ "boot" \notin Openers /\ "web" \notin Openers /\ "expiry" \notin Openers
  /\ IsFiniteSet(Openers) /\ Cardinality(Openers) \in Nat
  /\ MaxGeneration \in Nat \ {0}
  <1>1. IsFiniteSet({"dispatcher", "healthy", "shell"})
    <2>1. IsFiniteSet({"dispatcher"} \cup {"healthy"})
      BY FS_Singleton, FS_AddElement
    <2>2. IsFiniteSet(({"dispatcher"} \cup {"healthy"}) \cup {"shell"})
      BY <2>1, FS_AddElement
    <2>3. QED
      BY <2>2
  <1>2. IsFiniteSet(Openers) /\ Cardinality(Openers) \in Nat
    BY <1>1, FS_Subset, FS_CardinalityType, ApAssumption
  <1>3. QED
    BY <1>2, ApAssumption DEF Tasks

LEMMA UpcomingBound ==
  /\ IsFiniteSet(Upcoming) /\ Cardinality(Upcoming) \in Nat
  /\ Cardinality(Upcoming) <= Cardinality(Openers) + 1
  <1>1. IsFiniteSet(Openers \cup {"web"}) /\ Cardinality(Openers \cup {"web"}) = Cardinality(Openers) + 1
    BY Names, FS_AddElement
  <1>2. Upcoming \subseteq Openers \cup {"web"}
    BY DEF Upcoming
  <1>3. QED
    BY <1>1, <1>2, FS_Subset, FS_CardinalityType

(* Nobody new wants an opening.                                             *)
LEMMA RoomStays ==
  ASSUME Base, gen' = gen, Upcoming' \subseteq Upcoming
  PROVE  Room'
  <1>1. IsFiniteSet(Upcoming') /\ Cardinality(Upcoming') <= Cardinality(Upcoming)
    BY UpcomingBound, FS_Subset
  <1>2. Cardinality(Upcoming') \in Nat
    BY <1>1, FS_CardinalityType
  <1>3. QED
    BY <1>1, <1>2, UpcomingBound, Names DEF Base, Room, TypeOK

(* A request is let in only below the bound.                                *)
LEMMA RoomForOne ==
  ASSUME Base, gen < MaxGeneration, gen' = gen
  PROVE  Room'
  <1>1. Cardinality(Upcoming') \in Nat /\ Cardinality(Upcoming') <= Cardinality(Openers) + 1
    <2>1. IsFiniteSet(Openers \cup {"web"}) /\ Cardinality(Openers \cup {"web"}) = Cardinality(Openers) + 1
      BY Names, FS_AddElement
    <2>2. Upcoming' \subseteq Openers \cup {"web"}
      BY DEF Upcoming
    <2>3. QED
      BY <2>1, <2>2, FS_Subset, FS_CardinalityType
  <1>2. QED
    BY <1>1, Names DEF Base, Room, TypeOK

(* The opening that is counted is no longer upcoming.                       *)
LEMMA RoomUsed ==
  ASSUME Base, NEW t \in Upcoming, gen' = gen + 1, Upcoming' \subseteq Upcoming \ {t}
  PROVE  Room' /\ gen' <= MaxGeneration + Cardinality(Openers)
  <1>1. /\ IsFiniteSet(Upcoming \ {t})
        /\ Cardinality(Upcoming \ {t}) = Cardinality(Upcoming) - 1
    BY UpcomingBound, FS_RemoveElement
  <1>2. IsFiniteSet(Upcoming') /\ Cardinality(Upcoming') <= Cardinality(Upcoming) - 1
    BY <1>1, FS_Subset
  <1>3. Cardinality(Upcoming') \in Nat
    BY <1>2, FS_CardinalityType
  <1>4. QED
    BY <1>2, <1>3, UpcomingBound, Names DEF Base, Room, TypeOK

(* A task takes a step: its call succeeds or fails.                         *)
StepOK ==
    /\ scenario \in Scenarios /\ profile \in Profiles /\ left \in 0 .. scenario.failures
    /\ at \in [Tasks -> Steps] /\ err \in [Tasks -> BOOLEAN]

LEMMA Moves ==
  ASSUME TypeOK, NEW t \in Tasks, NEW s \in Steps, Succeeds(t, s) \/ Fails(t, s)
  PROVE  /\ StepOK' /\ at' = [at EXCEPT ![t] = s]
         /\ UNCHANGED <<scenario, profile>>
  <1>1. scenario.failures \in Nat
    BY ApAssumption DEF TypeOK
  <1>2. CASE Succeeds(t, s)
    BY <1>2 DEF Succeeds, Goto, TypeOK, StepOK
  <1>3. CASE Fails(t, s)
    BY <1>1, <1>3 DEF Fails, Goto, TypeOK, StepOK
  <1>4. QED
    BY <1>2, <1>3

(* The parts of Base other than Room.                                       *)
Typed == TypeOK /\ BootAlone /\ Claims
Shrinks == gen' = gen /\ Upcoming' \subseteq Upcoming

(* The next step of an operation under way.                                 *)
LEMMA MoveKeeps ==
  ASSUME Base, NEW t \in Tasks, NEW s \in Steps, at' = [at EXCEPT ![t] = s],
         UNCHANGED <<gen, busy, pairing, pairGen>>,
         at[t] # "idle", s \notin {"idle", "boot", "watch", "await", "commission", "failed"},
         s \in Opening => at[t] \in Opening \cup {"boot"}, at[t] = "boot" => t = "boot"
  PROVE  BootAlone' /\ Claims' /\ Shrinks
  <1>1. at'[t] = s /\ \A u \in Tasks : u # t => at'[u] = at[u]
    BY DEF Base, TypeOK
  <1>2. BootAlone'
    BY <1>1, Names DEF Base, BootAlone
  <1>3. Claims'
    <2>1. at'["expiry"] \notin Opening
      BY <1>1, Names DEF Base, Claims, Opening
    <2> QED
      BY <1>1, <2>1, Names DEF Base, Claims
  <1>4. Upcoming' \subseteq Upcoming
    BY <1>1, Names DEF Upcoming
  <1>5. QED
    BY <1>2, <1>3, <1>4 DEF Shrinks

LEMMA ProceedBase ==
  ASSUME Base, NEW t \in Tasks, Proceed(t), ~StartDriver(t)
  PROVE  TypeOK' /\ BootAlone' /\ Claims' /\ Shrinks
  <1> USE DEF Steps, Resting
  <1>b. TypeOK
    BY DEF Base
  <1>1. CASE ReadOpen(t)
    <2>1. \E s \in {"pause", "done"} : Succeeds(t, s) \/ Fails(t, s)
      BY <1>1 DEF ReadOpen
    <2>2. PICK s \in {"pause", "done"} : StepOK' /\ at' = [at EXCEPT ![t] = s]
      BY <2>1, <1>b, Moves
    <2>3. TypeOK'
      BY <1>1, <1>b, <2>2
        DEF ReadOpen, service, driver, radio, action, StepOK, TypeOK
    <2>4. QED
      BY <1>1, <2>2, <2>3, MoveKeeps
        DEF ReadOpen, service, driver, radio, action, Opening
  <1>2. CASE Pause(t)
    <2>1. \E s \in {"mode", "done"} : Succeeds(t, s) \/ Fails(t, s)
      BY <1>2 DEF Pause
    <2>2. PICK s \in {"mode", "done"} : StepOK' /\ at' = [at EXCEPT ![t] = s]
      BY <2>1, <1>b, Moves
    <2>3. TypeOK'
      BY <1>2, <1>b, <2>2
        DEF Pause, service, driver, radio, action, StepOK, TypeOK
    <2>4. QED
      BY <1>2, <2>2, <2>3, MoveKeeps
        DEF Pause, service, driver, radio, action, Opening
  <1>3. CASE SetMode(t)
    <2>1. \E s \in {"config", "done", "resume"} : Succeeds(t, s) \/ Fails(t, s)
      BY <1>3 DEF SetMode
    <2>2. PICK s \in {"config", "done", "resume"} : StepOK' /\ at' = [at EXCEPT ![t] = s]
      BY <2>1, <1>b, Moves
    <2>3. TypeOK'
      BY <1>3, <1>b, <2>2
        DEF SetMode, radio, action, StepOK, TypeOK
    <2>4. QED
      BY <1>3, <2>2, <2>3, MoveKeeps
        DEF SetMode, radio, action, Opening
  <1>4. CASE ApFailed(t)
    <2>1. \E s \in {"close", "done", "resume"} : Succeeds(t, s) \/ Fails(t, s)
      BY <1>4 DEF ApFailed
    <2>2. PICK s \in {"close", "done", "resume"} : StepOK' /\ at' = [at EXCEPT ![t] = s]
      BY <2>1, <1>b, Moves
    <2>3. TypeOK'
      BY <1>4, <1>b, <2>2
        DEF ApFailed, driver, radio, action, StepOK, TypeOK
    <2>4. QED
      BY <1>4, <2>2, <2>3, MoveKeeps
        DEF ApFailed, driver, radio, action, Opening
  <1>5. CASE StartWatcher(t)
    <2>1. \E s \in {"done", "close"} : Succeeds(t, s) \/ Fails(t, s)
      BY <1>5 DEF StartWatcher
    <2>2. PICK s \in {"done", "close"} : StepOK' /\ at' = [at EXCEPT ![t] = s]
      BY <2>1, <1>b, Moves
    <2>3. gen \in 1 .. gen
      BY <1>5, <1>b DEF StartWatcher, Base, Claims, TypeOK
    <2>4. /\ watchers' \subseteq 1 .. gen
          /\ UNCHANGED <<service, driver, radio, already, action>>
      BY <1>5, <1>b, <2>3 DEF StartWatcher, TypeOK
    <2>5. TypeOK'
      BY <1>b, <2>2, <2>4 DEF service, driver, radio, action, StepOK, TypeOK
    <2>6. QED
      BY <1>5, <2>2, <2>5, MoveKeeps
        DEF StartWatcher, service, driver, radio, action, Opening
  <1>6. CASE Stop(t)
    <2>1. \E s \in {"done", "closed"} : Succeeds(t, s) \/ Fails(t, s)
      BY <1>6 DEF Stop
    <2>2. PICK s \in {"done", "closed"} : StepOK' /\ at' = [at EXCEPT ![t] = s]
      BY <2>1, <1>b, Moves
    <2>3. TypeOK'
      BY <1>6, <1>b, <2>2
        DEF Stop, service, radio, action, StepOK, TypeOK
    <2>4. QED
      BY <1>6, <2>2, <2>3, MoveKeeps
        DEF Stop, service, radio, action, Opening
  <1>7. CASE Closed(t)
    <2>1. \E s \in {"station", "resume"} : Succeeds(t, s) \/ Fails(t, s)
      BY <1>7 DEF Closed
    <2>2. PICK s \in {"station", "resume"} : StepOK' /\ at' = [at EXCEPT ![t] = s]
      BY <2>1, <1>b, Moves
    <2>3. TypeOK'
      BY <1>7, <1>b, <2>2
        DEF Closed, driver, radio, action, StepOK, TypeOK
    <2>4. QED
      BY <1>7, <2>2, <2>3, MoveKeeps
        DEF Closed, driver, radio, action, Opening
  <1>8. CASE Station(t)
    <2>1. \E s \in {"connect", "resume"} : Succeeds(t, s) \/ Fails(t, s)
      BY <1>8 DEF Station
    <2>2. PICK s \in {"connect", "resume"} : StepOK' /\ at' = [at EXCEPT ![t] = s]
      BY <2>1, <1>b, Moves
    <2>3. TypeOK'
      BY <1>8, <1>b, <2>2
        DEF Station, service, radio, action, StepOK, TypeOK
    <2>4. QED
      BY <1>8, <2>2, <2>3, MoveKeeps
        DEF Station, service, radio, action, Opening
  <1>9. CASE Connect(t)
    <2>1. \E s \in {"resume"} : Succeeds(t, s) \/ Fails(t, s)
      BY <1>9 DEF Connect
    <2>2. PICK s \in {"resume"} : StepOK' /\ at' = [at EXCEPT ![t] = s]
      BY <2>1, <1>b, Moves
    <2>3. /\ running' \in BOOLEAN /\ started' \in BOOLEAN
          /\ UNCHANGED <<flag, gen, idle, mode, clients, radio, watchers, already, action>>
      BY <1>9, <1>b DEF Connect, TypeOK
    <2>4. TypeOK'
      BY <1>b, <2>2, <2>3 DEF radio, action, StepOK, TypeOK
    <2>5. QED
      BY <1>9, <2>2, <2>4, MoveKeeps
        DEF Connect, radio, action, Opening
  <1>10. CASE Resume(t)
    <2>1. \E s \in {"done"} : Succeeds(t, s) \/ Fails(t, s)
      BY <1>10 DEF Resume
    <2>2. PICK s \in {"done"} : StepOK' /\ at' = [at EXCEPT ![t] = s]
      BY <2>1, <1>b, Moves
    <2>3. TypeOK'
      BY <1>10, <1>b, <2>2
        DEF Resume, Gate!Revoke, service, driver, radio, action, StepOK, TypeOK
    <2>4. QED
      BY <1>10, <2>2, <2>3, MoveKeeps
        DEF Resume, Gate!Revoke, service, driver, radio, action, Opening
  <1>11. CASE SetConfig(t)
    <2>1. \E s \in {"start", "ap_failed"} : Succeeds(t, s) \/ Fails(t, s)
      BY <1>11 DEF SetConfig
    <2>2. PICK s \in {"start", "ap_failed"} : StepOK' /\ at' = [at EXCEPT ![t] = s]
      BY <2>1, <1>b, Moves
    <2>3. TypeOK'
      BY <1>11, <1>b, <2>2
        DEF SetConfig, service, driver, radio, action, StepOK, TypeOK
    <2>4. QED
      BY <1>11, <2>2, <2>3, MoveKeeps
        DEF SetConfig, service, driver, radio, action, Opening
  <1>12. QED
    BY <1>1, <1>2, <1>3, <1>4, <1>5, <1>6, <1>7, <1>8, <1>9, <1>10, <1>11 DEF Proceed

LEMMA StartBase ==
  ASSUME Base, NEW t \in Tasks, StartDriver(t)
  PROVE  TypeOK' /\ BootAlone' /\ Claims' /\ Room'
  <1> USE DEF Steps, Resting
  <1>b. TypeOK
    BY DEF Base
  <1>1. CASE Succeeds(t, "watch") /\ gen' = gen + 1
    <2>1. StepOK' /\ at' = [at EXCEPT ![t] = "watch"]
      BY <1>b, <1>1, Moves
    <2>2. at'[t] = "watch" /\ (\A u \in Tasks : u # t => at'[u] = at[u]) /\ at[t] = "start"
      BY <1>b, <2>1 DEF StartDriver, TypeOK
    <2>3. Room' /\ gen' <= MaxGeneration + Cardinality(Openers)
      <3>1. CASE t = "boot"
        <4>1. gen = 0 /\ ~pairing /\ \A u \in Tasks \ {"boot"} : at[u] = "idle"
          BY <2>2, <3>1 DEF Base, BootAlone, Claims, Opening
        <4>2. gen' = 1 /\ ~pairing' /\ \A u \in Openers \cup {"web"} : at'[u] = "idle"
          BY <1>1, <2>2, <3>1, <4>1, Names DEF StartDriver, action
        <4>3. Upcoming' = {}
          BY <4>2 DEF Upcoming, Opening
        <4>4. Cardinality(Upcoming') = 0
          BY <4>3, FS_EmptySet
        <4>5. QED
          BY <4>2, <4>4, Names DEF Room
      <3>2. CASE t # "boot"
        <4>1. t \in Openers \cup {"web"}
          BY <2>2, <3>2 DEF Tasks, Base, Claims, Opening
        <4>2. t \in Upcoming
          BY <2>2, <4>1 DEF Upcoming, Opening
        <4>3. Upcoming' \subseteq Upcoming \ {t}
          BY <2>2, Names DEF Upcoming, Opening, StartDriver, action, Base, Claims
        <4>4. QED
          BY <1>1, <4>2, <4>3, RoomUsed
      <3>3. QED
        BY <3>1, <3>2
    <2>4. gen \in Nat /\ gen' \in 0 .. MaxGeneration + Cardinality(Openers)
      BY <1>b, <1>1, <2>3, Names DEF TypeOK
    <2>5. /\ running' \in BOOLEAN /\ started' \in BOOLEAN /\ idle' \in BOOLEAN
          /\ UNCHANGED <<flag, mode, clients, radio, watchers, already, action>>
      BY <1>b, <1>1 DEF StartDriver, TypeOK
    <2>6. watchers' \subseteq 1 .. gen' /\ pairGen' \in 0 .. gen'
      BY <1>b, <1>1, <2>4, <2>5 DEF TypeOK, action
    <2>7. TypeOK'
      BY <1>b, <2>1, <2>4, <2>5, <2>6 DEF TypeOK, StepOK, radio, action
    <2>8. BootAlone'
      BY <2>2, <2>5, Names DEF Base, BootAlone, action, Opening
    <2>9. Claims'
      BY <1>1, <2>2, <2>4, <2>5, Names DEF Base, Claims, action, Opening
    <2>10. QED
      BY <2>3, <2>7, <2>8, <2>9
  <1>2. CASE Fails(t, "ap_failed") /\ UNCHANGED <<running, started, gen, idle>>
    <2>1. StepOK' /\ at' = [at EXCEPT ![t] = "ap_failed"]
      BY <1>b, <1>2, Moves
    <2>2. TypeOK'
      BY <1>b, <1>2, <2>1 DEF StartDriver, radio, action, StepOK, TypeOK
    <2>3. BootAlone' /\ Claims' /\ Shrinks
      BY <1>2, <2>1, MoveKeeps DEF StartDriver, action, Opening
    <2>4. QED
      BY <2>2, <2>3, RoomStays DEF Shrinks
  <1>3. QED
    BY <1>1, <1>2 DEF StartDriver

LEMMA WebTyped ==
  ASSUME TypeOK, \E s \in Steps : Goto("web", s),
         UNCHANGED <<left, service, driver, radio, watchers>>,
         already' = already \/ already' = [already EXCEPT !["web"] = FALSE],
         err' = err \/ err' = [err EXCEPT !["web"] = FALSE],
         busy' \in BOOLEAN, pairing' \in BOOLEAN, pairGen' \in 0 .. gen
  PROVE  TypeOK'
  <1>1. at' \in [Tasks -> Steps] /\ UNCHANGED <<scenario, profile>>
    BY Names DEF TypeOK, Goto
  <1>2. already' \in [Tasks -> BOOLEAN] /\ err' \in [Tasks -> BOOLEAN]
    BY Names DEF TypeOK
  <1>3. QED
    BY <1>1, <1>2 DEF TypeOK, service, driver, radio

(* What the radio action does between its operations.                       *)
LEMMA WebKeeps ==
  ASSUME Base, NEW s \in Steps, at' = [at EXCEPT !["web"] = s], gen' = gen,
         at["web"] # "idle",
         \/ s = "idle" /\ busy' = FALSE /\ pairing' = FALSE /\ pairGen' = 0
         \/ s = "close" /\ UNCHANGED <<busy, pairing>>
         \/ s \in {"await", "commission", "failed"} /\ pairing /\ UNCHANGED <<busy, pairing>>
         \/ s = "ap" /\ pairing /\ busy' = busy /\ pairing' = FALSE
  PROVE  BootAlone' /\ Claims' /\ Shrinks
  <1>1. at'["web"] = s /\ \A u \in Tasks : u # "web" => at'[u] = at[u]
    BY Names DEF Base, TypeOK
  <1>2. at["boot"] = "idle" /\ at'["boot"] = "idle"
    BY <1>1, Names DEF Base, BootAlone
  <1>3. BootAlone'
    BY <1>2 DEF BootAlone
  <1>4. Claims'
    BY <1>1, Names DEF Base, Claims, Opening
  <1>5. Upcoming' \subseteq Upcoming
    BY <1>1, Names DEF Upcoming, Opening, Base, Claims
  <1>6. QED
    BY <1>3, <1>4, <1>5 DEF Shrinks

(* The tasks between two operations.                                        *)
LEMMA TaskBase ==
  ASSUME Base,
         \/ Boot \/ Booted \/ (\E t \in Openers : Opened(t)) \/ Expired
         \/ (\E g \in 1 .. gen : Expire(g)) \/ Web
         \/ Router \/ Client \/ FiveMinutes \/ UNCHANGED vars
  PROVE  TypeOK' /\ BootAlone' /\ Claims' /\ Shrinks
  <1> USE Names DEF Steps, Resting
  <1>a. gen \in 0 .. gen /\ 0 \in 0 .. gen
    BY DEF Base, TypeOK
  <1>1. ASSUME Boot PROVE TypeOK' /\ BootAlone' /\ Claims' /\ Shrinks
    BY <1>1
      DEF Boot, Succeeds, Goto, service, driver, radio, action, Base, TypeOK,
          BootAlone, Claims, Shrinks, Upcoming, Opening
  <1>2. ASSUME Booted PROVE TypeOK' /\ BootAlone' /\ Claims' /\ Shrinks
    BY <1>2
      DEF Booted, Returned, Goto, service, driver, radio, action, Base, TypeOK,
          BootAlone, Claims, Shrinks, Upcoming, Opening
  <1>3. ASSUME NEW t \in Openers, Opened(t) PROVE TypeOK' /\ BootAlone' /\ Claims' /\ Shrinks
    BY <1>3
      DEF Opened, Returned, Goto, service, driver, radio, action, Base, TypeOK,
          BootAlone, Claims, Shrinks, Upcoming, Opening
  <1>4. ASSUME Expired PROVE TypeOK' /\ BootAlone' /\ Claims' /\ Shrinks
    BY <1>4
      DEF Expired, Returned, Goto, service, driver, radio, action, Base, TypeOK,
          BootAlone, Claims, Shrinks, Upcoming, Opening
  <1>5. ASSUME NEW g \in 1 .. gen, Expire(g) PROVE TypeOK' /\ BootAlone' /\ Claims' /\ Shrinks
    <2>1. CASE watchers' = watchers \ {g} /\ UNCHANGED <<at, left, err, scenario, profile>>
      BY <1>5, <2>1
        DEF Expire, service, driver, radio, action, Base, TypeOK, BootAlone, Claims,
            Shrinks, Upcoming
    <2>2. CASE /\ at["expiry"] = "idle" /\ MayClose
               /\ Succeeds("expiry", "close") /\ UNCHANGED watchers
      <3>1. /\ StepOK' /\ at' = [at EXCEPT !["expiry"] = "close"]
            /\ at'["expiry"] = "close" /\ \A u \in Tasks : u # "expiry" => at'[u] = at[u]
        BY <2>2, Moves DEF Base, TypeOK
      <3>2. TypeOK'
        BY <1>5, <2>2, <3>1 DEF Expire, service, driver, radio, action, Base, TypeOK, StepOK
      <3>3. BootAlone'
        BY <2>2, <3>1 DEF MayClose, BootAlone
      <3>4. Claims' /\ Shrinks
        BY <1>5, <2>2, <3>1
          DEF Expire, service, action, Base, Claims, Shrinks, Upcoming, Opening
      <3>5. QED
        BY <3>2, <3>3, <3>4
    <2>3. QED
      BY <1>5, <2>1, <2>2 DEF Expire
  <1>6. ASSUME Cancel PROVE TypeOK' /\ BootAlone' /\ Claims' /\ Shrinks
    <2>1. \E s \in {"idle"} : Goto("web", s)
      BY <1>6 DEF Cancel, EndAction, Succeeds
    <2>2. TypeOK
      BY DEF Base
    <2>3. /\ UNCHANGED <<left, service, driver, radio, watchers>>
          /\ already' = already \/ already' = [already EXCEPT !["web"] = FALSE]
          /\ err' = err \/ err' = [err EXCEPT !["web"] = FALSE]
      BY <1>6
        DEF Cancel, EndAction, Succeeds
    <2>4. busy' \in BOOLEAN /\ pairing' \in BOOLEAN /\ pairGen' \in 0 .. gen
      BY <1>6, <1>a, <2>2, Zenon
        DEF Cancel, EndAction, Succeeds, action, TypeOK
    <2>5. TypeOK'
      BY <2>1, <2>2, <2>3, <2>4, WebTyped
    <2>6. BootAlone' /\ Claims' /\ Shrinks
      BY <1>6, WebKeeps
        DEF Cancel, EndAction, Succeeds, Goto, service, driver, radio, Base, Claims
    <2>7. QED
      BY <2>5, <2>6
  <1>7. ASSUME Act PROVE TypeOK' /\ BootAlone' /\ Claims' /\ Shrinks
    <2>1. \E s \in {"close", "idle"} : Goto("web", s)
      BY <1>7 DEF Act, EndAction, Succeeds
    <2>2. TypeOK
      BY DEF Base
    <2>3. /\ UNCHANGED <<left, service, driver, radio, watchers>>
          /\ already' = already \/ already' = [already EXCEPT !["web"] = FALSE]
          /\ err' = err \/ err' = [err EXCEPT !["web"] = FALSE]
      BY <1>7
        DEF Act, MayClose, Working, EndAction, Succeeds
    <2>4. busy' \in BOOLEAN /\ pairing' \in BOOLEAN /\ pairGen' \in 0 .. gen
      BY <1>7, <1>a, <2>2, Zenon
        DEF Act, MayClose, Working, EndAction, Succeeds, action, TypeOK
    <2>5. TypeOK'
      BY <2>1, <2>2, <2>3, <2>4, WebTyped
    <2>6. BootAlone' /\ Claims' /\ Shrinks
      BY <1>7, WebKeeps
        DEF Act, MayClose, Working, EndAction, Succeeds, Goto, service, driver,
            radio, Base, Claims
    <2>7. QED
      BY <2>5, <2>6
  <1>8. ASSUME ActionClosed PROVE TypeOK' /\ BootAlone' /\ Claims' /\ Shrinks
    <2>1. \E s \in {"failed", "await", "idle"} : Goto("web", s)
      BY <1>8 DEF ActionClosed, Returned
    <2>2. TypeOK
      BY DEF Base
    <2>3. /\ UNCHANGED <<left, service, driver, radio, watchers>>
          /\ already' = already \/ already' = [already EXCEPT !["web"] = FALSE]
          /\ err' = err \/ err' = [err EXCEPT !["web"] = FALSE]
      BY <1>8
        DEF ActionClosed, Returned, action
    <2>4. busy' \in BOOLEAN /\ pairing' \in BOOLEAN /\ pairGen' \in 0 .. gen
      BY <1>8, <1>a, <2>2, Zenon
        DEF ActionClosed, Returned, action, TypeOK
    <2>5. TypeOK'
      BY <2>1, <2>2, <2>3, <2>4, WebTyped
    <2>6. BootAlone' /\ Claims' /\ Shrinks
      BY <1>8, WebKeeps
        DEF ActionClosed, Returned, Goto, service, driver, radio, action, Base,
            Claims
    <2>7. QED
      BY <2>5, <2>6
  <1>9. ASSUME Await PROVE TypeOK' /\ BootAlone' /\ Claims' /\ Shrinks
    <2>1. \E s \in {"idle", "commission", "failed"} : Goto("web", s)
      BY <1>9 DEF Await, EndAction, Succeeds
    <2>2. TypeOK
      BY DEF Base
    <2>3. /\ UNCHANGED <<left, service, driver, radio, watchers>>
          /\ already' = already \/ already' = [already EXCEPT !["web"] = FALSE]
          /\ err' = err \/ err' = [err EXCEPT !["web"] = FALSE]
      BY <1>9
        DEF Await, EndAction, Succeeds, action
    <2>4. busy' \in BOOLEAN /\ pairing' \in BOOLEAN /\ pairGen' \in 0 .. gen
      BY <1>9, <1>a, <2>2, Zenon
        DEF Await, EndAction, Succeeds, action, TypeOK
    <2>5. TypeOK'
      BY <2>1, <2>2, <2>3, <2>4, WebTyped
    <2>6. BootAlone' /\ Claims' /\ Shrinks
      BY <1>9, WebKeeps
        DEF Await, EndAction, Succeeds, Goto, service, driver, radio, action, Base,
            Claims
    <2>7. QED
      BY <2>5, <2>6
  <1>10. ASSUME Commission PROVE TypeOK' /\ BootAlone' /\ Claims' /\ Shrinks
    <2>1. \E s \in {"idle", "failed"} : Goto("web", s)
      BY <1>10 DEF Commission, EndAction, Succeeds
    <2>2. TypeOK
      BY DEF Base
    <2>3. /\ UNCHANGED <<left, service, driver, radio, watchers>>
          /\ already' = already \/ already' = [already EXCEPT !["web"] = FALSE]
          /\ err' = err \/ err' = [err EXCEPT !["web"] = FALSE]
      BY <1>10
        DEF Commission, EndAction, Succeeds, action
    <2>4. busy' \in BOOLEAN /\ pairing' \in BOOLEAN /\ pairGen' \in 0 .. gen
      BY <1>10, <1>a, <2>2, Zenon
        DEF Commission, EndAction, Succeeds, action, TypeOK
    <2>5. TypeOK'
      BY <2>1, <2>2, <2>3, <2>4, WebTyped
    <2>6. BootAlone' /\ Claims' /\ Shrinks
      BY <1>10, WebKeeps
        DEF Commission, EndAction, Succeeds, Goto, service, driver, radio, action,
            Base, Claims
    <2>7. QED
      BY <2>5, <2>6
  <1>11. ASSUME Reopen PROVE TypeOK' /\ BootAlone' /\ Claims' /\ Shrinks
    <2>1. \E s \in {"idle", "ap"} : Goto("web", s)
      BY <1>11 DEF Reopen, EndAction, Succeeds
    <2>2. TypeOK
      BY DEF Base
    <2>3. /\ UNCHANGED <<left, service, driver, radio, watchers>>
          /\ already' = already \/ already' = [already EXCEPT !["web"] = FALSE]
          /\ err' = err \/ err' = [err EXCEPT !["web"] = FALSE]
      BY <1>11
        DEF Reopen, MayOpen, Working, EndAction, Succeeds
    <2>4. busy' \in BOOLEAN /\ pairing' \in BOOLEAN /\ pairGen' \in 0 .. gen
      BY <1>11, <1>a, <2>2, Zenon
        DEF Reopen, MayOpen, Working, EndAction, Succeeds, action, TypeOK
    <2>5. TypeOK'
      BY <2>1, <2>2, <2>3, <2>4, WebTyped
    <2>6. BootAlone' /\ Claims' /\ Shrinks
      BY <1>11, WebKeeps
        DEF Reopen, MayOpen, Working, EndAction, Succeeds, Goto, service, driver,
            radio, Base, Claims
    <2>7. QED
      BY <2>5, <2>6
  <1>12. ASSUME Router PROVE TypeOK' /\ BootAlone' /\ Claims' /\ Shrinks
    <2>1. granted' \in BOOLEAN /\ router' \in BOOLEAN
      BY <1>12 DEF Router, Gate!RouterClaims, Gate!RouterLeaves, Base, TypeOK
    <2>2. QED
      BY <1>12, <2>1
        DEF Router, service, driver, action, Base, TypeOK, BootAlone, Claims, Shrinks,
            Upcoming
  <1>13. ASSUME Client PROVE TypeOK' /\ BootAlone' /\ Claims' /\ Shrinks
    BY <1>13
      DEF Client, radio, action, Base, TypeOK, BootAlone, Claims, Shrinks, Upcoming,
          Opening
  <1>14. ASSUME FiveMinutes PROVE TypeOK' /\ BootAlone' /\ Claims' /\ Shrinks
    BY <1>14
      DEF FiveMinutes, driver, radio, action, Base, TypeOK, BootAlone, Claims,
          Shrinks, Upcoming, Opening
  <1>15. ASSUME UNCHANGED vars PROVE TypeOK' /\ BootAlone' /\ Claims' /\ Shrinks
    BY <1>15
      DEF vars, service, driver, radio, action, Base, TypeOK, BootAlone, Claims,
          Shrinks, Upcoming, Opening
  <1>16. QED
    BY <1>1, <1>2, <1>3, <1>4, <1>5, <1>6, <1>7, <1>8, <1>9, <1>10, <1>11, <1>12, <1>13, <1>14, <1>15 DEF Web

LEMMA AbortBase ==
  ASSUME Base, Abort
  PROVE  Base'
  <1>1. At \in [Tasks -> Steps] /\ No \in [Tasks -> BOOLEAN]
    BY DEF At, No, Steps, Resting
  <1>2. TypeOK'
    <2>1. 0 \in 0 .. MaxGeneration + Cardinality(Openers) /\ 0 \in 0 .. 0 /\ pairGen = 0
      BY Names DEF Abort, Base, BootAlone
    <2>2. QED
      BY <1>1, <2>1 DEF Abort, action, Base, TypeOK
  <1>3. ~busy /\ ~pairing /\ pairGen = 0
    BY DEF Abort, Base, BootAlone, Claims
  <1>4. /\ at'["boot"] = "boot" /\ \A u \in Tasks : u # "boot" => at'[u] = "idle"
        /\ ~busy' /\ ~pairing' /\ pairGen' = 0 /\ gen' = 0
    BY <1>3, Names DEF Abort, At, action
  <1>5. BootAlone' /\ Claims'
    BY <1>4, Names DEF BootAlone, Claims, Opening
  <1>6. Upcoming' = {}
    BY <1>4, Names DEF Upcoming, Opening
  <1>7. Cardinality(Upcoming') = 0
    BY <1>6, FS_EmptySet
  <1>8. Room'
    BY <1>4, <1>7, Names DEF Room
  <1>9. QED
    BY <1>2, <1>5, <1>8 DEF Base

(* Somebody asks for an opening.                                            *)
LEMMA OpenBase ==
  ASSUME Base, NEW t \in Openers, Open(t)
  PROVE  Base'
  <1> USE Names
  <1>b. TypeOK /\ {"ap", "idle"} \subseteq Steps
    BY DEF Base, Steps, Resting
  <1>1. CASE ~flag /\ MayOpen /\ gen < MaxGeneration /\ Succeeds(t, "ap") /\ UNCHANGED service
    <2>1. StepOK' /\ at' = [at EXCEPT ![t] = "ap"] /\ UNCHANGED <<left, err>>
      BY <1>b, <1>1, Moves DEF Succeeds
    <2>2. at'[t] = "ap" /\ \A u \in Tasks : u # t => at'[u] = at[u]
      BY <1>b, <2>1 DEF TypeOK
    <2>3. TypeOK'
      BY <1>b, <1>1, <2>1 DEF Open, service, driver, radio, action, TypeOK, StepOK
    <2>4. BootAlone' /\ Claims'
      BY <1>1, <2>2 DEF Open, MayOpen, service, action, Base, BootAlone, Claims, Opening
    <2>5. Room'
      BY <1>1, RoomForOne DEF service
    <2>6. QED
      BY <2>3, <2>4, <2>5 DEF Base
  <1>2. CASE /\ idle' = FALSE /\ Succeeds(t, "idle") /\ UNCHANGED <<flag, started, gen>>
    <2>1. at' = at
      BY <1>b, <1>2 DEF Open, Succeeds, Goto, TypeOK
    <2>2. TypeOK' /\ BootAlone' /\ Claims' /\ Shrinks
      BY <1>b, <1>2, <2>1
        DEF Open, Succeeds, Goto, driver, radio, action, Base, TypeOK, BootAlone, Claims,
            Shrinks, Upcoming
    <2>3. QED
      BY <2>2, RoomStays DEF Base, Shrinks
  <1>3. QED
    BY <1>1, <1>2 DEF Open

LEMMA RequestBase ==
  ASSUME Base, NEW pair \in BOOLEAN, Request(pair)
  PROVE  Base'
  <1> USE Names
  <1>1. at["web"] = "idle" /\ at["boot"] = "idle" /\ gen < MaxGeneration
    BY DEF Request, Base, Claims
  <1>2. /\ at' = [at EXCEPT !["web"] = "ack"] /\ busy' = TRUE /\ pairing' = pair
        /\ UNCHANGED <<scenario, profile, left, err, pairGen, service, driver, radio, watchers, already>>
    BY DEF Request, Succeeds, Goto
  <1>3. at'["web"] = "ack" /\ \A u \in Tasks : u # "web" => at'[u] = at[u]
    BY <1>2 DEF Base, TypeOK
  <1>4. TypeOK'
    BY <1>2 DEF Base, TypeOK, service, driver, radio, Steps, Resting
  <1>5. BootAlone' /\ Claims'
    BY <1>1, <1>2, <1>3 DEF Base, BootAlone, Claims, Opening, service
  <1>6. Room'
    BY <1>1, <1>2, RoomForOne DEF service
  <1>7. QED
    BY <1>4, <1>5, <1>6 DEF Base

LEMMA InitBase == Init => Base
  <1> SUFFICES ASSUME Init PROVE Base
    OBVIOUS
  <1>1. TypeOK
    <2>1. At \in [Tasks -> Steps] /\ No \in [Tasks -> BOOLEAN]
      BY DEF At, No, Steps, Resting
    <2>2. scenario.failures \in Nat
      BY ApAssumption DEF Init
    <2>3. /\ 0 \in 0 .. MaxGeneration + Cardinality(Openers) /\ 0 \in 0 .. 0
          /\ left \in 0 .. scenario.failures
      BY <2>2, Names DEF Init
    <2>4. QED
      BY <2>1, <2>3 DEF Init, TypeOK, Gate!Init
  <1>2. at["boot"] = "boot" /\ \A u \in Tasks : u # "boot" => at[u] = "idle"
    BY Names DEF Init, At
  <1>3. BootAlone /\ Claims
    BY <1>2, Names DEF Init, BootAlone, Claims, Opening
  <1>4. Upcoming = {}
    BY <1>2, Names DEF Init, Upcoming, Opening
  <1>5. Cardinality(Upcoming) = 0
    BY <1>4, FS_EmptySet
  <1>6. Room
    BY <1>5, Names DEF Init, Room
  <1>7. QED
    BY <1>1, <1>3, <1>6 DEF Base

LEMMA StepBase == Base /\ [Next]_vars => Base'
  <1> SUFFICES ASSUME Base, [Next]_vars PROVE Base'
    OBVIOUS
  <1>1. ASSUME NEW t \in Tasks, Proceed(t) PROVE Base'
    <2>1. CASE StartDriver(t)
      BY <2>1, StartBase DEF Base
    <2>2. CASE ~StartDriver(t)
      BY <1>1, <2>2, ProceedBase, RoomStays DEF Base, Shrinks
    <2>3. QED
      BY <2>1, <2>2
  <1>2. CASE \/ Boot \/ Booted \/ (\E t \in Openers : Opened(t)) \/ Expired
             \/ (\E g \in 1 .. gen : Expire(g)) \/ Web
             \/ Router \/ Client \/ FiveMinutes \/ UNCHANGED vars
    BY <1>2, TaskBase, RoomStays DEF Base, Shrinks
  <1>3. CASE Abort
    BY <1>3, AbortBase
  <1>4. ASSUME NEW t \in Openers, Open(t) PROVE Base'
    BY <1>4, OpenBase
  <1>5. ASSUME NEW pair \in BOOLEAN, Request(pair) PROVE Base'
    BY <1>5, RequestBase
  <1>6. QED
    BY <1>1, <1>2, <1>3, <1>4, <1>5 DEF Next

LEMMA BaseInvariance == Spec => []Base
  BY InitBase, StepBase, PTL DEF Spec

(* Every reachable state is well typed, whatever overlaps and fails: the    *)
(* openings in progress never exceed the room left below the bound.         *)
THEOREM TypeCorrect == Spec => []TypeOK
  <1>1. Base => TypeOK
    BY DEF Base
  <1>2. QED
    BY BaseInvariance, <1>1, PTL

-------------------------------------------------------------------------------
(* The scenarios in which nothing overlaps a closing AP.  With several      *)
(* openers a call that fails leads to a close, so that none may fail.       *)
NoOverlappingClose ==
    \/ scenario.overlap = "none"
    \/ scenario.overlap = "opens" /\ scenario.failures = 0

(* Two operations at a time are two openings.                               *)
OpenSteps == Opening \cup {"watch", "done"}
Exclusive ==
    /\ \A t, u \in Working : t # u => scenario.overlap = "opens" /\ at[t] \in OpenSteps
    /\ scenario.overlap = "opens" => \A t \in Openers : at[t] \in OpenSteps \cup Resting
Single ==
    scenario.overlap = "none" =>
        \A t \in Tasks : ~already[t] /\ (at[t] \in {"ap", "pause", "mode"} => ~flag)

(* The flag, the driver and the gate agree, or a task is on its way between *)
(* two of them.                                                             *)
SomeAt(steps) == \E t \in Tasks : at[t] \in steps
Agree ==
    /\ granted => ~router
    /\ OnAir => flag
    /\ flag => granted /\ mode = "ap"
    /\ granted => flag \/ SomeAt({"mode", "station", "connect", "resume"})
    /\ flag => running \/ SomeAt({"config", "start", "ap_failed", "closed"})
    /\ (started <=> running) \/ SomeAt({"closed"})
Returns ==
    profile = "wifi" /\ ~flag /\ left = scenario.failures =>
        \/ running /\ mode = "sta"
        \/ SomeAt({"station", "connect"})
        \/ at["boot"] \in {"boot", "abort", "ap", "pause", "mode"}

(* What a task has done so far is still so when it goes on.                 *)
Place(step) ==
    /\ step = "mode" => granted
    /\ step \in {"config", "start", "ap_failed", "watch", "closed"} => flag
    /\ step = "watch" => running
    /\ step \in {"closed", "station", "connect", "boot"} => ~running
    /\ step \in {"station", "connect", "boot"} => ~started /\ ~flag
    /\ step = "connect" => mode = "sta"
    /\ step = "resume" => ~flag
    /\ step = "boot" => ~granted
    /\ step = "ap_failed" => left < scenario.failures
Places == \A t \in Tasks : Place(at[t])

State == Agree /\ Returns /\ Places
Guarded == Base /\ Exclusive /\ Single /\ State

LEMMA Company ==
  ASSUME Guarded, NoOverlappingClose, NEW t \in Tasks, at[t] \notin Resting
  PROVE  /\ left > 0 \/ at[t] = "ap_failed" => scenario.overlap = "none"
         /\ at[t] \notin OpenSteps \/ scenario.overlap = "none" =>
                \A u \in Tasks \ {t} : at[u] \in Resting
         /\ \A u \in Tasks \ {t} : at[u] \in OpenSteps \cup Resting
         /\ left \in Nat /\ scenario.failures \in Nat /\ left <= scenario.failures
  <1>1. \A u \in Tasks \ {t} : at[u] \notin Resting =>
            scenario.overlap = "opens" /\ at[t] \in OpenSteps /\ at[u] \in OpenSteps
    BY DEF Guarded, Exclusive, Working
  <1>2. left \in Nat /\ scenario.failures \in Nat /\ left <= scenario.failures
    BY ApAssumption DEF Guarded, Base, TypeOK
  <1>3. at[t] = "ap_failed" => left < scenario.failures
    BY DEF Guarded, State, Places, Place
  <1>4. left > 0 \/ at[t] = "ap_failed" => scenario.overlap = "none"
    BY <1>2, <1>3 DEF NoOverlappingClose
  <1>5. QED
    BY <1>1, <1>2, <1>4

LEMMA ProceedState ==
  ASSUME Guarded, NoOverlappingClose, NEW t \in Tasks, Proceed(t)
  PROVE  State' /\ Single'
  <1>1. CASE ReadOpen(t)
    BY <1>1, Company, Names
      DEF ReadOpen, Succeeds, Fails, Goto, service, driver, radio, action, Guarded, Base,
          TypeOK, Single, State, Agree, Returns, Places, Place, SomeAt, OnAir,
          Resting, OpenSteps, Opening
  <1>2. CASE Pause(t)
    BY <1>2, Company, Names
      DEF Pause, Succeeds, Fails, Goto, service, driver, radio, action, Guarded,
          Base, TypeOK, Single, State, Agree, Returns, Places, Place, SomeAt, OnAir,
          Resting, OpenSteps, Opening
  <1>3. CASE SetMode(t)
    BY <1>3, Company, Names
      DEF SetMode, Succeeds, Fails, Goto, radio, action, Guarded, Base, TypeOK,
          Single, State, Agree, Returns, Places, Place, SomeAt, OnAir, Resting,
          OpenSteps, Opening
  <1>4. CASE StartDriver(t)
    BY <1>4, Company, Names
      DEF StartDriver, Succeeds, Fails, Goto, radio, action, Guarded, Base, TypeOK,
          Single, State, Agree, Returns, Places, Place, SomeAt, OnAir, Resting,
          OpenSteps, Opening
  <1>5. CASE ApFailed(t)
    BY <1>5, Company, Names
      DEF ApFailed, Succeeds, Goto, driver, radio, action, Guarded, Base, TypeOK,
          Single, State, Agree, Returns, Places, Place, SomeAt, OnAir, Resting,
          OpenSteps, Opening
  <1>6. CASE StartWatcher(t)
    BY <1>6, Company, Names
      DEF StartWatcher, Succeeds, Fails, Goto, service, driver, radio, action,
          Guarded, Base, TypeOK, Single, State, Agree, Returns, Places, Place,
          SomeAt, OnAir, Resting, OpenSteps, Opening
  <1>7. CASE Stop(t)
    BY <1>7, Company, Names
      DEF Stop, Succeeds, Fails, Goto, service, radio, action, Guarded, Base,
          TypeOK, Single, State, Agree, Returns, Places, Place, SomeAt, OnAir,
          Resting, OpenSteps, Opening
  <1>8. CASE Closed(t)
    BY <1>8, Company, Names
      DEF Closed, Succeeds, Goto, driver, radio, action, Guarded, Base, TypeOK,
          Single, State, Agree, Returns, Places, Place, SomeAt, OnAir, Resting,
          OpenSteps, Opening
  <1>9. CASE Station(t)
    BY <1>9, Company, Names
      DEF Station, Succeeds, Fails, Goto, service, radio, action, Guarded, Base,
          TypeOK, Single, State, Agree, Returns, Places, Place, SomeAt, OnAir,
          Resting, OpenSteps, Opening
  <1>10. CASE Connect(t)
    <2>1. /\ ~running /\ ~started /\ ~flag /\ mode = "sta"
          /\ \A u \in Tasks \ {t} : at[u] \in Resting
          /\ left \in Nat /\ scenario.failures \in Nat /\ left <= scenario.failures
      BY <1>10, Company DEF Connect, Guarded, State, Places, Place, Resting, OpenSteps, Opening
    <2>2. /\ at' = [at EXCEPT ![t] = "resume"]
          /\ UNCHANGED <<scenario, profile, flag, mode, radio, already>>
      BY <1>10 DEF Connect, Succeeds, Fails, Goto
    <2>3. /\ started' <=> running'
          /\ running' \/ left' < scenario.failures
      <3>1. CASE running' = (running \/ ~started) /\ started' = TRUE
        BY <2>1, <3>1, Zenon
      <3>2. CASE Fails(t, "resume") /\ UNCHANGED <<running, started>>
        BY <2>1, <3>2 DEF Fails
      <3>3. QED
        BY <1>10, <3>1, <3>2, Zenon DEF Connect
    <2>4. at'[t] = "resume" /\ \A u \in Tasks \ {t} : at'[u] = at[u]
      BY <2>2 DEF Guarded, Base, TypeOK
    <2>5. Agree'
      BY <2>1, <2>2, <2>4, <2>3 DEF Agree, SomeAt, OnAir, radio, Guarded, State
    <2>6. Returns'
      BY <2>1, <2>2, <2>3 DEF Returns
    <2>7. Places'
      BY <2>1, <2>2, <2>4 DEF Places, Place, Resting
    <2>8. Single'
      BY <2>1, <2>2, <2>4 DEF Single, Guarded, Resting
    <2>9. QED
      BY <2>5, <2>6, <2>7, <2>8 DEF State
  <1>11. CASE Resume(t)
    BY <1>11, Company, Names
      DEF Resume, Succeeds, Goto, Gate!Revoke, service, driver, radio, action,
          Guarded, Base, TypeOK, Single, State, Agree, Returns, Places, Place,
          SomeAt, OnAir, Resting, OpenSteps, Opening
  <1>12. CASE SetConfig(t)
    BY <1>12, Company, Names
      DEF SetConfig, Succeeds, Fails, Goto, service, driver, radio, action, Guarded,
          Base, TypeOK, Single, State, Agree, Returns, Places, Place, SomeAt, OnAir,
          Resting, OpenSteps, Opening
  <1>13. QED
    BY <1>1, <1>2, <1>3, <1>4, <1>5, <1>6, <1>7, <1>8, <1>9, <1>10, <1>11, <1>12 DEF Proceed

(* One task takes a step of its operation, or ends it.                      *)
LEMMA ExclusiveMove ==
  ASSUME Guarded, NoOverlappingClose, NEW t \in Tasks, NEW s \in Steps,
         at' = [at EXCEPT ![t] = s], scenario' = scenario, at[t] \notin Resting,
         scenario.overlap = "opens" /\ at[t] \in OpenSteps => s \in OpenSteps \cup Resting
  PROVE  Exclusive'
  <1>1. at'[t] = s /\ \A u \in Tasks : u # t => at'[u] = at[u]
    BY DEF Guarded, Base, TypeOK
  <1>2. ASSUME NEW u \in Working', NEW v \in Working', u # v
        PROVE  scenario'.overlap = "opens" /\ at'[u] \in OpenSteps
    <2>1. u \in Working /\ v \in Working
      BY <1>1, <1>2 DEF Working
    <2>2. scenario.overlap = "opens" /\ at[u] \in OpenSteps
      BY <1>2, <2>1 DEF Guarded, Exclusive
    <2>3. QED
      BY <1>1, <1>2, <2>2 DEF Working
  <1>3. ASSUME scenario'.overlap = "opens", NEW u \in Openers
        PROVE  at'[u] \in OpenSteps \cup Resting
    <2>1. at[u] \in OpenSteps \cup Resting
      BY <1>3 DEF Guarded, Exclusive
    <2>2. QED
      BY <1>1, <1>3, <2>1, Names
  <1>4. QED
    BY <1>2, <1>3 DEF Exclusive

LEMMA ProceedExclusive ==
  ASSUME Guarded, NoOverlappingClose, NEW t \in Tasks, Proceed(t)
  PROVE  Exclusive' /\ scenario' = scenario
  <1>1. at[t] \notin Resting
    BY DEF Proceed, ReadOpen, Pause, SetMode, SetConfig, StartDriver, ApFailed, StartWatcher, Stop, Closed,
           Station, Connect, Resume, Resting
  <1>2. \E s \in Steps :
            /\ at' = [at EXCEPT ![t] = s] /\ scenario' = scenario
            /\ scenario.overlap = "opens" /\ at[t] \in OpenSteps => s \in OpenSteps
    BY <1>1, Company
      DEF Proceed, ReadOpen, Pause, SetMode, SetConfig, StartDriver, ApFailed, StartWatcher, Stop, Closed,
          Station, Connect, Resume, Succeeds, Fails, Goto, Steps, OpenSteps, Opening, Resting
  <1>3. QED
    BY <1>1, <1>2, ExclusiveMove

(* A task begins an operation.                                              *)
Outside == <<scenario, profile, left, flag, started, driver, radio, already>>

LEMMA BeginKeeps ==
  ASSUME Guarded, NoOverlappingClose, NEW t \in Tasks, NEW s \in {"ap", "close"},
         at' = [at EXCEPT ![t] = s], UNCHANGED Outside, at[t] \in Resting, t # "boot",
         s = "ap" => MayOpen /\ ~flag,
         s = "close" => MayClose /\ t \notin Openers
  PROVE  Exclusive' /\ State' /\ Single'
  <1>1. at'[t] = s /\ \A u \in Tasks : u # t => at'[u] = at[u]
    BY DEF Guarded, Base, TypeOK
  <1>2. \A u \in Tasks \ {t} : at[u] \notin Resting =>
           s = "ap" /\ scenario.overlap = "opens" /\ at[u] \in OpenSteps
    BY DEF NoOverlappingClose, MayOpen, MayClose, Working, Guarded, Exclusive
  <1>3. Exclusive'
    <2>1. ASSUME NEW u \in Working', NEW v \in Working', u # v
          PROVE  scenario'.overlap = "opens" /\ at'[u] \in OpenSteps
      BY <1>1, <1>2, <2>1 DEF Working, Outside, OpenSteps, Opening
    <2>2. scenario.overlap = "opens" => \A u \in Openers : at'[u] \in OpenSteps \cup Resting
      BY <1>1, Names DEF Guarded, Exclusive, OpenSteps, Opening
    <2>3. QED
      BY <2>1, <2>2 DEF Exclusive, Outside
  <1>4. State'
    BY <1>1, Names
      DEF Guarded, State, Agree, Returns, Places, Place, SomeAt, OnAir, Resting, Outside,
          driver, radio
  <1>5. Single'
    BY <1>1, <1>2 DEF Guarded, Single, Outside, Resting
  <1>6. QED
    BY <1>3, <1>4, <1>5

(* A task stays at rest, or an operation has returned to it.                *)
LEMMA RestKeeps ==
  ASSUME Guarded, NoOverlappingClose, NEW t \in Tasks, NEW s \in Resting,
         at' = [at EXCEPT ![t] = s], UNCHANGED <<scenario, profile, left, flag, started>>,
         UNCHANGED <<driver, radio>>, at[t] \in Resting \cup {"done"},
         already' = already \/ already' = [already EXCEPT ![t] = FALSE]
  PROVE  Exclusive' /\ State' /\ Single'
  <1>1. at'[t] = s /\ \A u \in Tasks : u # t => at'[u] = at[u]
    BY DEF Guarded, Base, TypeOK
  <1>2. Exclusive'
    <2>1. ASSUME NEW u \in Working', NEW v \in Working', u # v
          PROVE  scenario'.overlap = "opens" /\ at'[u] \in OpenSteps
      BY <1>1, <2>1 DEF Working, Guarded, Exclusive
    <2>2. scenario.overlap = "opens" => \A u \in Openers : at'[u] \in OpenSteps \cup Resting
      BY <1>1, Names DEF Guarded, Exclusive
    <2>3. QED
      BY <2>1, <2>2 DEF Exclusive
  <1>3. State'
    BY <1>1, Names
      DEF Guarded, State, Agree, Returns, Places, Place, SomeAt, OnAir, Resting, driver, radio
  <1>4. Single'
    BY <1>1 DEF Guarded, Base, TypeOK, Single, Resting
  <1>5. QED
    BY <1>2, <1>3, <1>4

(* The other steps change nothing of the state, or only what is free.       *)
LEMMA OtherKeeps ==
  ASSUME Guarded, NoOverlappingClose, [Next]_vars, ~(\E t \in Tasks : Proceed(t))
  PROVE  Exclusive' /\ State' /\ Single'
  <1>1. ASSUME Boot PROVE Exclusive' /\ State' /\ Single'
    BY <1>1, Names, NoOverlappingClose
      DEF Boot, Succeeds, Goto, service, driver, radio, action, Guarded, Base,
          BootAlone, Claims, Exclusive, Working, TypeOK, Single, State, Agree,
          Returns, Places, Place, SomeAt, OnAir, Resting, OpenSteps, Opening
  <1>2. ASSUME Booted PROVE Exclusive' /\ State' /\ Single'
    BY <1>2, Names, NoOverlappingClose
      DEF Booted, Returned, Goto, service, driver, radio, action, Guarded, Base,
          BootAlone, Claims, Exclusive, Working, TypeOK, Single, State, Agree,
          Returns, Places, Place, SomeAt, OnAir, Resting, OpenSteps, Opening
  <1>3. ASSUME Abort PROVE Exclusive' /\ State' /\ Single'
    BY <1>3, Names, NoOverlappingClose
      DEF Abort, At, No, action, Guarded, Base, BootAlone, Claims, Exclusive,
          Working, TypeOK, Single, State, Agree, Returns, Places, Place, SomeAt,
          OnAir, Resting, OpenSteps, Opening
  <1>4. ASSUME NEW t \in Openers, Open(t) PROVE Exclusive' /\ State' /\ Single'
    <2>1. CASE ~flag /\ MayOpen /\ Succeeds(t, "ap") /\ UNCHANGED service
      <3>1. /\ at' = [at EXCEPT ![t] = "ap"] /\ UNCHANGED Outside
            /\ at[t] \in Resting
        BY <1>4, <2>1 DEF Open, Succeeds, Goto, service, Outside, Resting
      <3>2. QED
        BY <2>1, <3>1, Names, BeginKeeps
    <2>2. CASE flag /\ idle' = FALSE /\ Succeeds(t, "idle") /\ UNCHANGED <<flag, started, gen>>
      <3>1. at' = [at EXCEPT ![t] = "idle"] /\ at[t] = "idle"
        BY <1>4, <2>2 DEF Open, Succeeds, Goto
      <3>2. /\ UNCHANGED <<scenario, profile, left, flag, started>>
            /\ UNCHANGED <<driver, radio>> /\ already' = already
        BY <1>4, <2>2 DEF Open, Succeeds, Goto
      <3>3. QED
        BY <3>1, <3>2, Names, RestKeeps DEF Resting
    <2>3. QED
      BY <1>4, <2>1, <2>2 DEF Open
  <1>5. ASSUME NEW t \in Openers, Opened(t) PROVE Exclusive' /\ State' /\ Single'
    BY <1>5, Names, NoOverlappingClose
      DEF Opened, Returned, Goto, service, driver, radio, action, Guarded, Base,
          BootAlone, Claims, Exclusive, Working, TypeOK, Single, State, Agree,
          Returns, Places, Place, SomeAt, OnAir, Resting, OpenSteps, Opening
  <1>6. ASSUME Expired PROVE Exclusive' /\ State' /\ Single'
    BY <1>6, Names, NoOverlappingClose
      DEF Expired, Returned, Goto, service, driver, radio, action, Guarded, Base,
          BootAlone, Claims, Exclusive, Working, TypeOK, Single, State, Agree,
          Returns, Places, Place, SomeAt, OnAir, Resting, OpenSteps, Opening
  <1>7. ASSUME NEW g \in 1 .. gen, Expire(g) PROVE Exclusive' /\ State' /\ Single'
    <2>1. CASE watchers' = watchers \ {g} /\ UNCHANGED <<at, left, err, scenario, profile>>
      BY <1>7, <2>1, Names
        DEF Expire, service, driver, radio, action, Guarded, Exclusive, Working, Single,
            State, Agree, Returns, Places, Place, SomeAt, OnAir
    <2>2. CASE /\ at["expiry"] = "idle" /\ MayClose
               /\ Succeeds("expiry", "close") /\ UNCHANGED watchers
      <3>1. at' = [at EXCEPT !["expiry"] = "close"] /\ UNCHANGED Outside
        BY <1>7, <2>2 DEF Expire, service, Succeeds, Goto, Outside
      <3>2. QED
        BY <2>2, <3>1, Names, BeginKeeps DEF Resting
    <2>3. QED
      BY <1>7, <2>1, <2>2 DEF Expire
  <1>8. ASSUME Cancel PROVE Exclusive' /\ State' /\ Single'
    BY <1>8, Names, NoOverlappingClose
      DEF Cancel, EndAction, Succeeds, Goto, service, driver, radio, Guarded, Base,
          BootAlone, Claims, Exclusive, Working, TypeOK, Single, State, Agree,
          Returns, Places, Place, SomeAt, OnAir, Resting, OpenSteps, Opening
  <1>9. ASSUME Act PROVE Exclusive' /\ State' /\ Single'
    <2>1. CASE Succeeds("web", "close")
      <3>1. at' = [at EXCEPT !["web"] = "close"] /\ UNCHANGED Outside
        BY <1>9, <2>1 DEF Act, EndAction, service, Succeeds, Goto, Outside
      <3>2. QED
        BY <1>9, <3>1, Names, BeginKeeps DEF Act, Resting
    <2>2. CASE EndAction
      BY <1>9, <2>2, Names, RestKeeps DEF Act, EndAction, Succeeds, Goto, service, Resting
    <2>3. QED
      BY <1>9, <2>1, <2>2 DEF Act
  <1>10. ASSUME ActionClosed PROVE Exclusive' /\ State' /\ Single'
    BY <1>10, Names, NoOverlappingClose
      DEF ActionClosed, Returned, Goto, service, driver, radio, action, Guarded,
          Base, BootAlone, Claims, Exclusive, Working, TypeOK, Single, State, Agree,
          Returns, Places, Place, SomeAt, OnAir, Resting, OpenSteps, Opening
  <1>11. ASSUME Await PROVE Exclusive' /\ State' /\ Single'
    <2>1. \E s \in Resting : at' = [at EXCEPT !["web"] = s]
      BY <1>11 DEF Await, EndAction, Succeeds, Goto, Resting
    <2>2. /\ UNCHANGED <<scenario, profile, left, flag, started>>
          /\ UNCHANGED <<driver, radio>> /\ already' = already /\ at["web"] \in Resting
      BY <1>11 DEF Await, EndAction, Succeeds, Goto, service, Resting
    <2>3. QED
      BY <2>1, <2>2, Names, RestKeeps
  <1>12. ASSUME Commission PROVE Exclusive' /\ State' /\ Single'
    <2>1. \E s \in Resting : at' = [at EXCEPT !["web"] = s]
      BY <1>12 DEF Commission, EndAction, Succeeds, Goto, Resting
    <2>2. /\ UNCHANGED <<scenario, profile, left, flag, started>>
          /\ UNCHANGED <<driver, radio>> /\ already' = already /\ at["web"] \in Resting
      BY <1>12 DEF Commission, EndAction, Succeeds, Goto, service, Resting
    <2>3. QED
      BY <2>1, <2>2, Names, RestKeeps
  <1>13. ASSUME Reopen PROVE Exclusive' /\ State' /\ Single'
    <2>1. CASE ~Superseded /\ MayOpen /\ Succeeds("web", "ap")
      <3>1. at' = [at EXCEPT !["web"] = "ap"] /\ UNCHANGED Outside
        BY <1>13, <2>1 DEF Reopen, EndAction, service, Succeeds, Goto, Outside
      <3>2. QED
        BY <1>13, <2>1, <3>1, Names, BeginKeeps DEF Reopen, Resting, Superseded
    <2>2. CASE EndAction
      BY <1>13, <2>2, Names, RestKeeps DEF Reopen, EndAction, Succeeds, Goto, service, Resting
    <2>3. QED
      BY <1>13, <2>1, <2>2 DEF Reopen
  <1>14. ASSUME NEW pair \in BOOLEAN, Request(pair) PROVE Exclusive' /\ State' /\ Single'
    BY <1>14, Names, NoOverlappingClose
      DEF Request, Succeeds, Goto, service, driver, radio, Guarded, Base, BootAlone,
          Claims, Exclusive, Working, TypeOK, Single, State, Agree, Returns, Places,
          Place, SomeAt, OnAir, Resting, OpenSteps, Opening
  <1>15. ASSUME Router PROVE Exclusive' /\ State' /\ Single'
    BY <1>15, Names, NoOverlappingClose
      DEF Router, Gate!RouterClaims, Gate!RouterLeaves, service, driver, action,
          Guarded, Base, BootAlone, Claims, Exclusive, Working, TypeOK, Single,
          State, Agree, Returns, Places, Place, SomeAt, OnAir, Resting, OpenSteps,
          Opening
  <1>16. ASSUME Client PROVE Exclusive' /\ State' /\ Single'
    BY <1>16, Names, NoOverlappingClose
      DEF Client, radio, action, Guarded, Base, BootAlone, Claims, Exclusive,
          Working, TypeOK, Single, State, Agree, Returns, Places, Place, SomeAt,
          OnAir, Resting, OpenSteps, Opening
  <1>17. ASSUME FiveMinutes PROVE Exclusive' /\ State' /\ Single'
    BY <1>17, Names, NoOverlappingClose
      DEF FiveMinutes, driver, radio, action, Guarded, Base, BootAlone, Claims,
          Exclusive, Working, TypeOK, Single, State, Agree, Returns, Places, Place,
          SomeAt, OnAir, Resting, OpenSteps, Opening
  <1>18. ASSUME UNCHANGED vars PROVE Exclusive' /\ State' /\ Single'
    BY <1>18, Names, NoOverlappingClose
      DEF vars, service, driver, radio, action, Guarded, Base, BootAlone, Claims,
          Exclusive, Working, TypeOK, Single, State, Agree, Returns, Places, Place,
          SomeAt, OnAir, Resting, OpenSteps, Opening
  <1>19. QED
    BY <1>1, <1>2, <1>3, <1>4, <1>5, <1>6, <1>7, <1>8, <1>9, <1>10, <1>11, <1>12, <1>13, <1>14, <1>15, <1>16, <1>17, <1>18 DEF Next, Web

LEMMA ScenarioStays == [Next]_vars => scenario' = scenario
  <1> SUFFICES ASSUME [Next]_vars PROVE scenario' = scenario
    OBVIOUS
  <1> USE DEF Succeeds, Fails, Goto, Returned, EndAction
  <1>1. ASSUME NEW t \in Tasks, Proceed(t) PROVE scenario' = scenario
    BY <1>1 DEF Proceed, ReadOpen, Pause, SetMode, SetConfig, StartDriver, ApFailed, StartWatcher, Stop,
                Closed, Station, Connect, Resume
  <1>2. CASE Web
    BY <1>2 DEF Web, Cancel, Act, ActionClosed, Await, Commission, Reopen
  <1>3. CASE Router \/ Client \/ FiveMinutes \/ Abort \/ UNCHANGED vars
    BY <1>3 DEF Router, Client, FiveMinutes, Abort, vars
  <1>4. CASE \/ Boot \/ Booted \/ (\E t \in Openers : Open(t) \/ Opened(t)) \/ Expired
             \/ (\E g \in 1 .. gen : Expire(g)) \/ (\E pair \in BOOLEAN : Request(pair))
    BY <1>4 DEF Boot, Booted, Open, Opened, Expired, Expire, Request
  <1>5. QED
    BY <1>1, <1>2, <1>3, <1>4 DEF Next

-------------------------------------------------------------------------------
IInv == Base /\ (NoOverlappingClose => Exclusive /\ Single /\ State)

LEMMA InitInv == Init => IInv
  <1> SUFFICES ASSUME Init PROVE IInv
    OBVIOUS
  <1>1. at["boot"] = "boot" /\ \A u \in Tasks : u # "boot" => at[u] = "idle"
    BY Names DEF Init, At
  <1>2. Exclusive
    BY <1>1, Names DEF Exclusive, Working, Resting
  <1>3. Single
    BY <1>1, Names DEF Init, Single, No
  <1>4. State
    BY <1>1, Names DEF Init, Gate!Init, State, Agree, Returns, Places, Place, SomeAt, OnAir
  <1>5. QED
    BY <1>2, <1>3, <1>4, InitBase DEF IInv

LEMMA StepInv == IInv /\ [Next]_vars => IInv'
  <1> SUFFICES ASSUME IInv, [Next]_vars PROVE IInv'
    OBVIOUS
  <1>1. Base' /\ scenario' = scenario
    BY StepBase, ScenarioStays DEF IInv
  <1>2. ASSUME NoOverlappingClose' PROVE Exclusive' /\ State' /\ Single'
    <2>1. NoOverlappingClose /\ Guarded
      BY <1>1, <1>2 DEF NoOverlappingClose, IInv, Guarded
    <2>2. ASSUME NEW t \in Tasks, Proceed(t) PROVE Exclusive' /\ State' /\ Single'
      BY <2>1, <2>2, ProceedState, ProceedExclusive
    <2>3. QED
      BY <2>1, <2>2, OtherKeeps
  <1>3. QED
    BY <1>1, <1>2 DEF IInv

LEMMA Invariant == Spec => []IInv
  BY InitInv, StepInv, PTL DEF Spec

(* The AP on the air and the router never share the radio, whichever calls  *)
(* fail on the way up or down and however often: unless an opening overlaps *)
(* a close, which is what the run WifiAp_overlap shows to go wrong.         *)
THEOREM RadioNeverShared == Spec => [](NoOverlappingClose => NeverShareRadio)
  <1>1. IInv => (NoOverlappingClose => NeverShareRadio)
    BY DEF IInv, State, Agree, NeverShareRadio
  <1>2. QED
    BY Invariant, <1>1, PTL

(* When no operation is under way, the flag, the driver and the gate agree, *)
(* and a Wi-Fi controller none of whose calls failed is on its network.     *)
THEOREM ConsistentAtRest == Spec => [](NoOverlappingClose => RestIsConsistent)
  <1>1. ASSUME IInv, NoOverlappingClose, Working = {} PROVE RestIsConsistent
    <2>1. \A t \in Tasks : at[t] \in Resting
      BY <1>1 DEF Working
    <2>2. /\ ~SomeAt({"mode", "station", "connect", "resume"})
          /\ ~SomeAt({"config", "start", "ap_failed", "closed"})
          /\ ~SomeAt({"closed"}) /\ ~SomeAt({"station", "connect"})
          /\ at["boot"] \notin {"boot", "abort", "ap", "pause", "mode"}
      BY <2>1, Names DEF SomeAt, Resting
    <2>3. Agree /\ Returns /\ TypeOK
      BY <1>1 DEF IInv, State, Base
    <2>4. /\ OnAir => flag
          /\ flag => granted /\ mode = "ap" /\ running
          /\ granted => flag
          /\ started <=> running
      BY <2>2, <2>3 DEF Agree
    <2>5. profile = "wifi" /\ ~flag /\ left = scenario.failures => running /\ mode = "sta"
      BY <2>2, <2>3 DEF Returns
    <2>6. QED
      BY <2>4, <2>5 DEF RestIsConsistent, OnAir
  <1>2. IInv => (NoOverlappingClose => RestIsConsistent)
    BY <1>1 DEF RestIsConsistent
  <1>3. QED
    BY Invariant, <1>2, PTL

===============================================================================
