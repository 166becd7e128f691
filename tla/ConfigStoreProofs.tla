--------------------------- MODULE ConfigStoreProofs --------------------------
(* Proofs about the configuration store, for any settings, any number of    *)
(* passwords and all scenarios.                                             *)
EXTENDS ConfigStore, TLAPS

(* Where the tasks are tells who holds the lock, and that s_config is there.*)
Control ==
    /\ phase = "running" => ram \in Blob
    /\ phase # "running" =>
          /\ ~usingPending /\ lock = Nobody
          /\ at = [web |-> "idle", serial |-> "idle", health |-> "waiting"]
    /\ lock = "health" <=> at.health \in {"erase_pending", "erase_boots"}
    /\ lock = "serial" <=> at.serial \in {"reset_pending", "install"}
    /\ at.web = "save" => next \in Blob

Base == TypeOK /\ Control

(* The running settings are in the active slot; while they are not, the     *)
(* pending slot is taken, and it is given up only after they are.           *)
ActiveRuns == nvs.active # None /\ nvs.active.data = ram.data
Stored ==
    /\ phase = "running" => ActiveRuns \/ nvs.pending # None
    /\ at.health \in {"erase_pending", "erase_boots"} => ActiveRuns

(* Settings become active after their health check only.                    *)
Healthy ==
    /\ ActiveWasHealthy
    /\ nvs.active = None => nvs.pending = None /\ phase = "start"
    /\ at.health \in {"mark", "erase_pending", "erase_boots"} => ram.data \in confirmed

(* The count in NVS is never behind the trials of the pending settings.     *)
Counted ==
    ~May("nvs_fails") =>
        /\ trials <= MaxBoots
        /\ nvs.pending # None => trials <= nvs.boots
        /\ usingPending /\ at.health # "erase_boots" => nvs.pending # None
        /\ at.health = "erase_boots" \/ phase \in {"forget", "active"} => nvs.pending = None

(* What a reset has printed or is about to print is in both slots.          *)
AtLeast(blob, pw) == blob # None => blob.pw >= pw
Rehash ==
    ~May("web") =>
        /\ at.web = "idle" /\ next = None
        /\ shown <= passwords /\ (nvs.active = None => shown = 0)
        /\ AtLeast(nvs.active, shown) /\ AtLeast(nvs.pending, shown)
        /\ AtLeast(ram, shown) /\ AtLeast(edit, shown)
        /\ at.serial \in {"reset_pending", "install"} =>
              nvs.active # None /\ AtLeast(nvs.active, passwords)
        /\ at.serial = "install" => AtLeast(nvs.pending, passwords)

(* While saves come one at a time and nothing fails, what was accepted stays *)
(* in the pending slot: no trial is going on when it is saved, so the count *)
(* of boots is zero and the health check has nothing left to erase.         *)
Calm == scenario \cap {"resave", "crash", "nvs_fails"} = {}
Untried ==
    /\ AcceptedStaysStaged
    /\ accepted # None => nvs.boots = 0 /\ phase \in {"start", "running"}
    /\ usingPending => accepted = None /\ at.web = "idle" /\ ~due
    /\ due => phase = "running"
    /\ at.health \in {"erase_pending", "erase_boots"} => usingPending
    /\ \/ nvs.boots = 0 \/ usingPending \/ phase = "forget"
       \/ phase = "start" /\ nvs.pending # None
Staged == Calm => Untried

-------------------------------------------------------------------------------
(* TypeOK in four parts.                                                    *)
Nvs == [active : Blob \cup {None}, pending : Blob \cup {None}, boots : 0 .. MaxBoots]
NvsOK == nvs \in Nvs
BlobsOK == ram \in Blob \cup {None} /\ next \in Blob \cup {None} /\ edit \in Blob \cup {None}
AtOK ==
    at \in [web : {"idle", "save"},
           serial : {"idle", "reset_pending", "install", "rebooting"},
           health : {"waiting", "mark", "erase_pending", "erase_boots", "done"}]
RestOK ==
    /\ scenario \in Scenarios
    /\ phase \in {"start", "forget", "active", "running"}
    /\ usingPending \in BOOLEAN /\ recovery \in BOOLEAN /\ due \in BOOLEAN
    /\ lock \in Tasks \cup {Nobody}
    /\ passwords \in 0 .. MaxPassword /\ shown \in 0 .. MaxPassword
    /\ trials \in 0 .. MaxBoots + 1
    /\ confirmed \subseteq Settings /\ accepted \in Settings \cup {None}

(* Blobs, their fields and the slots.                                       *)
LEMMA NoneIsNoBlob == None \notin Blob /\ None \notin Settings
  BY StoreAssumption DEF Blob, Settings

LEMMA WithPassword ==
  ASSUME NEW blob \in Blob, NEW pw \in Torn .. MaxPassword
  PROVE  /\ [blob EXCEPT !.pw = pw] \in Blob
         /\ [blob EXCEPT !.pw = pw].data = blob.data /\ [blob EXCEPT !.pw = pw].pw = pw
  BY DEF Blob

LEMMA WithData ==
  ASSUME NEW blob \in Blob, NEW data \in Settings
  PROVE  /\ [blob EXCEPT !.data = data] \in Blob
         /\ [blob EXCEPT !.data = data].data = data /\ [blob EXCEPT !.data = data].pw = blob.pw
  BY DEF Blob

LEMMA Parts ==
  /\ \A blob \in Blob : blob.data \in Settings /\ blob.pw \in Torn .. MaxPassword
  /\ \A data \in Settings, pw \in Torn .. MaxPassword : [data |-> data, pw |-> pw] \in Blob
  /\ Data \subseteq Settings /\ Default \in Settings
  /\ MaxPassword \in Nat
  BY StoreAssumption DEF Blob, Settings

LEMMA Slots ==
  ASSUME NEW n \in Nvs, NEW blob \in Blob \cup {None}, NEW b \in 0 .. MaxBoots
  PROVE  /\ [n EXCEPT !.active = blob] \in Nvs /\ [n EXCEPT !.active = blob].active = blob
         /\ [n EXCEPT !.pending = blob] \in Nvs
         /\ [n EXCEPT !.boots = b] \in Nvs
  BY DEF Nvs

LEMMA Bounds == /\ 0 \in 0 .. MaxPassword /\ Torn .. MaxPassword = {Torn} \cup 0 .. MaxPassword
                /\ 0 \in 0 .. MaxBoots /\ 0 \in 0 .. MaxBoots + 1
  BY StoreAssumption DEF Torn, MaxBoots

(* Each step of Next, for each part of the invariant.                       *)
LEMMA StepType == Base /\ [Next]_vars => TypeOK'
  <1> SUFFICES ASSUME Base, [Next]_vars PROVE TypeOK'
    OBVIOUS
  <1>0. TypeOK /\ Control /\ NvsOK /\ BlobsOK /\ AtOK /\ RestOK
    BY DEF Base, TypeOK, NvsOK, Nvs, BlobsOK, AtOK, RestOK
  <1>1. ASSUME BootPending PROVE TypeOK'
    BY <1>1, StoreAssumption
      DEF BootPending, OnTrial, Write, Run, May, Base, TypeOK, Control, MaxBoots, Nobody,
          Tasks
  <1>2. ASSUME RollBack PROVE TypeOK'
    BY <1>2, StoreAssumption
      DEF RollBack, OnTrial, Write, May, history, Base, TypeOK, Control, MaxBoots, Nobody,
          Tasks
  <1>3. ASSUME ForgetBoots PROVE TypeOK'
    BY <1>3, StoreAssumption
      DEF ForgetBoots, Write, May, volatile, history, Base, TypeOK, Control, MaxBoots,
          Nobody, Tasks
  <1>4. ASSUME BootActive PROVE TypeOK'
    <2>1. NvsOK'
      BY <1>4, <1>0 DEF BootActive, ReadsActive, Run, NvsOK
    <2>2. BlobsOK'
      BY <1>4, <1>0 DEF BootActive, Run, BlobsOK, NvsOK, Nvs
    <2>3. AtOK'
      BY <1>4, <1>0 DEF BootActive, ReadsActive, Run, AtOK
    <2>4. RestOK'
      BY <1>4, <1>0, Bounds DEF BootActive, ReadsActive, Run, RestOK
    <2> QED BY <2>1, <2>2, <2>3, <2>4 DEF TypeOK, NvsOK, Nvs, BlobsOK, AtOK, RestOK
  <1>5. ASSUME BootDefaults PROVE TypeOK'
    <2>1. [data |-> Default, pw |-> 0] \in Blob
      BY Parts, Bounds DEF Torn
    <2>2. nvs' \in Nvs /\ nvs'.active \in Blob
      BY <1>5, <1>0, <2>1, Slots, Bounds DEF BootDefaults, ReadsActive, Run, NvsOK
    <2>3. BlobsOK'
      BY <1>5, <1>0, <2>2 DEF BootDefaults, ReadsActive, Run, BlobsOK
    <2>4. AtOK'
      BY <1>5, <1>0 DEF BootDefaults, ReadsActive, Run, AtOK
    <2>5. RestOK'
      BY <1>5, <1>0, Bounds DEF BootDefaults, ReadsActive, Run, RestOK
    <2> QED BY <2>1, <2>2, <2>3, <2>4, <2>5 DEF TypeOK, NvsOK, Nvs, BlobsOK, AtOK, RestOK
  <1>6. ASSUME Restart PROVE TypeOK'
    BY <1>6, StoreAssumption
      DEF Restart, Restarted, history, Base, TypeOK, Control, MaxBoots, Nobody, Tasks
  <1>7. ASSUME FactoryReset PROVE TypeOK'
    <2>1. NvsOK'
      BY <1>7, Bounds DEF FactoryReset, Restarted, Erased, NvsOK, Nvs
    <2>2. BlobsOK'
      BY <1>7 DEF FactoryReset, Restarted, BlobsOK
    <2>3. AtOK'
      BY <1>7 DEF FactoryReset, Restarted, AtOK
    <2>4. RestOK'
      BY <1>7, <1>0, Bounds DEF FactoryReset, Restarted, RestOK
    <2> QED BY <2>1, <2>2, <2>3, <2>4 DEF TypeOK, NvsOK, Nvs, BlobsOK, AtOK, RestOK
  <1>8. ASSUME NEW data \in Data, WebPatch(data) PROVE TypeOK'
    <2>1. passwords' \in 0 .. MaxPassword
      BY <1>8, <1>0, Parts DEF WebPatch, MayEdit, NewPassword, Goto, history, RestOK
    <2>2. PasswordRead \subseteq Torn .. MaxPassword
      BY <1>8, <1>0, Parts, Bounds
        DEF WebPatch, MayEdit, NewPassword, Goto, history, PasswordRead, Control, RestOK,
            Torn
    <2>3. next' \in Blob
      BY <1>8, <2>1, <2>2, Parts, Bounds DEF WebPatch, MayEdit, NewPassword, Goto, history
    <2>4. NvsOK'
      BY <1>8, <1>0 DEF WebPatch, MayEdit, NewPassword, Goto, history, NvsOK
    <2>5. BlobsOK'
      BY <1>8, <1>0, <2>3 DEF WebPatch, MayEdit, NewPassword, Goto, history, BlobsOK
    <2>6. AtOK'
      BY <1>8, <1>0 DEF WebPatch, MayEdit, NewPassword, Goto, history, AtOK
    <2>7. RestOK'
      BY <1>8, <1>0, <2>1 DEF WebPatch, MayEdit, NewPassword, Goto, history, RestOK
    <2> QED BY <2>1, <2>2, <2>3, <2>4, <2>5, <2>6, <2>7
      DEF TypeOK, NvsOK, Nvs, BlobsOK, AtOK, RestOK
  <1>9. ASSUME WebSave PROVE TypeOK'
    <2>1. next \in Blob /\ next.data \in Settings
      BY <1>9, <1>0, Parts DEF WebSave, Control
    <2>2. nvs' = [nvs EXCEPT !.pending = next] \/ nvs' = nvs
      BY <1>9 DEF WebSave, SavePending, SaveFails, Goto, history
    <2>3. NvsOK'
      BY <1>0, <2>1, <2>2, Slots, Bounds DEF NvsOK
    <2>4. BlobsOK'
      BY <1>9, <1>0 DEF WebSave, SavePending, SaveFails, Goto, history, BlobsOK
    <2>5. AtOK'
      BY <1>9, <1>0 DEF WebSave, SavePending, SaveFails, Goto, history, AtOK
    <2>6. RestOK'
      BY <1>9, <1>0, <2>1, Bounds DEF WebSave, SavePending, SaveFails, Goto, history, RestOK
    <2> QED BY <2>1, <2>2, <2>3, <2>4, <2>5, <2>6
      DEF TypeOK, NvsOK, Nvs, BlobsOK, AtOK, RestOK
  <1>10. ASSUME NEW data \in Data, Edit(data) PROVE TypeOK'
    <2>1. passwords' \in 0 .. MaxPassword
      BY <1>10, <1>0, Parts DEF Edit, SerialIdle, MayEdit, NewPassword, history, RestOK
    <2>2. (IF edit = None THEN ram ELSE edit) \in Blob
      BY <1>10, <1>0 DEF Edit, SerialIdle, MayEdit, NewPassword, history, Control, BlobsOK
    <2>3. edit' \in Blob
      BY <1>10, <2>1, <2>2, Parts, Bounds, WithData, WithPassword
        DEF Edit, SerialIdle, MayEdit, NewPassword, history
    <2>4. NvsOK'
      BY <1>10, <1>0 DEF Edit, SerialIdle, MayEdit, NewPassword, history, NvsOK
    <2>5. BlobsOK'
      BY <1>10, <1>0, <2>3 DEF Edit, SerialIdle, MayEdit, NewPassword, history, BlobsOK
    <2>6. AtOK'
      BY <1>10, <1>0 DEF Edit, SerialIdle, MayEdit, NewPassword, history, AtOK
    <2>7. RestOK'
      BY <1>10, <1>0, <2>1 DEF Edit, SerialIdle, MayEdit, NewPassword, history, RestOK
    <2> QED BY <2>1, <2>2, <2>3, <2>4, <2>5, <2>6, <2>7
      DEF TypeOK, NvsOK, Nvs, BlobsOK, AtOK, RestOK
  <1>11. ASSUME Save PROVE TypeOK'
    <2>1. edit \in Blob /\ edit.data \in Settings
      BY <1>11, <1>0, Parts DEF Save, BlobsOK
    <2>2. nvs' = [nvs EXCEPT !.pending = edit] \/ nvs' = nvs
      BY <1>11 DEF Save, SerialIdle, SavePending, SaveFails, Goto, history
    <2>3. NvsOK'
      BY <1>0, <2>1, <2>2, Slots, Bounds DEF NvsOK
    <2>4. BlobsOK'
      BY <1>11, <1>0 DEF Save, SerialIdle, SavePending, SaveFails, Goto, history, BlobsOK
    <2>5. AtOK'
      BY <1>11, <1>0 DEF Save, SerialIdle, SavePending, SaveFails, Goto, history, AtOK
    <2>6. RestOK'
      BY <1>11, <1>0, <2>1, Bounds
        DEF Save, SerialIdle, SavePending, SaveFails, Goto, history, RestOK
    <2> QED BY <2>1, <2>2, <2>3, <2>4, <2>5, <2>6
      DEF TypeOK, NvsOK, Nvs, BlobsOK, AtOK, RestOK
  <1>12. ASSUME Discard PROVE TypeOK'
    BY <1>12, StoreAssumption
      DEF Discard, SerialIdle, history, Base, TypeOK, Control, MaxBoots, Nobody, Tasks
  <1>13. ASSUME ResetActive PROVE TypeOK'
    <2>1. passwords' \in 0 .. MaxPassword
      BY <1>13, <1>0, Parts DEF ResetActive, SerialIdle, NewPassword, Goto, history, RestOK
    <2>2. ActiveRehashed \in Blob
      BY <1>13, <1>0, <2>1, WithPassword, Bounds
        DEF ActiveRehashed, Rehashed, ResetActive, SerialIdle, NvsOK, Nvs, Control
    <2>3. NvsOK'
      BY <1>13, <1>0, <2>2, Slots, Bounds
        DEF ResetActive, SerialIdle, NewPassword, Goto, history, NvsOK
    <2>4. BlobsOK'
      BY <1>13, <1>0 DEF ResetActive, SerialIdle, NewPassword, Goto, history, BlobsOK
    <2>5. AtOK'
      BY <1>13, <1>0 DEF ResetActive, SerialIdle, NewPassword, Goto, history, AtOK
    <2>6. RestOK'
      BY <1>13, <1>0, <2>1
        DEF ResetActive, SerialIdle, NewPassword, Goto, history, RestOK, Tasks
    <2> QED BY <2>1, <2>2, <2>3, <2>4, <2>5, <2>6
      DEF TypeOK, NvsOK, Nvs, BlobsOK, AtOK, RestOK
  <1>14. ASSUME ResetPending PROVE TypeOK'
    <2>1. PendingRehashed \in Blob \cup {None}
      BY <1>14, <1>0, WithPassword, Bounds
        DEF PendingRehashed, ResetPending, NvsOK, Nvs, Control, RestOK
    <2>2. NvsOK'
      BY <1>14, <1>0, <2>1, Slots, Bounds DEF ResetPending, Goto, history, NvsOK
    <2>3. BlobsOK'
      BY <1>14, <1>0 DEF ResetPending, Goto, history, BlobsOK
    <2>4. AtOK'
      BY <1>14, <1>0 DEF ResetPending, Goto, history, AtOK
    <2>5. RestOK'
      BY <1>14, <1>0 DEF ResetPending, Goto, history, RestOK
    <2> QED BY <2>1, <2>2, <2>3, <2>4, <2>5 DEF TypeOK, NvsOK, Nvs, BlobsOK, AtOK, RestOK
  <1>15. ASSUME Install PROVE TypeOK'
    <2>1. ram \in Blob /\ passwords \in Torn .. MaxPassword
      BY <1>15, <1>0, Bounds DEF Install, Control, RestOK
    <2>2. EditRehashed \in Blob \cup {None}
      BY <1>15, <1>0, <2>1, WithPassword DEF EditRehashed, BlobsOK
    <2>3. NvsOK'
      BY <1>15, <1>0 DEF Install, Goto, NvsOK
    <2>4. BlobsOK'
      BY <1>15, <1>0, <2>1, <2>2, WithPassword DEF Install, Goto, BlobsOK
    <2>5. AtOK'
      BY <1>15, <1>0 DEF Install, Goto, AtOK
    <2>6. RestOK'
      BY <1>15, <1>0 DEF Install, Goto, RestOK
    <2> QED BY <2>1, <2>2, <2>3, <2>4, <2>5, <2>6
      DEF TypeOK, NvsOK, Nvs, BlobsOK, AtOK, RestOK
  <1>16. ASSUME HealthCheck PROVE TypeOK'
    <2>1. ram.data \in Settings
      BY <1>16, <1>0, Parts DEF HealthCheck, Control
    <2>2. NvsOK'
      BY <1>16, <1>0 DEF HealthCheck, Goto, NvsOK
    <2>3. BlobsOK'
      BY <1>16, <1>0 DEF HealthCheck, Goto, BlobsOK
    <2>4. AtOK'
      BY <1>16, <1>0 DEF HealthCheck, Goto, AtOK
    <2>5. RestOK'
      BY <1>16, <1>0, <2>1 DEF HealthCheck, Goto, RestOK
    <2> QED BY <2>1, <2>2, <2>3, <2>4, <2>5 DEF TypeOK, NvsOK, Nvs, BlobsOK, AtOK, RestOK
  <1>17. ASSUME MarkActive PROVE TypeOK'
    BY <1>17, StoreAssumption
      DEF MarkActive, MarkDone, MarkGoes, Goto, May, history, Base, TypeOK, Control,
          MaxBoots, Nobody, Tasks
  <1>18. ASSUME ErasePending PROVE TypeOK'
    BY <1>18, StoreAssumption
      DEF ErasePending, MarkGoes, Write, Goto, May, history, Base, TypeOK, Control,
          MaxBoots, Nobody, Tasks
  <1>19. ASSUME EraseBoots PROVE TypeOK'
    <2>1. NvsOK'
      BY <1>19, <1>0, Slots, Bounds, NoneIsNoBlob
        DEF EraseBoots, MarkDone, Write, Goto, history, NvsOK
    <2>2. BlobsOK'
      BY <1>19, <1>0 DEF EraseBoots, MarkDone, Write, Goto, history, BlobsOK
    <2>3. AtOK'
      BY <1>19, <1>0 DEF EraseBoots, MarkDone, Write, Goto, history, AtOK
    <2>4. RestOK'
      BY <1>19, <1>0 DEF EraseBoots, MarkDone, Write, Goto, history, RestOK
    <2> QED BY <2>1, <2>2, <2>3, <2>4 DEF TypeOK, NvsOK, Nvs, BlobsOK, AtOK, RestOK
  <1>20. ASSUME UNCHANGED vars PROVE TypeOK'
    BY <1>20 DEF vars, volatile, history, Base, TypeOK
  <1> QED
    BY <1>1, <1>2, <1>3, <1>4, <1>5, <1>6, <1>7, <1>8, <1>9, <1>10,
       <1>11, <1>12, <1>13, <1>14, <1>15, <1>16, <1>17, <1>18, <1>19, <1>20
    DEF Next, Boot, Web, Serial, Health

(* The lock and the places of the tasks.                                    *)
LEMMA StepControl == Base /\ [Next]_vars => Control'
  <1> SUFFICES ASSUME Base, [Next]_vars PROVE Control'
    OBVIOUS
  <1>1. ASSUME BootPending PROVE Control'
    BY <1>1 DEF BootPending, OnTrial, Write, Run, May, Base, TypeOK, Control, Tasks, Nobody
  <1>2. ASSUME RollBack PROVE Control'
    BY <1>2 DEF RollBack, OnTrial, Write, May, history, Base, TypeOK, Control, Tasks, Nobody
  <1>3. ASSUME ForgetBoots PROVE Control'
    BY <1>3
      DEF ForgetBoots, Write, May, volatile, history, Base, TypeOK, Control, Tasks, Nobody
  <1>4. ASSUME BootActive PROVE Control'
    BY <1>4 DEF BootActive, ReadsActive, Run, Base, TypeOK, Control, Tasks, Nobody
  <1>5. ASSUME BootDefaults PROVE Control'
    <2>1. ram' \in Blob
      BY <1>5, Parts, Bounds DEF BootDefaults, Run, Torn
    <2> QED BY <1>5, <2>1
      DEF BootDefaults, ReadsActive, Run, Base, TypeOK, Control, Tasks, Nobody
  <1>6. ASSUME Restart PROVE Control'
    BY <1>6 DEF Restart, Restarted, history, Base, TypeOK, Control, Tasks, Nobody
  <1>7. ASSUME FactoryReset PROVE Control'
    BY <1>7 DEF FactoryReset, Restarted, Erased, Base, TypeOK, Control, Tasks, Nobody
  <1>8. ASSUME NEW data \in Data, WebPatch(data) PROVE Control'
    <2>1. passwords' \in 0 .. MaxPassword
      BY <1>8, Parts DEF WebPatch, NewPassword, Base, TypeOK
    <2>2. PasswordRead \subseteq Torn .. MaxPassword
      BY <1>8, Parts, Bounds
        DEF WebPatch, MayEdit, PasswordRead, Base, Control, TypeOK, Torn
    <2>3. next' \in Blob
      BY <1>8, <2>1, <2>2, Parts, Bounds DEF WebPatch, NewPassword
    <2> QED BY <1>8, <2>3
      DEF WebPatch, MayEdit, Goto, history, Base, TypeOK, Control, Tasks, Nobody
  <1>9. ASSUME WebSave PROVE Control'
    BY <1>9
      DEF WebSave, SavePending, SaveFails, Goto, May, history, Base, TypeOK, Control, Tasks,
          Nobody
  <1>10. ASSUME NEW data \in Data, Edit(data) PROVE Control'
    BY <1>10
      DEF Edit, SerialIdle, NewPassword, history, May, Base, TypeOK, Control, Tasks, Nobody
  <1>11. ASSUME Save PROVE Control'
    BY <1>11
      DEF Save, SerialIdle, SavePending, SaveFails, Goto, May, history, Base, TypeOK,
          Control, Tasks, Nobody
  <1>12. ASSUME Discard PROVE Control'
    BY <1>12 DEF Discard, SerialIdle, history, Base, TypeOK, Control, Tasks, Nobody
  <1>13. ASSUME ResetActive PROVE Control'
    BY <1>13
      DEF ResetActive, SerialIdle, NewPassword, ActiveRehashed, Rehashed, Goto, May,
          history, Base, TypeOK, Control, Tasks, Nobody
  <1>14. ASSUME ResetPending PROVE Control'
    BY <1>14
      DEF ResetPending, PendingRehashed, Goto, May, history, Base, TypeOK, Control, Tasks,
          Nobody
  <1>15. ASSUME Install PROVE Control'
    <2>1. ram \in Blob /\ phase = "running" /\ passwords \in Torn .. MaxPassword
      BY <1>15, Bounds DEF Install, Base, TypeOK, Control, Torn
    <2>2. ram' \in Blob
      BY <1>15, <2>1, WithPassword DEF Install
    <2> QED BY <1>15, <2>1, <2>2 DEF Install, Goto, Base, TypeOK, Control, Tasks, Nobody
  <1>16. ASSUME HealthCheck PROVE Control'
    BY <1>16 DEF HealthCheck, Goto, Base, TypeOK, Control, Tasks, Nobody
  <1>17. ASSUME MarkActive PROVE Control'
    BY <1>17
      DEF MarkActive, MarkDone, MarkGoes, Goto, May, history, Base, TypeOK, Control, Tasks,
          Nobody
  <1>18. ASSUME ErasePending PROVE Control'
    BY <1>18
      DEF ErasePending, MarkGoes, Write, Goto, May, history, Base, TypeOK, Control, Tasks,
          Nobody
  <1>19. ASSUME EraseBoots PROVE Control'
    BY <1>19
      DEF EraseBoots, MarkDone, Write, Goto, May, history, Base, TypeOK, Control, Tasks,
          Nobody
  <1>20. ASSUME UNCHANGED vars PROVE Control'
    BY <1>20 DEF vars, volatile, history, Base, TypeOK, Control, Tasks, Nobody
  <1> QED
    BY <1>1, <1>2, <1>3, <1>4, <1>5, <1>6, <1>7, <1>8, <1>9, <1>10,
       <1>11, <1>12, <1>13, <1>14, <1>15, <1>16, <1>17, <1>18, <1>19, <1>20
    DEF Next, Boot, Web, Serial, Health

-------------------------------------------------------------------------------
(* What the steps that build a blob do to slots and settings.               *)
LEMMA DefaultsEffect ==
  ASSUME Base, BootDefaults
  PROVE  /\ ram' \in Blob /\ ram'.data = Default /\ ram'.pw = 0 /\ nvs'.active = ram'
         /\ nvs'.pending = nvs.pending /\ nvs'.boots = nvs.boots
         /\ nvs.active = None /\ phase # "running" /\ phase' = "running"
         /\ ~usingPending' /\ trials' = 0
         /\ UNCHANGED <<scenario, lock, at, next, edit, passwords, shown, confirmed>>
  <1>1. [data |-> Default, pw |-> 0] \in Blob
    BY Parts, Bounds DEF Torn
  <1>2. QED
    BY <1>1 DEF BootDefaults, ReadsActive, Run, Base, TypeOK

LEMMA ResetActiveEffect ==
  ASSUME Base, ResetActive
  PROVE  /\ phase = "running" /\ passwords' = passwords + 1
         /\ nvs'.pending = nvs.pending /\ nvs'.boots = nvs.boots
         /\ \/ nvs' = nvs /\ at' = at
            \/ /\ at' = [at EXCEPT !.serial = "reset_pending"]
               /\ nvs'.active \in Blob /\ nvs'.active.pw = passwords'
               /\ nvs'.active.data = (IF nvs.active = None THEN ram ELSE nvs.active).data
  <1>1. /\ phase = "running" /\ passwords' = passwords + 1
        /\ passwords' \in Torn .. MaxPassword
    BY Parts, Bounds DEF ResetActive, SerialIdle, NewPassword, Base, TypeOK
  <1>2. (IF nvs.active = None THEN ram ELSE nvs.active) \in Blob
    BY <1>1 DEF Base, TypeOK, Control
  <1>3. /\ ActiveRehashed \in Blob /\ ActiveRehashed.pw = passwords'
        /\ ActiveRehashed.data = (IF nvs.active = None THEN ram ELSE nvs.active).data
    BY <1>1, <1>2, WithPassword DEF ActiveRehashed, Rehashed
  <1>4. \/ nvs' = nvs /\ at' = at
        \/ at' = [at EXCEPT !.serial = "reset_pending"] /\ nvs' = [nvs EXCEPT !.active = ActiveRehashed]
    BY DEF ResetActive, Goto
  <1>5. QED
    BY <1>1, <1>3, <1>4 DEF Base, TypeOK

LEMMA ResetPendingEffect ==
  ASSUME Base, ResetPending
  PROVE  /\ phase = "running" /\ nvs'.active = nvs.active /\ nvs'.boots = nvs.boots
         /\ \/ nvs' = nvs /\ at' = [at EXCEPT !.serial = "idle"]
            \/ /\ at' = [at EXCEPT !.serial = "install"]
               /\ nvs'.pending = None <=> nvs.pending = None /\ ~usingPending
               /\ nvs'.pending # None => nvs'.pending \in Blob /\ nvs'.pending.pw = passwords
  <1>1. /\ phase = "running" /\ ram \in Blob /\ passwords \in Torn .. MaxPassword
        /\ nvs.pending # None => nvs.pending \in Blob
    BY Bounds DEF ResetPending, Base, TypeOK, Control
  <1>2. /\ PendingRehashed = None <=> nvs.pending = None /\ ~usingPending
        /\ PendingRehashed # None => PendingRehashed \in Blob /\ PendingRehashed.pw = passwords
    BY <1>1, WithPassword, NoneIsNoBlob DEF PendingRehashed
  <1>3. \/ nvs' = nvs /\ at' = [at EXCEPT !.serial = "idle"]
        \/ at' = [at EXCEPT !.serial = "install"] /\ nvs' = [nvs EXCEPT !.pending = PendingRehashed]
    BY DEF ResetPending, Goto
  <1>4. QED
    BY <1>1, <1>2, <1>3 DEF Base, TypeOK

LEMMA InstallEffect ==
  ASSUME Base, Install
  PROVE  /\ phase = "running" /\ ram' \in Blob /\ ram'.data = ram.data
         /\ \/ ram' = ram /\ edit' = edit /\ shown' = shown
            \/ /\ ram'.pw = passwords /\ shown' = passwords
               /\ edit' # None => edit'.pw = passwords
  <1>1. /\ phase = "running" /\ ram \in Blob /\ passwords \in Torn .. MaxPassword
        /\ edit # None => edit \in Blob
    BY Bounds DEF Install, Base, TypeOK, Control
  <1>2. EditRehashed # None => EditRehashed.pw = passwords
    BY <1>1, WithPassword DEF EditRehashed
  <1>3. QED
    BY <1>1, <1>2, WithPassword DEF Install

LEMMA EditEffect ==
  ASSUME Base, NEW data \in Data, Edit(data)
  PROVE  \/ edit'.pw = (IF edit = None THEN ram ELSE edit).pw /\ passwords' = passwords
         \/ edit'.pw = passwords' /\ passwords' = passwords + 1
  <1>1. (IF edit = None THEN ram ELSE edit) \in Blob
    BY DEF Edit, SerialIdle, Base, TypeOK, Control
  <1>2. NewPassword => passwords' \in Torn .. MaxPassword
    BY Parts, Bounds DEF NewPassword, Base, TypeOK
  <1>3. CASE /\ edit' = [(IF edit = None THEN ram ELSE edit) EXCEPT !.data = data]
             /\ passwords' = passwords
    BY <1>1, <1>3, WithData, Parts
  <1>4. CASE /\ NewPassword
             /\ edit' = [(IF edit = None THEN ram ELSE edit) EXCEPT !.pw = passwords']
    BY <1>1, <1>2, <1>4, WithPassword DEF NewPassword
  <1>5. QED
    BY <1>3, <1>4 DEF Edit

(* The running settings stay in a slot.                                     *)
LEMMA StepStored == Base /\ Stored /\ [Next]_vars => Stored'
  <1> SUFFICES ASSUME Base /\ Stored, [Next]_vars PROVE Stored'
    OBVIOUS
  <1>1. ASSUME BootPending PROVE Stored'
    BY <1>1, NoneIsNoBlob
      DEF BootPending, OnTrial, Write, Run, May, Base, TypeOK, Control, Tasks, Nobody,
          Stored, ActiveRuns
  <1>2. ASSUME RollBack PROVE Stored'
    BY <1>2, NoneIsNoBlob
      DEF RollBack, OnTrial, Write, May, history, Base, TypeOK, Control, Tasks, Nobody,
          Stored, ActiveRuns
  <1>3. ASSUME ForgetBoots PROVE Stored'
    BY <1>3, NoneIsNoBlob
      DEF ForgetBoots, Write, May, volatile, history, Base, TypeOK, Control, Tasks, Nobody,
          Stored, ActiveRuns
  <1>4. ASSUME BootActive PROVE Stored'
    BY <1>4, NoneIsNoBlob
      DEF BootActive, ReadsActive, Run, Base, TypeOK, Control, Tasks, Nobody, Stored,
          ActiveRuns
  <1>5. ASSUME BootDefaults PROVE Stored'
    BY <1>5, DefaultsEffect, NoneIsNoBlob
      DEF Base, TypeOK, Control, Tasks, Nobody, Stored, ActiveRuns
  <1>6. ASSUME Restart PROVE Stored'
    BY <1>6, NoneIsNoBlob
      DEF Restart, Restarted, history, Base, TypeOK, Control, Tasks, Nobody, Stored,
          ActiveRuns
  <1>7. ASSUME FactoryReset PROVE Stored'
    BY <1>7, NoneIsNoBlob
      DEF FactoryReset, Restarted, Erased, Base, TypeOK, Control, Tasks, Nobody, Stored,
          ActiveRuns
  <1>8. ASSUME NEW data \in Data, WebPatch(data) PROVE Stored'
    BY <1>8, NoneIsNoBlob
      DEF WebPatch, NewPassword, PasswordRead, Goto, May, history, Base, TypeOK, Control,
          Tasks, Nobody, Stored, ActiveRuns
  <1>9. ASSUME WebSave PROVE Stored'
    BY <1>9, NoneIsNoBlob
      DEF WebSave, SavePending, SaveFails, Goto, May, history, Base, TypeOK, Control, Tasks,
          Nobody, Stored, ActiveRuns
  <1>10. ASSUME NEW data \in Data, Edit(data) PROVE Stored'
    BY <1>10, NoneIsNoBlob
      DEF Edit, SerialIdle, NewPassword, history, May, Base, TypeOK, Control, Tasks, Nobody,
          Stored, ActiveRuns
  <1>11. ASSUME Save PROVE Stored'
    BY <1>11, NoneIsNoBlob
      DEF Save, SerialIdle, SavePending, SaveFails, Goto, May, history, Base, TypeOK,
          Control, Tasks, Nobody, Stored, ActiveRuns
  <1>12. ASSUME Discard PROVE Stored'
    BY <1>12, NoneIsNoBlob
      DEF Discard, SerialIdle, history, Base, TypeOK, Control, Tasks, Nobody, Stored,
          ActiveRuns
  <1>13. ASSUME ResetActive PROVE Stored'
    BY <1>13, ResetActiveEffect, NoneIsNoBlob
      DEF ResetActive, SerialIdle, history, Base, TypeOK, Control, Tasks, Nobody, Stored,
          ActiveRuns
  <1>14. ASSUME ResetPending PROVE Stored'
    BY <1>14, ResetPendingEffect, NoneIsNoBlob
      DEF ResetPending, history, Base, TypeOK, Control, Tasks, Nobody, Stored, ActiveRuns
  <1>15. ASSUME Install PROVE Stored'
    BY <1>15, InstallEffect, NoneIsNoBlob
      DEF Install, Goto, Base, TypeOK, Control, Tasks, Nobody, Stored, ActiveRuns
  <1>16. ASSUME HealthCheck PROVE Stored'
    BY <1>16, NoneIsNoBlob
      DEF HealthCheck, Goto, Base, TypeOK, Control, Tasks, Nobody, Stored, ActiveRuns
  <1>17. ASSUME MarkActive PROVE Stored'
    BY <1>17, NoneIsNoBlob
      DEF MarkActive, MarkDone, MarkGoes, Goto, May, history, Base, TypeOK, Control, Tasks,
          Nobody, Stored, ActiveRuns
  <1>18. ASSUME ErasePending PROVE Stored'
    BY <1>18, NoneIsNoBlob
      DEF ErasePending, MarkGoes, Write, Goto, May, history, Base, TypeOK, Control, Tasks,
          Nobody, Stored, ActiveRuns
  <1>19. ASSUME EraseBoots PROVE Stored'
    BY <1>19, NoneIsNoBlob
      DEF EraseBoots, MarkDone, Write, Goto, May, history, Base, TypeOK, Control, Tasks,
          Nobody, Stored, ActiveRuns
  <1>20. ASSUME UNCHANGED vars PROVE Stored'
    BY <1>20, NoneIsNoBlob
      DEF vars, volatile, history, Base, TypeOK, Control, Tasks, Nobody, Stored, ActiveRuns
  <1> QED
    BY <1>1, <1>2, <1>3, <1>4, <1>5, <1>6, <1>7, <1>8, <1>9, <1>10,
       <1>11, <1>12, <1>13, <1>14, <1>15, <1>16, <1>17, <1>18, <1>19, <1>20
    DEF Next, Boot, Web, Serial, Health

(* The fallback stays healthy.                                              *)
LEMMA StepHealthy == Base /\ Stored /\ Healthy /\ [Next]_vars => Healthy'
  <1> SUFFICES ASSUME Base /\ Stored /\ Healthy, [Next]_vars PROVE Healthy'
    OBVIOUS
  <1>1. ASSUME BootPending PROVE Healthy'
    BY <1>1, NoneIsNoBlob
      DEF BootPending, OnTrial, Write, Run, May, Base, TypeOK, Control, Tasks, Nobody,
          Stored, ActiveRuns, Healthy, ActiveWasHealthy
  <1>2. ASSUME RollBack PROVE Healthy'
    BY <1>2, NoneIsNoBlob
      DEF RollBack, OnTrial, Write, May, history, Base, TypeOK, Control, Tasks, Nobody,
          Stored, ActiveRuns, Healthy, ActiveWasHealthy
  <1>3. ASSUME ForgetBoots PROVE Healthy'
    BY <1>3, NoneIsNoBlob
      DEF ForgetBoots, Write, May, volatile, history, Base, TypeOK, Control, Tasks, Nobody,
          Stored, ActiveRuns, Healthy, ActiveWasHealthy
  <1>4. ASSUME BootActive PROVE Healthy'
    BY <1>4, NoneIsNoBlob
      DEF BootActive, ReadsActive, Run, Base, TypeOK, Control, Tasks, Nobody, Stored,
          ActiveRuns, Healthy, ActiveWasHealthy
  <1>5. ASSUME BootDefaults PROVE Healthy'
    BY <1>5, DefaultsEffect, NoneIsNoBlob
      DEF Base, TypeOK, Control, Tasks, Nobody, Stored, ActiveRuns, Healthy,
          ActiveWasHealthy
  <1>6. ASSUME Restart PROVE Healthy'
    BY <1>6, NoneIsNoBlob
      DEF Restart, Restarted, history, Base, TypeOK, Control, Tasks, Nobody, Stored,
          ActiveRuns, Healthy, ActiveWasHealthy
  <1>7. ASSUME FactoryReset PROVE Healthy'
    BY <1>7, NoneIsNoBlob
      DEF FactoryReset, Restarted, Erased, Base, TypeOK, Control, Tasks, Nobody, Stored,
          ActiveRuns, Healthy, ActiveWasHealthy
  <1>8. ASSUME NEW data \in Data, WebPatch(data) PROVE Healthy'
    BY <1>8, NoneIsNoBlob
      DEF WebPatch, NewPassword, PasswordRead, Goto, May, history, Base, TypeOK, Control,
          Tasks, Nobody, Stored, ActiveRuns, Healthy, ActiveWasHealthy
  <1>9. ASSUME WebSave PROVE Healthy'
    BY <1>9, NoneIsNoBlob
      DEF WebSave, SavePending, SaveFails, Goto, May, history, Base, TypeOK, Control, Tasks,
          Nobody, Stored, ActiveRuns, Healthy, ActiveWasHealthy
  <1>10. ASSUME NEW data \in Data, Edit(data) PROVE Healthy'
    BY <1>10, NoneIsNoBlob
      DEF Edit, SerialIdle, NewPassword, history, May, Base, TypeOK, Control, Tasks, Nobody,
          Stored, ActiveRuns, Healthy, ActiveWasHealthy
  <1>11. ASSUME Save PROVE Healthy'
    BY <1>11, NoneIsNoBlob
      DEF Save, SerialIdle, SavePending, SaveFails, Goto, May, history, Base, TypeOK,
          Control, Tasks, Nobody, Stored, ActiveRuns, Healthy, ActiveWasHealthy
  <1>12. ASSUME Discard PROVE Healthy'
    BY <1>12, NoneIsNoBlob
      DEF Discard, SerialIdle, history, Base, TypeOK, Control, Tasks, Nobody, Stored,
          ActiveRuns, Healthy, ActiveWasHealthy
  <1>13. ASSUME ResetActive PROVE Healthy'
    BY <1>13, ResetActiveEffect, NoneIsNoBlob
      DEF ResetActive, SerialIdle, history, Base, TypeOK, Control, Tasks, Nobody, Stored,
          ActiveRuns, Healthy, ActiveWasHealthy
  <1>14. ASSUME ResetPending PROVE Healthy'
    BY <1>14, NoneIsNoBlob
      DEF ResetPending, PendingRehashed, Goto, May, history, Base, TypeOK, Control, Tasks,
          Nobody, Stored, ActiveRuns, Healthy, ActiveWasHealthy
  <1>15. ASSUME Install PROVE Healthy'
    BY <1>15, InstallEffect, NoneIsNoBlob
      DEF Install, Goto, Base, TypeOK, Control, Tasks, Nobody, Stored, ActiveRuns, Healthy,
          ActiveWasHealthy
  <1>16. ASSUME HealthCheck PROVE Healthy'
    BY <1>16, NoneIsNoBlob
      DEF HealthCheck, Goto, Base, TypeOK, Control, Tasks, Nobody, Stored, ActiveRuns,
          Healthy, ActiveWasHealthy
  <1>17. ASSUME MarkActive PROVE Healthy'
    BY <1>17, NoneIsNoBlob
      DEF MarkActive, MarkDone, MarkGoes, Goto, May, history, Base, TypeOK, Control, Tasks,
          Nobody, Stored, ActiveRuns, Healthy, ActiveWasHealthy
  <1>18. ASSUME ErasePending PROVE Healthy'
    BY <1>18, NoneIsNoBlob
      DEF ErasePending, MarkGoes, Write, Goto, May, history, Base, TypeOK, Control, Tasks,
          Nobody, Stored, ActiveRuns, Healthy, ActiveWasHealthy
  <1>19. ASSUME EraseBoots PROVE Healthy'
    BY <1>19, NoneIsNoBlob
      DEF EraseBoots, MarkDone, Write, Goto, May, history, Base, TypeOK, Control, Tasks,
          Nobody, Stored, ActiveRuns, Healthy, ActiveWasHealthy
  <1>20. ASSUME UNCHANGED vars PROVE Healthy'
    BY <1>20, NoneIsNoBlob
      DEF vars, volatile, history, Base, TypeOK, Control, Tasks, Nobody, Stored, ActiveRuns,
          Healthy, ActiveWasHealthy
  <1> QED
    BY <1>1, <1>2, <1>3, <1>4, <1>5, <1>6, <1>7, <1>8, <1>9, <1>10,
       <1>11, <1>12, <1>13, <1>14, <1>15, <1>16, <1>17, <1>18, <1>19, <1>20
    DEF Next, Boot, Web, Serial, Health

(* The count keeps up with the trials.                                      *)
LEMMA StepCounted == Base /\ Counted /\ [Next]_vars => Counted'
  <1> SUFFICES ASSUME Base /\ Counted, [Next]_vars PROVE Counted'
    OBVIOUS
  <1>1. ASSUME BootPending PROVE Counted'
    BY <1>1, NoneIsNoBlob
      DEF BootPending, OnTrial, Write, Run, May, Base, TypeOK, Control, Tasks, Nobody,
          Counted, MaxBoots, May
  <1>2. ASSUME RollBack PROVE Counted'
    BY <1>2, NoneIsNoBlob
      DEF RollBack, OnTrial, Write, May, history, Base, TypeOK, Control, Tasks, Nobody,
          Counted, MaxBoots, May
  <1>3. ASSUME ForgetBoots PROVE Counted'
    BY <1>3, NoneIsNoBlob
      DEF ForgetBoots, Write, May, volatile, history, Base, TypeOK, Control, Tasks, Nobody,
          Counted, MaxBoots, May
  <1>4. ASSUME BootActive PROVE Counted'
    BY <1>4, NoneIsNoBlob
      DEF BootActive, ReadsActive, Run, Base, TypeOK, Control, Tasks, Nobody, Counted,
          MaxBoots, May
  <1>5. ASSUME BootDefaults PROVE Counted'
    BY <1>5, NoneIsNoBlob
      DEF BootDefaults, ReadsActive, Run, Base, TypeOK, Control, Tasks, Nobody, Counted,
          MaxBoots, May
  <1>6. ASSUME Restart PROVE Counted'
    BY <1>6, NoneIsNoBlob
      DEF Restart, Restarted, history, Base, TypeOK, Control, Tasks, Nobody, Counted,
          MaxBoots, May
  <1>7. ASSUME FactoryReset PROVE Counted'
    BY <1>7, NoneIsNoBlob
      DEF FactoryReset, Restarted, Erased, Base, TypeOK, Control, Tasks, Nobody, Counted,
          MaxBoots, May
  <1>8. ASSUME NEW data \in Data, WebPatch(data) PROVE Counted'
    BY <1>8, NoneIsNoBlob
      DEF WebPatch, NewPassword, PasswordRead, Goto, May, history, Base, TypeOK, Control,
          Tasks, Nobody, Counted, MaxBoots, May
  <1>9. ASSUME WebSave PROVE Counted'
    BY <1>9, NoneIsNoBlob
      DEF WebSave, SavePending, SaveFails, Goto, May, history, Base, TypeOK, Control, Tasks,
          Nobody, Counted, MaxBoots, May
  <1>10. ASSUME NEW data \in Data, Edit(data) PROVE Counted'
    BY <1>10, NoneIsNoBlob
      DEF Edit, SerialIdle, NewPassword, history, May, Base, TypeOK, Control, Tasks, Nobody,
          Counted, MaxBoots, May
  <1>11. ASSUME Save PROVE Counted'
    BY <1>11, NoneIsNoBlob
      DEF Save, SerialIdle, SavePending, SaveFails, Goto, May, history, Base, TypeOK,
          Control, Tasks, Nobody, Counted, MaxBoots, May
  <1>12. ASSUME Discard PROVE Counted'
    BY <1>12, NoneIsNoBlob
      DEF Discard, SerialIdle, history, Base, TypeOK, Control, Tasks, Nobody, Counted,
          MaxBoots, May
  <1>13. ASSUME ResetActive PROVE Counted'
    BY <1>13, NoneIsNoBlob
      DEF ResetActive, SerialIdle, NewPassword, ActiveRehashed, Rehashed, Goto, May,
          history, Base, TypeOK, Control, Tasks, Nobody, Counted, MaxBoots, May
  <1>14. ASSUME ResetPending PROVE Counted'
    BY <1>14, ResetPendingEffect, NoneIsNoBlob
      DEF ResetPending, history, Base, TypeOK, Control, Tasks, Nobody, Counted, MaxBoots,
          May
  <1>15. ASSUME Install PROVE Counted'
    BY <1>15, NoneIsNoBlob
      DEF Install, EditRehashed, Goto, May, Base, TypeOK, Control, Tasks, Nobody, Counted,
          MaxBoots, May
  <1>16. ASSUME HealthCheck PROVE Counted'
    BY <1>16, NoneIsNoBlob
      DEF HealthCheck, Goto, Base, TypeOK, Control, Tasks, Nobody, Counted, MaxBoots, May
  <1>17. ASSUME MarkActive PROVE Counted'
    BY <1>17, NoneIsNoBlob
      DEF MarkActive, MarkDone, MarkGoes, Goto, May, history, Base, TypeOK, Control, Tasks,
          Nobody, Counted, MaxBoots, May
  <1>18. ASSUME ErasePending PROVE Counted'
    BY <1>18, NoneIsNoBlob
      DEF ErasePending, MarkGoes, Write, Goto, May, history, Base, TypeOK, Control, Tasks,
          Nobody, Counted, MaxBoots, May
  <1>19. ASSUME EraseBoots PROVE Counted'
    BY <1>19, NoneIsNoBlob
      DEF EraseBoots, MarkDone, Write, Goto, May, history, Base, TypeOK, Control, Tasks,
          Nobody, Counted, MaxBoots, May
  <1>20. ASSUME UNCHANGED vars PROVE Counted'
    BY <1>20, NoneIsNoBlob
      DEF vars, volatile, history, Base, TypeOK, Control, Tasks, Nobody, Counted, MaxBoots,
          May
  <1> QED
    BY <1>1, <1>2, <1>3, <1>4, <1>5, <1>6, <1>7, <1>8, <1>9, <1>10,
       <1>11, <1>12, <1>13, <1>14, <1>15, <1>16, <1>17, <1>18, <1>19, <1>20
    DEF Next, Boot, Web, Serial, Health

(* A replaced password comes back from nowhere.                             *)
LEMMA StepRehash == Base /\ Rehash /\ [Next]_vars => Rehash'
  <1> SUFFICES ASSUME Base /\ Rehash, [Next]_vars PROVE Rehash'
    OBVIOUS
  <1>1. ASSUME BootPending PROVE Rehash'
    BY <1>1, NoneIsNoBlob
      DEF BootPending, OnTrial, Write, Run, May, Base, TypeOK, Control, Tasks, Nobody,
          Rehash, AtLeast, May
  <1>2. ASSUME RollBack PROVE Rehash'
    BY <1>2, NoneIsNoBlob
      DEF RollBack, OnTrial, Write, May, history, Base, TypeOK, Control, Tasks, Nobody,
          Rehash, AtLeast, May
  <1>3. ASSUME ForgetBoots PROVE Rehash'
    BY <1>3, NoneIsNoBlob
      DEF ForgetBoots, Write, May, volatile, history, Base, TypeOK, Control, Tasks, Nobody,
          Rehash, AtLeast, May
  <1>4. ASSUME BootActive PROVE Rehash'
    BY <1>4, NoneIsNoBlob
      DEF BootActive, ReadsActive, Run, Base, TypeOK, Control, Tasks, Nobody, Rehash,
          AtLeast, May
  <1>5. ASSUME BootDefaults PROVE Rehash'
    BY <1>5, DefaultsEffect, NoneIsNoBlob
      DEF Base, TypeOK, Control, Tasks, Nobody, Rehash, AtLeast, May
  <1>6. ASSUME Restart PROVE Rehash'
    BY <1>6, NoneIsNoBlob
      DEF Restart, Restarted, history, Base, TypeOK, Control, Tasks, Nobody, Rehash,
          AtLeast, May
  <1>7. ASSUME FactoryReset PROVE Rehash'
    BY <1>7, NoneIsNoBlob
      DEF FactoryReset, Restarted, Erased, Base, TypeOK, Control, Tasks, Nobody, Rehash,
          AtLeast, May
  <1>8. ASSUME NEW data \in Data, WebPatch(data) PROVE Rehash'
    BY <1>8, NoneIsNoBlob
      DEF WebPatch, NewPassword, PasswordRead, Goto, May, history, Base, TypeOK, Control,
          Tasks, Nobody, Rehash, AtLeast, May
  <1>9. ASSUME WebSave PROVE Rehash'
    BY <1>9, NoneIsNoBlob
      DEF WebSave, SavePending, SaveFails, Goto, May, history, Base, TypeOK, Control, Tasks,
          Nobody, Rehash, AtLeast, May
  <1>10. ASSUME NEW data \in Data, Edit(data) PROVE Rehash'
    BY <1>10, EditEffect, NoneIsNoBlob
      DEF Edit, SerialIdle, history, Base, TypeOK, Control, Tasks, Nobody, Rehash, AtLeast,
          May
  <1>11. ASSUME Save PROVE Rehash'
    BY <1>11, NoneIsNoBlob
      DEF Save, SerialIdle, SavePending, SaveFails, Goto, May, history, Base, TypeOK,
          Control, Tasks, Nobody, Rehash, AtLeast, May
  <1>12. ASSUME Discard PROVE Rehash'
    BY <1>12, NoneIsNoBlob
      DEF Discard, SerialIdle, history, Base, TypeOK, Control, Tasks, Nobody, Rehash,
          AtLeast, May
  <1>13. ASSUME ResetActive PROVE Rehash'
    BY <1>13, ResetActiveEffect, NoneIsNoBlob
      DEF ResetActive, SerialIdle, history, Base, TypeOK, Control, Tasks, Nobody, Rehash,
          AtLeast, May
  <1>14. ASSUME ResetPending PROVE Rehash'
    BY <1>14, ResetPendingEffect, NoneIsNoBlob
      DEF ResetPending, history, Base, TypeOK, Control, Tasks, Nobody, Rehash, AtLeast, May
  <1>15. ASSUME Install PROVE Rehash'
    BY <1>15, InstallEffect, NoneIsNoBlob
      DEF Install, Goto, Base, TypeOK, Control, Tasks, Nobody, Rehash, AtLeast, May
  <1>16. ASSUME HealthCheck PROVE Rehash'
    BY <1>16, NoneIsNoBlob
      DEF HealthCheck, Goto, Base, TypeOK, Control, Tasks, Nobody, Rehash, AtLeast, May
  <1>17. ASSUME MarkActive PROVE Rehash'
    BY <1>17, NoneIsNoBlob
      DEF MarkActive, MarkDone, MarkGoes, Goto, May, history, Base, TypeOK, Control, Tasks,
          Nobody, Rehash, AtLeast, May
  <1>18. ASSUME ErasePending PROVE Rehash'
    BY <1>18, NoneIsNoBlob
      DEF ErasePending, MarkGoes, Write, Goto, May, history, Base, TypeOK, Control, Tasks,
          Nobody, Rehash, AtLeast, May
  <1>19. ASSUME EraseBoots PROVE Rehash'
    BY <1>19, NoneIsNoBlob
      DEF EraseBoots, MarkDone, Write, Goto, May, history, Base, TypeOK, Control, Tasks,
          Nobody, Rehash, AtLeast, May
  <1>20. ASSUME UNCHANGED vars PROVE Rehash'
    BY <1>20, NoneIsNoBlob
      DEF vars, volatile, history, Base, TypeOK, Control, Tasks, Nobody, Rehash, AtLeast,
          May
  <1> QED
    BY <1>1, <1>2, <1>3, <1>4, <1>5, <1>6, <1>7, <1>8, <1>9, <1>10,
       <1>11, <1>12, <1>13, <1>14, <1>15, <1>16, <1>17, <1>18, <1>19, <1>20
    DEF Next, Boot, Web, Serial, Health

(* The scenario stays.                                                      *)
LEMMA StepScenario == [Next]_vars => scenario' = scenario
  BY DEF Next, Boot, Web, Serial, Health, BootPending, RollBack, ForgetBoots, BootActive,
         BootDefaults, Run, Restart, Restarted, FactoryReset, WebPatch, WebSave, SavePending,
         SaveFails, Edit, Save, Discard, ResetActive, ResetPending, Install, HealthCheck,
         MarkActive, MarkDone, MarkGoes, ErasePending, EraseBoots, vars

LEMMA PendingData ==
  ASSUME Base, ResetPending, nvs.pending # None
  PROVE  nvs'.pending.data = nvs.pending.data
  <1>1. nvs.pending \in Blob /\ passwords \in Torn .. MaxPassword
    BY Bounds DEF Base, TypeOK
  <1>2. PendingRehashed.data = nvs.pending.data
    BY <1>1, WithPassword DEF PendingRehashed
  <1>3. nvs' = nvs \/ nvs' = [nvs EXCEPT !.pending = PendingRehashed]
    BY DEF ResetPending
  <1>4. QED
    BY <1>2, <1>3 DEF Base, TypeOK

(* A save is not undone before it was tried.                                *)
LEMMA StepStaged == Base /\ Counted /\ Staged /\ [Next]_vars => Staged'
  <1> SUFFICES ASSUME Base /\ Counted /\ Staged, [Next]_vars, Calm' PROVE Untried'
    BY DEF Staged
  <1>a. scenario' = scenario
    BY StepScenario
  <1>b. Untried /\ ~May("resave") /\ ~May("crash") /\ ~May("nvs_fails")
    BY <1>a DEF Calm, Staged, May
  <1>1. ASSUME BootPending PROVE Untried'
    BY <1>1, <1>b, NoneIsNoBlob
      DEF BootPending, OnTrial, Write, Run, Base, TypeOK, Control, Tasks, Nobody,
          Counted, Untried, AcceptedStaysStaged, MaxBoots
  <1>2. ASSUME RollBack PROVE Untried'
    BY <1>2, <1>b, NoneIsNoBlob
      DEF RollBack, OnTrial, Write, history, Base, TypeOK, Control, Tasks, Nobody,
          Counted, Untried, AcceptedStaysStaged, MaxBoots
  <1>3. ASSUME ForgetBoots PROVE Untried'
    BY <1>3, <1>b, NoneIsNoBlob
      DEF ForgetBoots, Write, volatile, history, Base, TypeOK, Control, Tasks,
          Nobody, Counted, Untried, AcceptedStaysStaged, MaxBoots
  <1>4. ASSUME BootActive PROVE Untried'
    BY <1>4, <1>b, NoneIsNoBlob
      DEF BootActive, ReadsActive, Run, Base, TypeOK, Control, Tasks, Nobody,
          Counted, Untried, AcceptedStaysStaged, MaxBoots
  <1>5. ASSUME BootDefaults PROVE Untried'
    BY <1>5, <1>b, NoneIsNoBlob
      DEF BootDefaults, ReadsActive, Run, Base, TypeOK, Control, Tasks, Nobody,
          Counted, Untried, AcceptedStaysStaged, MaxBoots
  <1>6. ASSUME Restart PROVE Untried'
    BY <1>6, <1>b, NoneIsNoBlob
      DEF Restart, Restarted, history, Base, TypeOK, Control, Tasks, Nobody,
          Counted, Untried, AcceptedStaysStaged, MaxBoots
  <1>7. ASSUME FactoryReset PROVE Untried'
    BY <1>7, <1>b, NoneIsNoBlob
      DEF FactoryReset, Restarted, Erased, Base, TypeOK, Control, Tasks, Nobody,
          Counted, Untried, AcceptedStaysStaged, MaxBoots
  <1>8. ASSUME NEW data \in Data, WebPatch(data) PROVE Untried'
    BY <1>8, <1>b, NoneIsNoBlob
      DEF WebPatch, MayEdit, Undecided, NewPassword, Goto, history, Base, TypeOK,
          Control, Tasks, Nobody, Counted, Untried, AcceptedStaysStaged, MaxBoots
  <1>9. ASSUME WebSave PROVE Untried'
    BY <1>9, <1>b, NoneIsNoBlob
      DEF WebSave, SavePending, SaveFails, Goto, history, Base, TypeOK, Control,
          Tasks, Nobody, Counted, Untried, AcceptedStaysStaged, MaxBoots
  <1>10. ASSUME NEW data \in Data, Edit(data) PROVE Untried'
    BY <1>10, <1>b, NoneIsNoBlob
      DEF Edit, SerialIdle, history, Base, TypeOK, Control, Tasks, Nobody,
          Counted, Untried, AcceptedStaysStaged, MaxBoots
  <1>11. ASSUME Save PROVE Untried'
    BY <1>11, <1>b, NoneIsNoBlob
      DEF Save, SerialIdle, MayEdit, Undecided, SavePending, SaveFails, Goto,
          history, Base, TypeOK, Control, Tasks, Nobody, Counted, Untried,
          AcceptedStaysStaged, MaxBoots
  <1>12. ASSUME Discard PROVE Untried'
    BY <1>12, <1>b, NoneIsNoBlob
      DEF Discard, SerialIdle, history, Base, TypeOK, Control, Tasks, Nobody,
          Counted, Untried, AcceptedStaysStaged, MaxBoots
  <1>13. ASSUME ResetActive PROVE Untried'
    BY <1>13, <1>b, NoneIsNoBlob, ResetActiveEffect
      DEF ResetActive, SerialIdle, history, Base, TypeOK, Control, Tasks, Nobody,
          Counted, Untried, AcceptedStaysStaged, MaxBoots
  <1>14. ASSUME ResetPending PROVE Untried'
    BY <1>14, <1>b, NoneIsNoBlob, ResetPendingEffect, PendingData
      DEF ResetPending, history, Base, TypeOK, Control, Tasks, Nobody, Counted,
          Untried, AcceptedStaysStaged, MaxBoots
  <1>15. ASSUME Install PROVE Untried'
    BY <1>15, <1>b, NoneIsNoBlob
      DEF Install, Goto, Base, TypeOK, Control, Tasks, Nobody, Counted, Untried,
          AcceptedStaysStaged, MaxBoots
  <1>16. ASSUME HealthCheck PROVE Untried'
    BY <1>16, <1>b, NoneIsNoBlob
      DEF HealthCheck, Goto, Base, TypeOK, Control, Tasks, Nobody, Counted,
          Untried, AcceptedStaysStaged, MaxBoots
  <1>17. ASSUME MarkActive PROVE Untried'
    BY <1>17, <1>b, NoneIsNoBlob
      DEF MarkActive, MarkDone, MarkGoes, Goto, history, Base, TypeOK, Control,
          Tasks, Nobody, Counted, Untried, AcceptedStaysStaged, MaxBoots
  <1>18. ASSUME ErasePending PROVE Untried'
    BY <1>18, <1>b, NoneIsNoBlob
      DEF ErasePending, MarkGoes, Write, Goto, history, Base, TypeOK, Control,
          Tasks, Nobody, Counted, Untried, AcceptedStaysStaged, MaxBoots
  <1>19. ASSUME EraseBoots PROVE Untried'
    BY <1>19, <1>b, NoneIsNoBlob
      DEF EraseBoots, MarkDone, Write, Goto, history, Base, TypeOK, Control,
          Tasks, Nobody, Counted, Untried, AcceptedStaysStaged, MaxBoots
  <1>20. ASSUME UNCHANGED vars PROVE Untried'
    BY <1>20, <1>b, NoneIsNoBlob
      DEF vars, volatile, history, Base, TypeOK, Control, Tasks, Nobody, Counted,
          Untried, AcceptedStaysStaged, MaxBoots
  <1> QED
    BY <1>1, <1>2, <1>3, <1>4, <1>5, <1>6, <1>7, <1>8, <1>9, <1>10,
       <1>11, <1>12, <1>13, <1>14, <1>15, <1>16, <1>17, <1>18, <1>19, <1>20
    DEF Next, Boot, Web, Serial, Health

-------------------------------------------------------------------------------
IInv == Base /\ Stored /\ Healthy /\ Counted /\ Rehash /\ Staged

LEMMA InitInv == Init => IInv
  <1> SUFFICES ASSUME Init PROVE IInv
    OBVIOUS
  <1>1. TypeOK
    BY Bounds DEF Init, TypeOK, Erased, Tasks, Nobody
  <1>2. Control /\ Stored /\ Healthy /\ Counted
    BY NoneIsNoBlob
      DEF Init, Control, Stored, ActiveRuns, Healthy, ActiveWasHealthy, Counted,
       Erased, Nobody, MaxBoots
  <1>3. Rehash
    BY DEF Init, Rehash, AtLeast, Erased
  <1>4. Staged
    BY DEF Init, Staged, Untried, AcceptedStaysStaged, Erased
  <1>5. QED
    BY <1>1, <1>2, <1>3, <1>4 DEF IInv, Base

LEMMA StepInv == IInv /\ [Next]_vars => IInv'
  BY StepType, StepControl, StepStored, StepHealthy, StepCounted, StepRehash, StepStaged
  DEF IInv, Base

LEMMA Invariant == Spec => []IInv
  BY InitInv, StepInv, PTL DEF Spec

(* Every reachable state is well typed.                                     *)
THEOREM TypeCorrect == Spec => []TypeOK
  <1>1. IInv => TypeOK
    BY DEF IInv, Base
  <1>2. QED
    BY Invariant, <1>1, PTL

(* No crash and no failing write between any two steps of boot, health      *)
(* check and password reset loses the settings the controller runs with.    *)
THEOREM NothingIsLost == Spec => []RunningIsStored
  <1>1. IInv => RunningIsStored
    BY DEF IInv, Stored, ActiveRuns, RunningIsStored
  <1>2. QED
    BY Invariant, <1>1, PTL

(* What a rollback falls back to has passed its health check, or is the     *)
(* default, whichever of the three tasks wrote it.                          *)
THEOREM FallbackWasHealthy == Spec => []ActiveWasHealthy
  <1>1. IInv => ActiveWasHealthy
    BY DEF IInv, Healthy
  <1>2. QED
    BY Invariant, <1>1, PTL

(* Pending settings run in at most two boots while NVS can be written,      *)
(* whenever power fails.                                                    *)
THEOREM TwoTrialsAtMost == Spec => []TrialsAreLimited
  <1>1. IInv => TrialsAreLimited
    BY DEF IInv, Counted, TrialsAreLimited
  <1>2. QED
    BY Invariant, <1>1, PTL

(* With the serial shell alone, a password that was replaced is left        *)
(* nowhere, for any number of resets, crashes and failing writes.           *)
THEOREM OldPasswordsAreGone == Spec => []ResetIsFinal
  <1>1. IInv => ResetIsFinal
    BY DEF IInv, Rehash, AtLeast, ResetIsFinal
  <1>2. QED
    BY Invariant, <1>1, PTL

(* Settings that were accepted stay staged until a boot tries them, as long *)
(* as nobody saves during a trial and neither power nor NVS fails; web      *)
(* handler, shell, health check and password reset may interleave.          *)
THEOREM AcceptedSettingsAreTried == Spec => []AcceptedIsTried
  <1>1. IInv => AcceptedIsTried
    BY DEF IInv, Staged, Calm, Untried, AcceptedIsTried
  <1>2. QED
    BY Invariant, <1>1, PTL

===============================================================================
