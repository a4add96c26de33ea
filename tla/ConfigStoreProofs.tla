-------------------------- MODULE ConfigStoreProofs -------------------------
(***************************************************************************)
(* What configFileMu, the pin and the order of the mutexes give, for any   *)
(* number of handlers of any kinds and any number of restarts: no edit     *)
(* dropped, the tls keys pinned, no lockout (LockInv, Contents); the same  *)
(* certificate after a restart (CertInv); and what is in effect in the     *)
(* end is what the file says (EffectInv, which says of every key who has   *)
(* still to put it in effect).                                             *)
(***************************************************************************)
EXTENDS ConfigStore, TLAPS

\* Who is where holds which mutex, and nobody else does.
LockInv ==
  \A r \in Requests :
    /\ pc[r] \in {"pin", "save"} <=> lock["config"] = r
    /\ pc[r] \in {"read", "mode"} <=> lock["tls"] = r

\* What a handler that holds configFileMu is about to write is still fresh: the
\* keys it does not mean to change are those of the file, but for what a write
\* outside configFileMu took back and for the hash of a PUT.
FreshInv ==
  \A r \in Requests :
    /\ pc[r] = "lock" => kind[r] = "put" /\ edits[r] = Keys \ {"hash"}
    /\ pc[r] \in {"lock", "pin", "save"} /\ kind[r] = "put"
         => text[r]["hash"] = seen[r].hash
    /\ pc[r] \in {"pin", "save"} =>
         \A k \in Keys \ edits[r] :
           text[r][k] = latest[k] \/ k \in crossed \/ (k = "hash" /\ kind[r] = "put")
    /\ pc[r] = "save" => text[r]["tls"] = seen[r].mode


-----------------------------------------------------------------------------
(***************************************************************************)
(* The operators: texts stay texts.                                        *)
(***************************************************************************)
\* The keys of config.toml and the one key the certificate manager owns.
LEMMA KeyFacts ==
  /\ "tls" \notin Keys /\ "tls" \in TextKeys /\ Keys \subseteq TextKeys
  /\ "hash" \in Keys /\ "set" \in Keys /\ "dash" \in LoopKeys
  /\ LoopKeys \subseteq Keys /\ AlertKeys \subseteq Keys
BY DEF Keys, TextKeys, LoopKeys, AlertKeys, AcctKeys

\* Setting the tls keys of a text (setTLSKeys) gives a text.
LEMMA PinnedIsText ==
  ASSUME NEW t \in Texts, NEW m \in Modes
  PROVE  [t EXCEPT !["tls"] = m] \in Texts
BY KeyFacts DEF Texts

\* The text a client sends is a text.
LEMMA BodyIsText ==
  ASSUME TypeOK, NEW r \in Requests, NEW b \in BOOLEAN, NEW m \in Modes
  PROVE  Body(r, b, m) \in Texts
<1>1. file["hash"] \in Values /\ live["set"] \in Values /\ r \in Values
  BY KeyFacts DEF TypeOK, Texts, Values
<1>2. (IF b THEN r ELSE live["set"]) \in Values
  BY <1>1
<1> QED
  BY <1>1, <1>2, KeyFacts DEF Body, Texts, TextKeys

\* An edit in place is EditConfig with keys of its own kind.
LEMMA EditIsEditConfig ==
  ASSUME NEW r \in Requests,
         UpdateAccount(r) \/ Configure(r) \/ SetSensors(r) \/ ApplyPreset(r)
  PROVE  \E k \in StoreKinds, e \in SUBSET Keys : EditConfig(r, k, e)
<1>1. CASE UpdateAccount(r)
  <2>1. PICK e \in {{"hash"}, AcctKeys} : EditConfig(r, "account", e)
    BY <1>1 DEF UpdateAccount
  <2>2. e \in SUBSET Keys
    BY DEF Keys, AcctKeys
  <2> QED
    BY <2>1, <2>2 DEF StoreKinds
<1>2. CASE Configure(r)
  <2>1. PICK e \in SUBSET AlertKeys : EditConfig(r, "alert", e)
    BY <1>2 DEF Configure
  <2>2. e \in SUBSET Keys
    BY KeyFacts
  <2> QED
    BY <2>1, <2>2 DEF StoreKinds
<1>3. CASE SetSensors(r)
  <2>1. EditConfig(r, "dashboard", {"dash"})
    BY <1>3 DEF SetSensors
  <2>2. {"dash"} \in SUBSET Keys
    BY KeyFacts
  <2> QED
    BY <2>1, <2>2 DEF StoreKinds
<1>4. CASE ApplyPreset(r)
  <2>1. PICK b \in BOOLEAN : EditConfig(r, "preset", MergedKeys(b))
    BY <1>4 DEF ApplyPreset
  <2>2. MergedKeys(b) \in SUBSET Keys
    BY DEF MergedKeys, Keys, LoopKeys
  <2> QED
    BY <2>1, <2>2 DEF StoreKinds
<1> QED
  BY <1>1, <1>2, <1>3, <1>4

\* Taking and giving back a mutex.
LEMMA LockOps ==
  ASSUME lock \in [Locks -> Requests \cup {Free}], NEW r \in Requests, NEW ls
  PROVE  /\ Released(r, ls) \in [Locks -> Requests \cup {Free}]
         /\ Takes(r, ls) => lock' \in [Locks -> Requests \cup {Free}]
BY DEF Released, Takes

-----------------------------------------------------------------------------
(***************************************************************************)
(* Type correctness.                                                       *)
(***************************************************************************)
\* Every step keeps the types.
LEMMA TypeStep == TypeOK /\ [Next]_vars => TypeOK'
<1> SUFFICES ASSUME TypeOK, [Next]_vars PROVE TypeOK'
  OBVIOUS
<1> USE KeyFacts, LockOps, KindsAssumption
<1>a. ASSUME NEW r \in Requests, NEW k, NEW e \in SUBSET Keys,
             EditConfig(r, k, e)
      PROVE  TypeOK'
  <2>1. Edited(r, e) \in Texts
    <3>1. file \in Texts
      BY DEF TypeOK
    <3> QED
      BY ONLY <3>1, KeyFacts, r \in Requests, e \in SUBSET Keys DEF Edited, Texts, Values
  <2> QED
    BY <1>a, <2>1 DEF EditConfig, TypeOK, Goto, Steps, certVars, history
<1>b. ASSUME NEW r \in Requests, PutConfig(r) \/ Import(r) PROVE TypeOK'
  <2>1. PICK b \in BOOLEAN, m \in Modes :
          text' = [text EXCEPT ![r] = Body(r, b, m)]
    BY <1>b DEF PutConfig, Import, Receives
  <2>2. text' \in [Requests -> Texts]
    BY <2>1, BodyIsText DEF TypeOK
  <2>3. edits' \in [Requests -> SUBSET Keys]
    BY <1>b DEF PutConfig, Import, Receives, TypeOK
  <2>4. file["hash"] \in Values
    BY DEF TypeOK, Texts
  <2>5. seen' \in [Requests -> [hash : Values, mode : Modes]]
    BY <1>b, <2>4 DEF PutConfig, Import, TypeOK, history
  <2>6. lock' \in [Locks -> Requests \cup {Free}]
    BY <1>b DEF PutConfig, Import, TypeOK
  <2> QED
    BY <1>b, <2>2, <2>3, <2>5, <2>6
    DEF PutConfig, Import, TypeOK, Goto, Steps, certVars, history
<1>c. ASSUME NEW r \in Requests, SaveLocks(r) \/ StoreLocks(r) PROVE TypeOK'
  BY <1>c DEF SaveLocks, StoreLocks, TypeOK, Goto, Steps, certVars, requestVars, history
<1>d. ASSUME NEW r \in Requests, PinConfig(r) PROVE TypeOK'
  <2>1. Pinned(text[r]) \in Texts
    BY PinnedIsText DEF TypeOK, Pinned
  <2> QED
    BY <1>d, <2>1 DEF PinConfig, TypeOK, Goto, Steps, certVars, requestVars
<1>e. ASSUME NEW r \in Requests, Written(r)
      PROVE  /\ file' \in Texts /\ latest' \in [Keys -> Values]
             /\ crossed' \subseteq TextKeys
  BY <1>e DEF Written, TypeOK, Texts
<1>f. ASSUME NEW r \in Requests, Save(r) PROVE TypeOK'
  <2>1. adrift' \subseteq TextKeys
    BY <1>f DEF Save, TypeOK
  <2>2. lock' \in [Locks -> Requests \cup {Free}]
    BY <1>f DEF Save, TypeOK
  <2>3. pc' \in [Requests -> Steps]
    BY <1>f DEF Save, TypeOK, Goto, Steps
  <2> QED
    BY <1>f, <1>e, <2>1, <2>2, <2>3 DEF Save, TypeOK, certVars, requestVars
<1>g. ASSUME NEW r \in Requests, RenameFails(r) PROVE TypeOK'
  BY <1>g, <1>e DEF RenameFails, TypeOK, Goto, Steps, certVars, requestVars
<1>h. ASSUME NEW r \in Requests, Refused(r) PROVE TypeOK'
  BY <1>h DEF Refused, TypeOK, Goto, Steps, certVars, requestVars, history
<1>i. ASSUME NEW r \in Requests, NEW ks, InEffect(r, ks)
      PROVE  live' \in [Keys -> Values]
  BY <1>i DEF InEffect, TypeOK, Texts
<1>j. ASSUME NEW r \in Requests, NEW k, ApplyStore(r, k) PROVE TypeOK'
  <2>1. live' \in [Keys -> Values]
    BY <1>j, <1>i DEF ApplyStore
  <2> QED
    BY <1>j, <2>1
    DEF ApplyStore, TypeOK, Goto, Steps, certVars, requestVars, history
<1>k. ASSUME NEW r \in Requests, SetWatched(r) PROVE TypeOK'
  <2>1. live' \in [Keys -> Values]
    BY <1>k, <1>i DEF SetWatched
  <2>2. text[r]["dash"] \in Values
    BY DEF TypeOK, Texts
  <2>3. pending' \subseteq [LoopKeys -> Values]
    BY <1>k, <2>2 DEF SetWatched, WithWatched, TypeOK
  <2> QED
    BY <1>k, <2>1, <2>3
    DEF SetWatched, TypeOK, Goto, Steps, certVars, requestVars, history
<1>l. ASSUME NEW r \in Requests, Reload(r) PROVE TypeOK'
  <2>1. [k \in LoopKeys |-> text[r][k]] \in [LoopKeys -> Values]
    BY DEF TypeOK, Texts
  <2>2. pending' \subseteq [LoopKeys -> Values] /\ adrift' \subseteq TextKeys
    BY <1>l, <2>1 DEF Reload, TypeOK
  <2> QED
    BY <1>l, <2>2 DEF Reload, TypeOK, Goto, Steps, certVars, requestVars
<1>m. ASSUME NEW r \in Requests, HookAlerts(r) \/ HookSchedule(r) PROVE TypeOK'
  <2>1. live' \in [Keys -> Values]
    BY <1>m, <1>i DEF HookAlerts, HookSchedule
  <2> QED
    BY <1>m, <2>1
    DEF HookAlerts, HookSchedule, TypeOK, Goto, Steps, certVars, requestVars, history
<1>n. ASSUME NEW r \in Requests, ManagerStarts(r) PROVE TypeOK'
  BY <1>n DEF ManagerStarts, TypeOK, Goto, Steps, Values, requestVars, history
<1>o. ASSUME NEW r \in Requests, WriteModeReads(r) PROVE TypeOK'
  <2>1. [file EXCEPT !["tls"] = IF kind[r] = "upload" THEN "file" ELSE "auto"] \in Texts
    BY DEF TypeOK, Texts, Modes
  <2>2. lock' \in [Locks -> Requests \cup {Free}]
    BY <1>o DEF WriteModeReads, TypeOK
  <2> QED
    BY <1>o, <2>1, <2>2
    DEF WriteModeReads, TypeOK, Goto, Steps, certVars, requestVars, history
<1>p. ASSUME NEW r \in Requests, WriteMode(r) PROVE TypeOK'
  <2>1. file' \in Texts /\ mode' \in Modes
    BY <1>p DEF WriteMode, TypeOK, Texts
  <2>2. served' \in Values /\ pair' \in Values
    BY <1>p DEF WriteMode, TypeOK, Values
  <2>3. crossed' \subseteq TextKeys
    BY <1>p DEF WriteMode, TypeOK
  <2> QED
    BY <1>p, <2>1, <2>2, <2>3 DEF WriteMode, TypeOK, Goto, Steps, requestVars
<1>q. ASSUME NEW r \in Requests, WriteModeFails(r) PROVE TypeOK'
  <2>1. pair' \in Values
    BY <1>q DEF WriteModeFails, Rollback, TypeOK
  <2> QED
    BY <1>q, <2>1 DEF WriteModeFails, TypeOK, Goto, Steps, requestVars, history
<1>u. ASSUME NEW r \in Requests, RollbackFails(r) PROVE TypeOK'
  <2>1. pair' \in Values
    BY <1>u DEF RollbackFails, TypeOK, Values
  <2> QED
    BY <1>u, <2>1 DEF RollbackFails, TypeOK, Goto, Steps, requestVars
<1>r. CASE ApplyPending
  <2>1. live' \in [Keys -> Values]
    BY <1>r DEF ApplyPending, TypeOK
  <2> QED
    BY <1>r, <2>1 DEF ApplyPending, TypeOK, certVars, requestVars, history
<1>s. CASE Restart
  <2>1. pair' \in Values
    BY <1>s DEF Restart, PairsOnDisk, TypeOK, Values
  <2>2. mode' \in Modes /\ served' \in Values
    BY <1>s, <2>1 DEF Restart, TypeOK, Texts, Values
  <2>3. live' \in [Keys -> Values] /\ latest' \in [Keys -> Values]
    BY <1>s DEF Restart, TypeOK, Texts
  <2>4. restarts' \in 0..MaxRestarts
    BY <1>s, BoundAssumption DEF Restart, TypeOK
  <2>5. pc' \in [Requests -> Steps] /\ lock' \in [Locks -> Requests \cup {Free}]
    BY <1>s DEF Restart, TypeOK, Steps
  <2>6. pending' = {} /\ crossed' = {} /\ adrift' = {}
    BY <1>s DEF Restart
  <2> QED
    BY <1>s, <2>1, <2>2, <2>3, <2>4, <2>5, <2>6 DEF Restart, TypeOK, requestVars
<1>t. CASE UNCHANGED vars
  BY <1>t DEF vars, TypeOK
<1> QED
  BY <1>a, <1>b, <1>c, <1>d, <1>f, <1>g, <1>h, <1>j, <1>k, <1>l, <1>m, <1>n,
     <1>o, <1>p, <1>q, <1>r, <1>s, <1>t, <1>u, EditIsEditConfig
  DEF Next, Handler, Edit, Write, TakeEffect, Manager, ApplyAccount, ApplyAlerts

\* The types hold throughout.
THEOREM TypeCorrect == Spec => []TypeOK
<1>1. Init => TypeOK
  BY KeyFacts, BoundAssumption
  DEF Init, TypeOK, Start, Texts, Values, Modes, Steps, Locks
<1> QED
  BY <1>1, TypeStep, PTL DEF Spec

-----------------------------------------------------------------------------
(***************************************************************************)
(* The mutexes.  A step of r changes pc[r] alone, and of the mutexes only  *)
(* those r takes or gives back.                                            *)
(***************************************************************************)
\* Every step keeps LockInv.
LEMMA LockStep == TypeOK /\ LockInv /\ [Next]_vars => LockInv'
<1> SUFFICES ASSUME TypeOK, LockInv, [Next]_vars PROVE LockInv'
  OBVIOUS
<1> USE ValuesAssumption
<1>0. /\ pc \in [Requests -> Steps] /\ lock \in [Locks -> Requests \cup {Free}]
      /\ "config" \in Locks /\ "tls" \in Locks /\ "account" \in Locks
      /\ kind \in [Requests -> Kinds]
  BY DEF TypeOK, Locks
<1>a. ASSUME NEW r \in Requests, NEW k, NEW e, EditConfig(r, k, e)
      PROVE  LockInv'
  BY <1>a, <1>0 DEF EditConfig, Takes, Goto, LockInv
<1>b. ASSUME NEW r \in Requests, PutConfig(r) \/ StoreLocks(r) PROVE LockInv'
  BY <1>b, <1>0 DEF PutConfig, StoreLocks, MutexKinds, Takes, Goto, LockInv
<1>c. ASSUME NEW r \in Requests, SaveLocks(r) \/ Import(r) PROVE LockInv'
  BY <1>c, <1>0 DEF SaveLocks, Import, Takes, Goto, LockInv
<1>d. ASSUME NEW r \in Requests, PinConfig(r) PROVE LockInv'
  BY <1>d, <1>0 DEF PinConfig, Goto, LockInv
<1>e. ASSUME NEW r \in Requests, Save(r) PROVE LockInv'
  BY <1>e, <1>0 DEF Save, Released, Goto, LockInv
<1>f. ASSUME NEW r \in Requests, RenameFails(r) \/ Refused(r) PROVE LockInv'
  BY <1>f, <1>0 DEF RenameFails, Refused, Released, Goto, LockInv
<1>g. ASSUME NEW r \in Requests,
             ApplyAccount(r) \/ ApplyAlerts(r) \/ Reload(r) \/ HookAlerts(r) \/ HookSchedule(r)
      PROVE  LockInv'
  BY <1>g, <1>0 DEF ApplyAccount, ApplyAlerts, ApplyStore, Reload, HookAlerts,
    HookSchedule, Goto, LockInv
<1>h. ASSUME NEW r \in Requests, SetWatched(r) PROVE LockInv'
  BY <1>h, <1>0 DEF SetWatched, Released, Goto, LockInv
<1>i. ASSUME NEW r \in Requests, ManagerStarts(r) PROVE LockInv'
  BY <1>i, <1>0 DEF ManagerStarts, Takes, Goto, LockInv
<1>j. ASSUME NEW r \in Requests, WriteModeReads(r) PROVE LockInv'
  BY <1>j, <1>0 DEF WriteModeReads, WriteModeLocks, Goto, LockInv
<1>k. ASSUME NEW r \in Requests, WriteMode(r) \/ WriteModeFails(r) \/ RollbackFails(r)
      PROVE  LockInv'
  BY <1>k, <1>0 DEF WriteMode, WriteModeFails, RollbackFails, Released, Goto, LockInv
<1>l. CASE ApplyPending
  BY <1>l DEF ApplyPending, LockInv
<1>m. CASE Restart
  BY <1>m, <1>0 DEF Restart, LockInv
<1>n. CASE UNCHANGED vars
  BY <1>n DEF vars, LockInv
<1> QED
  BY <1>a, <1>b, <1>c, <1>d, <1>e, <1>f, <1>g, <1>h, <1>i, <1>j, <1>k, <1>l,
     <1>m, <1>n, EditIsEditConfig
  DEF Next, Handler, Edit, Write, TakeEffect, Manager

\* Who holds which mutex follows from where the handlers are.
THEOREM LocksHeld == Spec => []LockInv
<1>1. Init => LockInv
  BY ValuesAssumption DEF Init, LockInv, Locks
<1> QED
  BY <1>1, TypeCorrect, LockStep, PTL DEF Spec

\* NoLockout: of the handlers that have begun one can go on, however many
\* there are (s.mu before configFileMu before m.mu, never the other way round).
THEOREM NeverLockedOut == Spec => []NoLockout
<1>1. TypeOK /\ LockInv => NoLockout
  <2> SUFFICES ASSUME TypeOK, LockInv, NEW r \in Requests, Begun(r) PROVE NoLockout
    BY DEF NoLockout
  <2>1. ASSUME NEW q \in Requests, lock["tls"] = q PROVE NoLockout
    <3>1. pc[q] \in {"read", "mode"}
      BY <2>1 DEF LockInv
    <3> QED
      BY <2>1, <3>1 DEF NoLockout, Begun, WaitsFor, WriteModeLocks
  <2>2. ASSUME NEW q \in Requests, lock["config"] = q, lock["tls"] = Free
        PROVE  NoLockout
    <3>1. pc[q] \in {"pin", "save"}
      BY <2>2 DEF LockInv
    <3> QED
      BY <2>2, <3>1 DEF NoLockout, Begun, WaitsFor
  <2>3. ASSUME lock["config"] = Free, lock["tls"] = Free PROVE NoLockout
    BY <2>3 DEF NoLockout, Begun, WaitsFor, WriteModeLocks
  <2> QED
    BY <2>1, <2>2, <2>3 DEF TypeOK, Locks
<1> QED
  BY <1>1, TypeCorrect, LocksHeld, PTL

-----------------------------------------------------------------------------
(***************************************************************************)
(* The contents.                                                           *)
(***************************************************************************)
Contents == FreshInv /\ NoEditDropped /\ TlsKept

\* A step that writes neither the file nor a text, and brings nobody to a
\* write, changes nothing here.
LEMMA ContentsKept ==
  ASSUME TypeOK, Contents,
         UNCHANGED <<file, mode, kind, edits, text, seen, latest, crossed>>,
         \A q \in Requests : pc'[q] = pc[q] \/ pc'[q] \notin {"lock", "pin", "save"}
  PROVE  Contents'
BY DEF Contents, FreshInv, NoEditDropped, TlsKept

\* A save under configFileMu.
LEMMA WrittenKeeps ==
  ASSUME TypeOK, LockInv, Contents, NEW r \in Requests, pc[r] = "save", Written(r),
         UNCHANGED <<mode, kind, edits, text, seen>>,
         NEW step \in {"apply", "reload", "done"}, Goto(r, step)
  PROVE  Contents'
<1>1. \A q \in Requests : q # r => pc[q] \notin {"pin", "save"} /\ pc'[q] = pc[q]
  BY DEF LockInv, Goto, TypeOK
<1>2. pc'[r] \notin {"lock", "pin", "save"}
  BY DEF Goto, TypeOK
<1>3. FreshInv'
  <2> SUFFICES ASSUME NEW q \in Requests, pc'[q] = "lock"
               PROVE  /\ kind[q] = "put" /\ edits[q] = Keys \ {"hash"}
                      /\ text[q]["hash"] = seen[q].hash
    BY <1>1, <1>2 DEF FreshInv
  <2> QED
    BY <1>1, <1>2 DEF Contents, FreshInv
<1>4. NoEditDropped'
  <2> SUFFICES ASSUME NEW k \in Keys
               PROVE  text[r][k] = latest'[k] \/ k \in crossed'
    BY DEF NoEditDropped, Written
  <2>1. k # "tls"
    BY KeyFacts
  <2>2. CASE k \in edits[r]
    BY <2>2 DEF Written
  <2>3. CASE k \notin edits[r] /\ ~(k = "hash" /\ kind[r] = "put")
    BY <2>1, <2>3 DEF Contents, FreshInv, Written
  <2>4. CASE k \notin edits[r] /\ k = "hash" /\ kind[r] = "put"
    BY <2>1, <2>4 DEF Contents, FreshInv, NoEditDropped, Written
  <2> QED
    BY <2>2, <2>3, <2>4
<1>5. TlsKept'
  BY DEF Contents, FreshInv, TlsKept, Written
<1> QED
  BY <1>3, <1>4, <1>5 DEF Contents

\* Every step keeps the contents.
LEMMA ContentsStep == TypeOK /\ LockInv /\ Contents /\ [Next]_vars => Contents'
<1> SUFFICES ASSUME TypeOK, LockInv, Contents, [Next]_vars PROVE Contents'
  OBVIOUS
<1> USE KeyFacts
<1>0. /\ pc \in [Requests -> Steps] /\ kind \in [Requests -> Kinds]
      /\ edits \in [Requests -> SUBSET Keys] /\ text \in [Requests -> Texts]
      /\ seen \in [Requests -> [hash : Values, mode : Modes]]
  BY DEF TypeOK
<1>a. ASSUME NEW r \in Requests, NEW k \in StoreKinds, 
             NEW e \in SUBSET Keys, EditConfig(r, k, e)
      PROVE  Contents'
  <2>1. edits'[r] = e /\ text'[r] = Edited(r, e) /\ pc'[r] = "pin" /\ kind[r] # "put"
    BY <1>a, <1>0 DEF EditConfig, Goto, StoreKinds
  <2>2. \A j \in Keys \ e : Edited(r, e)[j] = latest[j] \/ j \in crossed
    BY DEF Edited, Contents, NoEditDropped
  <2>3. \A q \in Requests : q # r =>
          pc'[q] = pc[q] /\ edits'[q] = edits[q] /\ text'[q] = text[q]
    BY <1>a, <1>0 DEF EditConfig, Goto
  <2>4. UNCHANGED <<file, mode, kind, seen, latest, crossed>>
    BY <1>a DEF EditConfig, certVars, history
  <2> QED
    BY <2>1, <2>2, <2>3, <2>4 DEF Contents, FreshInv, NoEditDropped, TlsKept
<1>b. ASSUME NEW r \in Requests, PutConfig(r) \/ Import(r) PROVE Contents'
  <2>1. PICK b \in BOOLEAN, m \in Modes : text' = [text EXCEPT ![r] = Body(r, b, m)]
    BY <1>b DEF PutConfig, Import, Receives
  <2>2. text'[r]["hash"] = file["hash"]
    BY <2>1, <1>0 DEF Body
  <2>3. edits'[r] = Keys \ {"hash"}
    BY <1>b, <1>0 DEF PutConfig, Import, Receives
  <2>4. kind[r] = "put" => pc'[r] = "lock" /\ seen'[r].hash = file["hash"]
    BY <1>b, <1>0 DEF PutConfig, Import, Goto
  <2>5. kind[r] # "put" => pc'[r] = "pin"
    BY <1>b, <1>0 DEF PutConfig, Import, Goto
  <2>6. \A q \in Requests : q # r =>
          pc'[q] = pc[q] /\ edits'[q] = edits[q] /\ text'[q] = text[q] /\ seen'[q] = seen[q]
    BY <1>b, <2>1, <1>0 DEF PutConfig, Import, Receives, Goto, history
  <2>7. UNCHANGED <<file, mode, kind, latest, crossed>>
    BY <1>b DEF PutConfig, Import, certVars, history
  <2> QED
    BY <2>2, <2>3, <2>4, <2>5, <2>6, <2>7
    DEF Contents, FreshInv, NoEditDropped, TlsKept
<1>c. ASSUME NEW r \in Requests, SaveLocks(r) PROVE Contents'
  BY <1>c, <1>0
  DEF SaveLocks, Goto, certVars, requestVars, history, Contents, FreshInv,
      NoEditDropped, TlsKept
<1>d. ASSUME NEW r \in Requests, PinConfig(r) PROVE Contents'
  <2>1. /\ \A k \in Keys : text'[r][k] = text[r][k]
        /\ text'[r]["tls"] = mode
    BY <1>d, <1>0 DEF PinConfig, Pinned, Texts
  <2>2. seen'[r].mode = mode /\ seen'[r].hash = seen[r].hash /\ pc'[r] = "save"
    BY <1>d, <1>0 DEF PinConfig, Goto
  <2>3. \A q \in Requests : q # r =>
          pc'[q] = pc[q] /\ text'[q] = text[q] /\ seen'[q] = seen[q]
    BY <1>d, <1>0 DEF PinConfig, Goto
  <2>4. UNCHANGED <<file, mode, kind, edits, latest, crossed>> /\ pc[r] = "pin"
    BY <1>d DEF PinConfig, certVars, requestVars
  <2> QED
    BY <2>1, <2>2, <2>3, <2>4 DEF Contents, FreshInv, NoEditDropped, TlsKept
<1>e. ASSUME NEW r \in Requests, Save(r) PROVE Contents'
  BY <1>e, WrittenKeeps DEF Save, certVars, requestVars
<1>f. ASSUME NEW r \in Requests, RenameFails(r) PROVE Contents'
  BY <1>f, WrittenKeeps DEF RenameFails, certVars, requestVars
<1>g. ASSUME NEW r \in Requests, Refused(r) \/ StoreLocks(r) PROVE Contents'
  BY <1>g, <1>0, ContentsKept DEF Refused, StoreLocks, Goto, certVars, requestVars, history
<1>h. ASSUME NEW r \in Requests, TakeEffect(r) PROVE Contents'
  BY <1>h, <1>0, ContentsKept
  DEF TakeEffect, ApplyAccount, ApplyAlerts, ApplyStore, SetWatched, Reload, HookAlerts,
      HookSchedule, Goto,
      certVars, requestVars, history
<1>i. ASSUME NEW r \in Requests,
             ManagerStarts(r) \/ WriteModeFails(r) \/ RollbackFails(r)
      PROVE  Contents'
  BY <1>i, <1>0, ContentsKept
  DEF ManagerStarts, WriteModeFails, RollbackFails, Goto, requestVars, history
<1>j. ASSUME NEW r \in Requests, WriteModeReads(r) PROVE Contents'
  <2>1. pc'[r] = "mode"
    BY <1>j, <1>0 DEF WriteModeReads, Goto
  <2>2. \A q \in Requests : q # r => pc'[q] = pc[q] /\ text'[q] = text[q]
    BY <1>j, <1>0 DEF WriteModeReads, Goto
  <2>3. UNCHANGED <<file, mode, kind, edits, seen, latest, crossed>>
    BY <1>j DEF WriteModeReads, certVars, requestVars, history
  <2> QED
    BY <2>1, <2>2, <2>3 DEF Contents, FreshInv, NoEditDropped, TlsKept
<1>k. ASSUME NEW r \in Requests, WriteMode(r) PROVE Contents'
  <2>1. UNCHANGED <<kind, edits, text, seen, latest>>
    BY <1>k DEF WriteMode, requestVars
  <2>2. \A q \in Requests : pc'[q] = pc[q] \/ pc'[q] = "done"
    BY <1>k, <1>0 DEF WriteMode, Goto
  <2>3. \A k \in Keys : k \in crossed => k \in crossed'
    BY <1>k DEF WriteMode
  <2>4. FreshInv'
    BY <2>1, <2>2, <2>3 DEF Contents, FreshInv
  <2>5. NoEditDropped'
    BY <1>k, <2>1, <2>3 DEF WriteMode, Contents, NoEditDropped
  <2>6. TlsKept'
    BY <1>k DEF WriteMode, TlsKept
  <2> QED
    BY <2>4, <2>5, <2>6 DEF Contents
<1>l. CASE ApplyPending
  BY <1>l, ContentsKept DEF ApplyPending, certVars, requestVars, history
<1>m. CASE Restart
  <2>1. \A q \in Requests : pc'[q] \in {"idle", "done"}
    BY <1>m, <1>0 DEF Restart
  <2> QED
    BY <1>m, <2>1 DEF Restart, Contents, FreshInv, NoEditDropped, TlsKept
<1>n. CASE UNCHANGED vars
  BY <1>n, ContentsKept DEF vars
<1> QED
  BY <1>a, <1>b, <1>c, <1>d, <1>e, <1>f, <1>g, <1>h, <1>i, <1>j, <1>k, <1>l,
     <1>m, <1>n, EditIsEditConfig
  DEF Next, Handler, Edit, Write, Manager

\* Contents hold throughout.
LEMMA ContentsHold == Spec => []Contents
<1>1. Init => Contents
  BY KeyFacts DEF Init, Start, Contents, FreshInv, NoEditDropped, TlsKept
<1> QED
  BY <1>1, TypeCorrect, LocksHeld, ContentsStep, PTL DEF Spec

\* NoEditDropped: for any number of handlers, no rewrite of config.toml under
\* configFileMu drops a change, and nothing but writeMode and the hash of a PUT
\* takes one back.
THEOREM EditsKept == Spec => []NoEditDropped
BY ContentsHold, PTL DEF Contents

\* TlsKept: for any number of handlers the pin holds the tls keys, but for a
\* mode that changes between pin and save.
THEOREM TlsKeysKept == Spec => []TlsKept
BY ContentsHold, PTL DEF Contents

-----------------------------------------------------------------------------
\* Which kind of handler is where, and what writeMode is about to write.
KindInv ==
  \A r \in Requests :
    /\ pc[r] \in {"read", "mode"} => kind[r] \in TlsKinds
    /\ pc[r] \in {"lock", "pin", "save"} => kind[r] \in StoreKinds \cup BodyKinds
    /\ pc[r] = "apply" => kind[r] \in {"account", "alert", "dashboard"}
    /\ pc[r] \in {"reload", "alerts", "schedule"} => kind[r] \in ReloadKinds
    /\ pc[r] = "mode" => text[r]["tls"] = IF kind[r] = "upload" THEN "file" ELSE "auto"

\* A step of r that keeps the kinds and, unless it brings r to "mode", the text.
LEMMA KindKept ==
  ASSUME TypeOK, KindInv, NEW r \in Requests, NEW step \in Steps, Goto(r, step),
         kind' = kind,
         \A q \in Requests : q # r => text'[q] = text[q],
         step \in {"read", "mode"} => kind[r] \in TlsKinds,
         step \in {"lock", "pin", "save"} => kind[r] \in StoreKinds \cup BodyKinds,
         step = "apply" => kind[r] \in {"account", "alert", "dashboard"},
         step \in {"reload", "alerts", "schedule"} => kind[r] \in ReloadKinds,
         step = "mode" => text'[r]["tls"] = IF kind[r] = "upload" THEN "file" ELSE "auto"
  PROVE  KindInv'
<1>1. pc'[r] = step /\ \A q \in Requests : q # r => pc'[q] = pc[q]
  BY DEF Goto, TypeOK
<1>2. ASSUME NEW q \in Requests, q # r
      PROVE  /\ pc'[q] \in {"read", "mode"} => kind'[q] \in TlsKinds
             /\ pc'[q] \in {"lock", "pin", "save"} => kind'[q] \in StoreKinds \cup BodyKinds
             /\ pc'[q] = "apply" => kind'[q] \in {"account", "alert", "dashboard"}
             /\ pc'[q] \in {"reload", "alerts", "schedule"} => kind'[q] \in ReloadKinds
             /\ pc'[q] = "mode"
                 => text'[q]["tls"] = IF kind'[q] = "upload" THEN "file" ELSE "auto"
  BY <1>1, <1>2 DEF KindInv
<1> QED
  BY <1>1, <1>2 DEF KindInv

\* Every step keeps the kinds at their steps.
LEMMA KindStep == TypeOK /\ KindInv /\ [Next]_vars => KindInv'
<1> SUFFICES ASSUME TypeOK, KindInv, [Next]_vars PROVE KindInv'
  OBVIOUS
<1>0. /\ text \in [Requests -> Texts] /\ kind \in [Requests -> Kinds]
      /\ pc \in [Requests -> Steps]
  BY DEF TypeOK
<1>a. ASSUME NEW r \in Requests, NEW k \in StoreKinds, NEW e,
             EditConfig(r, k, e)
      PROVE  KindInv'
  BY <1>a, <1>0, KindKept DEF EditConfig, Steps
<1>b. ASSUME NEW r \in Requests, PutConfig(r) \/ Import(r) PROVE KindInv'
  BY <1>b, <1>0, KindKept DEF PutConfig, Import, Receives, Steps, BodyKinds
<1>c. ASSUME NEW r \in Requests, SaveLocks(r) PROVE KindInv'
  <2>1. /\ kind[r] \in StoreKinds \cup BodyKinds /\ Goto(r, "pin") /\ kind' = kind
        /\ text' = text
    BY <1>c DEF SaveLocks, KindInv, requestVars
  <2> QED
    BY <2>1, KindKept DEF Steps
<1>d. ASSUME NEW r \in Requests, PinConfig(r) PROVE KindInv'
  <2>1. /\ kind[r] \in StoreKinds \cup BodyKinds /\ Goto(r, "save") /\ kind' = kind
        /\ \A q \in Requests : q # r => text'[q] = text[q]
    BY <1>d, <1>0 DEF PinConfig, KindInv, requestVars
  <2> QED
    BY <2>1, KindKept DEF Steps
<1>e. ASSUME NEW r \in Requests, Save(r) PROVE KindInv'
  <2>1. /\ kind[r] \in StoreKinds \cup BodyKinds /\ kind' = kind /\ text' = text
        /\ Goto(r, IF kind[r] \in ReloadKinds THEN "reload" ELSE "apply")
    BY <1>e DEF Save, KindInv, requestVars
  <2>2. CASE kind[r] \in ReloadKinds
    BY <2>1, <2>2, KindKept DEF Steps
  <2>3. CASE kind[r] \notin ReloadKinds
    <3>1. kind[r] \in {"account", "alert", "dashboard"}
      BY <2>1, <2>3 DEF StoreKinds, BodyKinds, ReloadKinds
    <3> QED
      BY <2>1, <2>3, <3>1, KindKept DEF Steps
  <2> QED
    BY <2>2, <2>3
<1>f. ASSUME NEW r \in Requests, Goto(r, "done"), kind' = kind, text' = text PROVE KindInv'
  BY <1>f, KindKept DEF Steps
<1>g. ASSUME NEW r \in Requests, Reload(r) \/ HookAlerts(r) PROVE KindInv'
  <2>1. /\ kind[r] \in ReloadKinds /\ kind' = kind /\ text' = text
        /\ Goto(r, "alerts") \/ Goto(r, "schedule")
    BY <1>g DEF Reload, HookAlerts, KindInv, requestVars
  <2> QED
    BY <2>1, KindKept DEF Steps
<1>h. ASSUME NEW r \in Requests, ManagerStarts(r) \/ StoreLocks(r) PROVE KindInv'
  BY <1>h, KindKept DEF ManagerStarts, StoreLocks, requestVars, Steps
<1>i. ASSUME NEW r \in Requests, WriteModeReads(r) PROVE KindInv'
  <2>1. /\ kind[r] \in TlsKinds /\ kind' = kind /\ Goto(r, "mode")
        /\ \A q \in Requests : q # r => text'[q] = text[q]
    BY <1>i, <1>0 DEF WriteModeReads, KindInv, requestVars
  <2>2. text'[r]["tls"] = IF kind[r] = "upload" THEN "file" ELSE "auto"
    BY <1>i, <1>0, KeyFacts DEF WriteModeReads, TypeOK, Texts
  <2> QED
    BY <2>1, <2>2, KindKept DEF Steps
<1>j. CASE Restart
  <2>1. \A q \in Requests : pc'[q] \in {"idle", "done"}
    BY <1>j, <1>0 DEF Restart
  <2> QED
    BY <2>1 DEF KindInv
<1>k. CASE ApplyPending \/ UNCHANGED vars
  BY <1>k DEF ApplyPending, KindInv, vars, requestVars
<1>l. ASSUME NEW r \in Requests,
             \/ RenameFails(r) \/ Refused(r) \/ ApplyAccount(r) \/ ApplyAlerts(r)
             \/ SetWatched(r) \/ HookSchedule(r)
             \/ WriteMode(r) \/ WriteModeFails(r) \/ RollbackFails(r)
      PROVE  KindInv'
  BY <1>l, <1>f DEF RenameFails, Refused, ApplyAccount, ApplyAlerts, ApplyStore, SetWatched,
    HookSchedule, WriteMode, WriteModeFails, RollbackFails, requestVars
<1> QED
  BY <1>a, <1>b, <1>c, <1>d, <1>e, <1>g, <1>h, <1>i, <1>j, <1>k, <1>l, EditIsEditConfig
  DEF Next, Handler, Edit, Write, TakeEffect, Manager

-----------------------------------------------------------------------------
\* The uploads between the pair on disk and the mode in the file.
Uploading == {r \in Requests : pc[r] \in {"read", "mode"} /\ kind[r] = "upload"}

\* An upload under way has its own pair on disk and can still roll back to the
\* previous one; otherwise what is served is what a restart would load.
CertInv ==
  /\ \A r \in Uploading : pair = r
  /\ "tls" \in adrift \/
       served = IF mode = "file" THEN (IF Uploading = {} THEN pair ELSE prevPair) ELSE Old

\* A step that has no part in the certificate.
LEMMA CertKept ==
  ASSUME CertInv, UNCHANGED certVars, kind' = kind, "tls" \in adrift => "tls" \in adrift',
         \A q \in Requests : pc'[q] \in {"read", "mode"} <=> pc[q] \in {"read", "mode"}
  PROVE  CertInv'
<1>1. Uploading' = Uploading
  BY DEF Uploading
<1> QED
  BY <1>1 DEF CertInv, certVars

\* What each kind puts in effect.
LEMMA AppliesAre ==
  /\ Applies["account"] = AcctKeys /\ Applies["alert"] = AlertKeys
  /\ Applies["dashboard"] = {"dash"} /\ Applies["preset"] = ReloadKeys
  /\ Applies["put"] = ReloadKeys /\ Applies["import"] = ReloadKeys
  /\ \A k \in StoreKinds \cup BodyKinds : Applies[k] \subseteq Keys
BY DEF Applies, StoreKinds, BodyKinds, Keys, LoopKeys, AlertKeys, AcctKeys, ReloadKeys

\* Every step keeps the certificate: an upload, its rollback, a reset, a restart
\* and every other writer of the file.
LEMMA CertStep == TypeOK /\ LockInv /\ KindInv /\ CertInv /\ [Next]_vars => CertInv'
<1> SUFFICES ASSUME TypeOK, LockInv, KindInv, CertInv, [Next]_vars PROVE CertInv'
  OBVIOUS
<1>0. pc \in [Requests -> Steps] /\ kind \in [Requests -> Kinds]
  BY DEF TypeOK
<1>a. ASSUME NEW r \in Requests, NEW step, Goto(r, step), step \notin {"read", "mode"},
             pc[r] \notin {"read", "mode"}, UNCHANGED certVars, kind' = kind,
             "tls" \in adrift => "tls" \in adrift'
      PROVE  CertInv'
  <2>1. \A q \in Requests : pc'[q] \in {"read", "mode"} <=> pc[q] \in {"read", "mode"}
    BY <1>a, <1>0 DEF Goto
  <2> QED
    BY <1>a, <2>1, CertKept
<1>b. ASSUME NEW r \in Requests, NEW k, NEW e,
             EditConfig(r, k, e)
      PROVE  CertInv'
  BY <1>b, <1>a DEF EditConfig, history
<1>c. ASSUME NEW r \in Requests,
             \/ PutConfig(r) \/ SaveLocks(r) \/ Import(r) \/ PinConfig(r) \/ Refused(r)
             \/ RenameFails(r) \/ StoreLocks(r)
      PROVE  CertInv'
  BY <1>c, <1>a DEF PutConfig, SaveLocks, StoreLocks, Import, PinConfig, Refused, RenameFails, history,
    requestVars
<1>d. ASSUME NEW r \in Requests, Save(r) PROVE CertInv'
  <2>1. "tls" \notin Applies[kind[r]]
    BY <1>d, AppliesAre, KeyFacts DEF KindInv, Save
  <2>2. "tls" \in adrift => "tls" \in adrift'
    BY <1>d, <2>1 DEF Save
  <2>3. /\ Goto(r, "reload") \/ Goto(r, "apply")
        /\ pc[r] = "save" /\ UNCHANGED certVars /\ kind' = kind
    BY <1>d DEF Save, requestVars
  <2> QED
    BY <2>2, <2>3, <1>a
<1>e. ASSUME NEW r \in Requests, TakeEffect(r) PROVE CertInv'
  <2>1. /\ \E step \in {"done", "alerts", "schedule"} : Goto(r, step)
        /\ pc[r] \in {"apply", "reload", "alerts", "schedule"}
        /\ UNCHANGED certVars /\ kind' = kind
        /\ "tls" \in adrift => "tls" \in adrift'
    BY <1>e DEF TakeEffect, ApplyAccount, ApplyAlerts, ApplyStore, SetWatched, Reload,
      HookAlerts, HookSchedule, requestVars, history
  <2> QED
    BY <2>1, <1>a
<1>f. ASSUME NEW r \in Requests, ManagerStarts(r) PROVE CertInv'
  <2>1. \A q \in Requests : pc[q] \notin {"read", "mode"}
    BY <1>f, ValuesAssumption DEF ManagerStarts, Takes, LockInv
  <2>2. /\ pc'[r] = "read" /\ \A q \in Requests : q # r => pc'[q] = pc[q]
    BY <1>f, <1>0 DEF ManagerStarts, Goto
  <2>3. /\ UNCHANGED <<mode, served, adrift, kind>> /\ prevPair' = pair
        /\ pair' = IF kind[r] = "upload" THEN r ELSE pair
    BY <1>f DEF ManagerStarts, requestVars, history
  <2>4. Uploading = {} /\ Uploading' = IF kind[r] = "upload" THEN {r} ELSE {}
    BY <2>1, <2>2, <2>3 DEF Uploading
  <2> QED
    BY <2>3, <2>4 DEF CertInv
<1>g. ASSUME NEW r \in Requests, WriteModeReads(r) PROVE CertInv'
  <2>1. \A q \in Requests : pc'[q] \in {"read", "mode"} <=> pc[q] \in {"read", "mode"}
    BY <1>g, <1>0 DEF WriteModeReads, Goto
  <2> QED
    BY <1>g, <2>1, CertKept DEF WriteModeReads, requestVars, history
<1>h. ASSUME NEW r \in Requests, pc[r] \in {"read", "mode"}, Goto(r, "done"), kind' = kind
      PROVE  /\ Uploading' = {}
             /\ Uploading = IF kind[r] = "upload" THEN {r} ELSE {}
  <2>1. \A q \in Requests : q # r => pc[q] \notin {"read", "mode"} /\ pc'[q] = pc[q]
    BY <1>h, <1>0 DEF Goto, LockInv
  <2>2. pc'[r] = "done"
    BY <1>h, <1>0 DEF Goto
  <2> QED
    BY <1>h, <2>1, <2>2 DEF Uploading
<1>i. ASSUME NEW r \in Requests, WriteMode(r) PROVE CertInv'
  <2>1. /\ Uploading' = {} /\ Uploading = IF kind[r] = "upload" THEN {r} ELSE {}
    BY <1>i, <1>h DEF WriteMode, requestVars
  <2>2. text[r]["tls"] = IF kind[r] = "upload" THEN "file" ELSE "auto"
    BY <1>i DEF WriteMode, KindInv
  <2>3. kind[r] = "upload" => pair = r
    BY <2>1 DEF CertInv
  <2> QED
    BY <1>i, <2>1, <2>2, <2>3 DEF WriteMode, CertInv
<1>j. ASSUME NEW r \in Requests, WriteModeFails(r) PROVE CertInv'
  <2>1. /\ Uploading' = {} /\ Uploading = IF kind[r] = "upload" THEN {r} ELSE {}
    BY <1>j, <1>h DEF WriteModeFails, requestVars
  <2>2. /\ UNCHANGED <<mode, served, adrift>>
        /\ pair' = IF kind[r] = "upload" THEN prevPair ELSE pair
    BY <1>j DEF WriteModeFails, Rollback, history
  <2> QED
    BY <2>1, <2>2 DEF CertInv
<1>k. ASSUME NEW r \in Requests, RollbackFails(r) PROVE CertInv'
  <2>1. Uploading' = {}
    BY <1>k, <1>h DEF RollbackFails, requestVars
  <2> QED
    BY <1>k, <2>1 DEF RollbackFails, CertInv
<1>l. CASE ApplyPending \/ UNCHANGED vars
  BY <1>l, CertKept DEF ApplyPending, vars, certVars, requestVars, history
<1>m. CASE Restart
  <2>1. \A q \in Requests : pc'[q] \in {"idle", "done"}
    BY <1>m, <1>0 DEF Restart
  <2>2. Uploading' = {}
    BY <2>1 DEF Uploading
  <2> QED
    BY <1>m, <2>2 DEF Restart, CertInv
<1> QED
  BY <1>b, <1>c, <1>d, <1>e, <1>f, <1>g, <1>i, <1>j, <1>k, <1>l, <1>m, EditIsEditConfig
  DEF Next, Handler, Edit, Write, Manager

\* The kinds of the handlers are at their steps throughout: no handler reaches a
\* step of another kind, and writeMode writes the mode of its own operation.
THEOREM KindsHold == Spec => []KindInv
<1>1. Init => KindInv
  BY DEF Init, KindInv
<1> QED
  BY <1>1, TypeCorrect, KindStep, PTL DEF Spec

\* CertificateSurvives: for any number of handlers in any order, a restart outside
\* an upload comes up with the certificate that was served (Upload, ResetAuto).
THEOREM CertificateKept == Spec => CertificateSurvives
<1>1. Init => CertInv
  BY DEF Init, CertInv, Uploading
<1>2. Spec => []CertInv
  BY <1>1, TypeCorrect, LocksHeld, KindsHold, CertStep, PTL DEF Spec
<1>3. TypeOK /\ TlsKept /\ CertInv /\ [Next]_vars =>
        [restarts' # restarts /\ "tls" \notin crossed \cup adrift
           /\ (\A r \in Requests : pc[r] \notin {"read", "mode"})
         => served' = served]_vars
  <2> SUFFICES ASSUME TypeOK, TlsKept, CertInv, [Next]_vars, restarts' # restarts,
                      "tls" \notin crossed \cup adrift,
                      \A r \in Requests : pc[r] \notin {"read", "mode"}
               PROVE  served' = served
    OBVIOUS
  <2>1. Restart
    BY DEF Next, vars, Handler, Edit, Write, TakeEffect, Manager, UpdateAccount, Configure,
      SetSensors, ApplyPreset, EditConfig, PutConfig, SaveLocks, StoreLocks, Import,
      PinConfig, Save, RenameFails, Refused, ApplyAccount, ApplyAlerts, ApplyStore, SetWatched, Reload,
      HookAlerts, HookSchedule, ManagerStarts, WriteModeReads, WriteMode, WriteModeFails,
      RollbackFails, ApplyPending
  <2>2. Uploading = {} /\ PairsOnDisk = {pair}
    BY DEF Uploading, PairsOnDisk
  <2>3. file["tls"] = mode
    BY DEF TlsKept
  <2> QED
    BY <2>1, <2>2, <2>3 DEF Restart, CertInv
<1> QED
  BY <1>2, <1>3, TypeCorrect, TlsKeysKept, PTL DEF Spec, CertificateSurvives

-----------------------------------------------------------------------------
\* What a handler of a kind at a step has still to put in effect.
Owing(step, k) ==
  IF step \in {"apply", "reload"}
    THEN Applies[k]
    ELSE {x \in AlertKeys : step = "alerts"}
           \cup {x \in {"sched"} : step \in {"alerts", "schedule"}}

\* Owes in these terms.
LEMMA OwesIs ==
  /\ \A r : Owes(r) = Owing(pc[r], kind[r])
  /\ \A r : Owes(r)' = Owing(pc'[r], kind'[r])
BY DEF Owes, Owing

\* Where it is empty, and what it is at the steps that apply.
LEMMA OwingAt ==
  /\ \A k : \A step \in {"idle", "lock", "store", "pin", "save", "read", "mode", "done"} :
       Owing(step, k) = {}
  /\ \A k \in ReloadKinds : Owing("reload", k) = ReloadKeys
  /\ \A k : Owing("alerts", k) = AlertKeys \cup {"sched"}
  /\ \A k : Owing("schedule", k) = {"sched"}
  /\ \A k : Owing("apply", k) = Applies[k] /\ Owing("reload", k) = Applies[k]
BY AppliesAre DEF Owing, ReloadKinds, BodyKinds

\* A key that is neither crossed nor adrift: whoever has still to put it in effect
\* has the value of the file; with nobody left, a pending config or the one in
\* effect has it.
KeyRight(k) ==
  /\ \A r \in Requests : k \in Owing(pc[r], kind[r]) => text[r][k] = file[k]
  /\ (\A r \in Requests : k \notin Owing(pc[r], kind[r])) =>
       IF k \in LoopKeys /\ pending # {} THEN \A c \in pending : c[k] = file[k]
       ELSE live[k] = file[k]

\* The inductive invariant behind EffectFollowsFile.
EffectInv == \A k \in Keys : k \in crossed \cup adrift \/ KeyRight(k)

\* A step that puts nothing in effect and writes no key.
LEMMA EffectKept ==
  ASSUME TypeOK, EffectInv, UNCHANGED <<live, pending, kind>>,
         \A k \in Keys : k \in crossed \cup adrift => k \in crossed' \cup adrift',
         \A k \in Keys : k \in crossed' \/ file'[k] = file[k],
         \A q \in Requests : /\ Owing(pc'[q], kind'[q]) = Owing(pc[q], kind[q])
                             /\ Owing(pc[q], kind[q]) = {} \/ text'[q] = text[q]
  PROVE  EffectInv'
<1> SUFFICES ASSUME NEW k \in Keys, k \notin crossed' \cup adrift' PROVE KeyRight(k)'
  BY DEF EffectInv
<1>1. KeyRight(k) /\ file'[k] = file[k]
  BY DEF EffectInv
<1> QED
  BY <1>1 DEF KeyRight

\* A step of r from and to steps that owe nothing.
LEMMA EffectStill ==
  ASSUME TypeOK, EffectInv, UNCHANGED <<live, pending, kind>>,
         \A k \in Keys : k \in crossed \cup adrift => k \in crossed' \cup adrift',
         \A k \in Keys : k \in crossed' \/ file'[k] = file[k],
         NEW r \in Requests, NEW step \in {"lock", "store", "pin", "save", "read", "mode", "done"},
         Goto(r, step), pc[r] \in {"idle", "lock", "store", "pin", "save", "read", "mode"},
         \A q \in Requests : q # r => text'[q] = text[q]
  PROVE  EffectInv'
<1>1. pc'[r] = step /\ \A q \in Requests : q # r => pc'[q] = pc[q]
  BY DEF Goto, TypeOK
<1>2. Owing(pc[r], kind[r]) = {} /\ Owing(pc'[r], kind'[r]) = {}
  BY <1>1, OwingAt
<1>3. \A q \in Requests : /\ Owing(pc'[q], kind'[q]) = Owing(pc[q], kind[q])
                          /\ Owing(pc[q], kind[q]) = {} \/ text'[q] = text[q]
  BY <1>1, <1>2
<1> QED
  BY <1>3, EffectKept

\* What a save under configFileMu does to a key it does not set out to write.
LEMMA UnwrittenStays ==
  ASSUME TypeOK, Contents, NEW r \in Requests, pc[r] = "save", Written(r),
         NEW k \in Keys, k \notin edits[r], k \notin crossed'
  PROVE  k \notin crossed /\ text[r][k] = file[k] /\ file'[k] = file[k]
<1>1. k # "tls" /\ k \notin crossed /\ file' = text[r]
  BY KeyFacts DEF Written
<1>2. file[k] = latest[k]
  BY <1>1 DEF Contents, NoEditDropped
<1>3. CASE k = "hash" /\ kind[r] = "put"
  <2>1. text[r]["hash"] = seen[r].hash
    BY <1>3 DEF Contents, FreshInv
  <2>2. file["hash"] = seen[r].hash
    BY <1>3 DEF Written
  <2> QED
    BY <1>1, <1>3, <2>1, <2>2
<1>4. CASE ~(k = "hash" /\ kind[r] = "put")
  <2>1. text[r][k] = latest[k]
    BY <1>1, <1>4 DEF Contents, FreshInv
  <2> QED
    BY <1>1, <1>2, <2>1
<1> QED
  BY <1>3, <1>4

\* A save: the writer now owes what it wrote, and what another one owed of it is
\* crossed.
LEMMA SaveEffect ==
  ASSUME TypeOK, KindInv, Contents, EffectInv, NEW r \in Requests, Save(r)
  PROVE  EffectInv'
<1> SUFFICES ASSUME NEW k \in Keys, k \notin crossed' \cup adrift' PROVE KeyRight(k)'
  BY DEF EffectInv
<1>1. /\ pc[r] = "save" /\ Written(r) /\ UNCHANGED <<live, pending, kind, edits, text>>
      /\ adrift' = (adrift \ (Applies[kind[r]] \ OwedByOthers(r)))
           \cup {j \in edits[r] : j \notin Applies[kind[r]] \/ j \in OwedByOthers(r)}
      /\ Goto(r, IF kind[r] \in ReloadKinds THEN "reload" ELSE "apply")
  BY DEF Save, requestVars
<1>2. /\ pc'[r] \in {"reload", "apply"} /\ \A q \in Requests : q # r => pc'[q] = pc[q]
  BY <1>1 DEF Goto, TypeOK
<1>3. Owing(pc'[r], kind'[r]) = Applies[kind[r]] /\ Owing(pc[r], kind[r]) = {}
  BY <1>1, <1>2, OwingAt
<1>4. \A q \in Requests : q # r => Owing(pc'[q], kind'[q]) = Owing(pc[q], kind[q])
  BY <1>1, <1>2
<1>5. OwedByOthers(r) = UNION {Owing(pc[q], kind[q]) : q \in Requests \ {r}}
  BY OwesIs DEF OwedByOthers
<1>6. file'[k] = text[r][k] /\ text' = text
  BY <1>1 DEF Written
<1>7. CASE k \in edits[r]
  <2>1. k \in Applies[kind[r]] /\ k \notin OwedByOthers(r)
    BY <1>1, <1>7
  <2>2. \A q \in Requests \ {r} : k \notin Owing(pc[q], kind[q])
    BY <1>5, <2>1
  <2> QED
    BY <1>3, <1>4, <1>6, <2>1, <2>2 DEF KeyRight
<1>8. CASE k \notin edits[r] /\ k \in adrift
  <2>1. k \in Applies[kind[r]] /\ k \notin OwedByOthers(r)
    BY <1>1, <1>8
  <2>2. \A q \in Requests \ {r} : k \notin Owing(pc[q], kind[q])
    BY <1>5, <2>1
  <2> QED
    BY <1>3, <1>4, <1>6, <2>1, <2>2 DEF KeyRight
<1>9. CASE k \notin edits[r] /\ k \notin adrift
  <2>1. k \notin crossed /\ text[r][k] = file[k] /\ file'[k] = file[k]
    BY <1>1, <1>9, UnwrittenStays
  <2>2. KeyRight(k)
    BY <1>9, <2>1 DEF EffectInv
  <2>3. \A q \in Requests : k \in Owing(pc'[q], kind'[q]) => text'[q][k] = file'[k]
    BY <1>4, <1>6, <2>1, <2>2 DEF KeyRight
  <2>4. (\A q \in Requests : k \notin Owing(pc'[q], kind'[q]))
           => \A q \in Requests : k \notin Owing(pc[q], kind[q])
    BY <1>3, <1>4
  <2> QED
    BY <1>1, <2>1, <2>2, <2>3, <2>4 DEF KeyRight
<1> QED
  BY <1>7, <1>8, <1>9

\* A handler puts the keys ks in effect and goes on: it owed them, and owes less.
LEMMA PutInEffect ==
  ASSUME TypeOK, EffectInv, NEW r \in Requests, NEW ks \in SUBSET Keys,
         NEW step \in Steps, Goto(r, step),
         UNCHANGED <<file, text, kind, crossed, adrift>>,
         InEffect(r, ks), ks \subseteq Owing(pc[r], kind[r]),
         Owing(step, kind[r]) = Owing(pc[r], kind[r]) \ ks,
         \A k \in LoopKeys \cap ks : \A c \in pending' : c[k] = text[r][k],
         \A k \in LoopKeys \ ks : \A c \in pending' : \E d \in pending : c[k] = d[k],
         pending' = {} <=> pending = {}
  PROVE  EffectInv'
<1> SUFFICES ASSUME NEW k \in Keys, k \notin crossed' \cup adrift' PROVE KeyRight(k)'
  BY DEF EffectInv
<1>1. KeyRight(k) /\ file' = file /\ text' = text /\ kind' = kind
  BY DEF EffectInv
<1>2. pc'[r] = step /\ \A q \in Requests : q # r => pc'[q] = pc[q]
  BY DEF Goto, TypeOK
<1>3. \A q \in Requests : q # r => Owing(pc'[q], kind'[q]) = Owing(pc[q], kind[q])
  BY <1>1, <1>2
<1>4. Owing(pc'[r], kind'[r]) = Owing(pc[r], kind[r]) \ ks
  BY <1>1, <1>2
<1>5. \A q \in Requests : k \in Owing(pc'[q], kind'[q]) => text'[q][k] = file'[k]
  BY <1>1, <1>3, <1>4 DEF KeyRight
<1>6. CASE k \in ks
  <2>1. text[r][k] = file[k] /\ live'[k] = text[r][k]
    BY <1>1, <1>6 DEF KeyRight, InEffect
  <2>2. k \in LoopKeys => \A c \in pending' : c[k] = file'[k]
    BY <1>1, <1>6, <2>1
  <2> QED
    BY <1>1, <1>5, <2>1, <2>2 DEF KeyRight
<1>7. CASE k \notin ks
  <2>1. live'[k] = live[k]
    BY <1>7 DEF InEffect
  <2>2. (\A q \in Requests : k \notin Owing(pc'[q], kind'[q]))
           => \A q \in Requests : k \notin Owing(pc[q], kind[q])
    BY <1>3, <1>4, <1>7
  <2>3. (\A q \in Requests : k \notin Owing(pc'[q], kind'[q])) =>
          IF k \in LoopKeys /\ pending' # {} THEN \A c \in pending' : c[k] = file'[k]
          ELSE live'[k] = file'[k]
    <3> SUFFICES ASSUME \A q \in Requests : k \notin Owing(pc'[q], kind'[q])
                 PROVE  IF k \in LoopKeys /\ pending' # {}
                          THEN \A c \in pending' : c[k] = file'[k]
                          ELSE live'[k] = file'[k]
      OBVIOUS
    <3>1. IF k \in LoopKeys /\ pending # {} THEN \A c \in pending : c[k] = file[k]
          ELSE live[k] = file[k]
      BY <1>1, <2>2 DEF KeyRight
    <3>2. CASE k \in LoopKeys /\ pending' # {}
      BY <1>1, <1>7, <3>1, <3>2
    <3>3. CASE ~(k \in LoopKeys /\ pending' # {})
      BY <1>1, <2>1, <3>1, <3>3
    <3> QED
      BY <3>2, <3>3
  <2> QED
    BY <1>5, <2>3 DEF KeyRight
<1> QED
  BY <1>6, <1>7

\* Every step keeps the invariant: saves, the four ways to put a section in
\* effect, the cycle that swaps a pending configuration, failures, a restart.
LEMMA EffectStep ==
  TypeOK /\ KindInv /\ Contents /\ EffectInv /\ [Next]_vars => EffectInv'
<1> SUFFICES ASSUME TypeOK, KindInv, Contents, EffectInv, [Next]_vars PROVE EffectInv'
  OBVIOUS
<1>0. /\ text \in [Requests -> Texts] /\ pc \in [Requests -> Steps]
      /\ pending \subseteq [LoopKeys -> Values]
  BY DEF TypeOK
<1>a. ASSUME NEW r \in Requests, NEW k, NEW e,
             EditConfig(r, k, e)
      PROVE  EffectInv'
  BY <1>a, <1>0, EffectStill DEF EditConfig, history
<1>b. ASSUME NEW r \in Requests, PutConfig(r) PROVE EffectInv'
  BY <1>b, <1>0, EffectStill DEF PutConfig, Receives
<1>c. ASSUME NEW r \in Requests, Import(r) PROVE EffectInv'
  BY <1>c, <1>0, EffectStill DEF Import, Receives, history
<1>d. ASSUME NEW r \in Requests, SaveLocks(r) \/ StoreLocks(r) \/ PinConfig(r) \/ Refused(r)
      PROVE  EffectInv'
  BY <1>d, <1>0, EffectStill DEF SaveLocks, StoreLocks, PinConfig, Refused, requestVars, history
<1>e. ASSUME NEW r \in Requests, Save(r) PROVE EffectInv'
  BY <1>e, SaveEffect
<1>f. ASSUME NEW r \in Requests, RenameFails(r) PROVE EffectInv'
  <2>1. /\ pc[r] = "save" /\ Written(r) /\ Goto(r, "done") /\ adrift' = adrift \cup edits[r]
        /\ UNCHANGED <<live, pending, kind, text>>
    BY <1>f DEF RenameFails, requestVars
  <2> SUFFICES ASSUME NEW k \in Keys, k \notin crossed' \cup adrift' PROVE KeyRight(k)'
    BY DEF EffectInv
  <2>2. k \notin crossed \cup adrift /\ file'[k] = file[k]
    BY <2>1, UnwrittenStays
  <2>3. KeyRight(k)
    BY <2>2 DEF EffectInv
  <2>4. pc'[r] = "done" /\ \A q \in Requests : q # r => pc'[q] = pc[q]
    BY <2>1, <1>0 DEF Goto
  <2>5. \A q \in Requests : Owing(pc'[q], kind'[q]) = Owing(pc[q], kind[q])
    BY <2>1, <2>4, OwingAt
  <2> QED
    BY <2>1, <2>2, <2>3, <2>5 DEF KeyRight
<1>g. ASSUME NEW r \in Requests, ApplyAccount(r) \/ ApplyAlerts(r) PROVE EffectInv'
  <2>1. PICK k \in {"account", "alert"} : ApplyStore(r, k)
    BY <1>g DEF ApplyAccount, ApplyAlerts
  <2>2. /\ Owing(pc[r], kind[r]) = Applies[k] /\ Applies[k] \in SUBSET Keys
        /\ Owing("done", kind[r]) = {}
    BY <2>1, OwingAt, AppliesAre DEF ApplyStore, StoreKinds
  <2>3. LoopKeys \cap Applies[k] = {}
    BY AppliesAre DEF LoopKeys, AcctKeys, AlertKeys
  <2>4. Owing("done", kind[r]) = Owing(pc[r], kind[r]) \ Applies[k]
    BY <2>2
  <2>5. /\ UNCHANGED <<file, text, kind, crossed, adrift, pending>> /\ Goto(r, "done")
        /\ InEffect(r, Applies[k])
    BY <2>1 DEF ApplyStore, requestVars, history
  <2> QED
    BY <2>2, <2>3, <2>4, <2>5, PutInEffect DEF Steps
<1>h. ASSUME NEW r \in Requests, SetWatched(r) PROVE EffectInv'
  <2>1. /\ Owing(pc[r], kind[r]) = {"dash"} /\ Owing("done", kind[r]) = {}
        /\ {"dash"} \in SUBSET Keys
    BY <1>h, OwingAt, AppliesAre, KeyFacts DEF SetWatched
  <2>2. /\ UNCHANGED <<file, text, kind, crossed, adrift>> /\ Goto(r, "done")
        /\ InEffect(r, {"dash"}) /\ pending' = {WithWatched(c, r) : c \in pending}
    BY <1>h DEF SetWatched, requestVars, history
  <2>3. \A c \in pending : /\ WithWatched(c, r)["dash"] = text[r]["dash"]
                           /\ \A k \in LoopKeys \ {"dash"} : WithWatched(c, r)[k] = c[k]
    BY <1>0, KeyFacts DEF WithWatched
  <2>4. Owing("done", kind[r]) = Owing(pc[r], kind[r]) \ {"dash"}
    BY <2>1
  <2>5. \A k \in LoopKeys \cap {"dash"} : \A c \in pending' : c[k] = text[r][k]
    BY <2>2, <2>3
  <2>6. \A k \in LoopKeys \ {"dash"} : \A c \in pending' : \E d \in pending : c[k] = d[k]
    BY <2>2, <2>3
  <2>7. pending' = {} <=> pending = {}
    BY <2>2
  <2> QED
    BY <2>1, <2>2, <2>4, <2>5, <2>6, <2>7, PutInEffect DEF Steps
<1>i. ASSUME NEW r \in Requests, HookAlerts(r) PROVE EffectInv'
  <2>1. /\ Owing(pc[r], kind[r]) = AlertKeys \cup {"sched"}
        /\ Owing("schedule", kind[r]) = {"sched"}
        /\ AlertKeys \in SUBSET Keys /\ LoopKeys \cap AlertKeys = {}
    BY <1>i, OwingAt, KeyFacts DEF HookAlerts, LoopKeys, AlertKeys
  <2>2. Owing("schedule", kind[r]) = Owing(pc[r], kind[r]) \ AlertKeys
    BY <2>1 DEF AlertKeys
  <2>3. /\ UNCHANGED <<file, text, kind, crossed, adrift, pending>> /\ Goto(r, "schedule")
        /\ InEffect(r, AlertKeys)
    BY <1>i DEF HookAlerts, requestVars, history
  <2> QED
    BY <2>1, <2>2, <2>3, PutInEffect DEF Steps
<1>j. ASSUME NEW r \in Requests, HookSchedule(r) PROVE EffectInv'
  <2>1. /\ Owing(pc[r], kind[r]) = {"sched"} /\ Owing("done", kind[r]) = {}
        /\ {"sched"} \in SUBSET Keys /\ LoopKeys \cap {"sched"} = {}
    BY <1>j, OwingAt DEF HookSchedule, LoopKeys, Keys
  <2>2. Owing("done", kind[r]) = Owing(pc[r], kind[r]) \ {"sched"}
    BY <2>1
  <2>3. /\ UNCHANGED <<file, text, kind, crossed, adrift, pending>> /\ Goto(r, "done")
        /\ InEffect(r, {"sched"})
    BY <1>j DEF HookSchedule, requestVars, history
  <2> QED
    BY <2>1, <2>2, <2>3, PutInEffect DEF Steps
<1>k. ASSUME NEW r \in Requests, Reload(r) PROVE EffectInv'
  <2>1. /\ pc[r] = "reload" /\ kind[r] \in ReloadKinds /\ Goto(r, "alerts")
        /\ UNCHANGED <<file, live, kind, text, crossed>>
        /\ \/ pending' = {[k \in LoopKeys |-> text[r][k]]} /\ adrift' = adrift
           \/ pending' = pending /\ adrift' = adrift \cup LoopKeys
    BY <1>k DEF Reload, KindInv, requestVars
  <2>2. /\ Owing(pc[r], kind[r]) = ReloadKeys
        /\ Owing("alerts", kind[r]) = AlertKeys \cup {"sched"}
        /\ AlertKeys \cup {"sched"} = ReloadKeys \ LoopKeys
    BY <2>1, OwingAt DEF ReloadKeys, LoopKeys, AlertKeys
  <2>3. pc'[r] = "alerts" /\ \A q \in Requests : q # r => pc'[q] = pc[q]
    BY <2>1, <1>0 DEF Goto
  <2>4. /\ Owing(pc'[r], kind'[r]) = Owing(pc[r], kind[r]) \ LoopKeys
        /\ \A q \in Requests : q # r => Owing(pc'[q], kind'[q]) = Owing(pc[q], kind[q])
    BY <2>1, <2>2, <2>3
  <2> SUFFICES ASSUME NEW k \in Keys, k \notin crossed' \cup adrift' PROVE KeyRight(k)'
    BY DEF EffectInv
  <2>5. KeyRight(k)
    BY <2>1 DEF EffectInv
  <2>6. \A q \in Requests : k \in Owing(pc'[q], kind'[q]) => text'[q][k] = file'[k]
    BY <2>1, <2>4, <2>5 DEF KeyRight
  <2>7. CASE k \in LoopKeys
    <3>1. pending' = {[j \in LoopKeys |-> text[r][j]]} /\ text[r][k] = file[k]
      <4>1. k \in Owing(pc[r], kind[r])
        BY <2>2, <2>7 DEF ReloadKeys
      <4> QED
        BY <2>1, <2>5, <2>7, <4>1 DEF KeyRight
    <3>2. pending' # {} /\ \A c \in pending' : c[k] = file'[k]
      BY <2>1, <2>7, <3>1
    <3> QED
      BY <2>6, <2>7, <3>2 DEF KeyRight
  <2>8. CASE k \notin LoopKeys
    <3>1. (\A q \in Requests : k \notin Owing(pc'[q], kind'[q]))
             => \A q \in Requests : k \notin Owing(pc[q], kind[q])
      BY <2>4, <2>8
    <3>2. (\A q \in Requests : k \notin Owing(pc'[q], kind'[q])) => live'[k] = file'[k]
      BY <2>1, <2>5, <2>8, <3>1 DEF KeyRight
    <3> QED
      BY <2>6, <2>8, <3>2 DEF KeyRight
  <2> QED
    BY <2>7, <2>8
<1>l. ASSUME NEW r \in Requests,
             ManagerStarts(r) \/ WriteModeReads(r) \/ WriteModeFails(r) \/ RollbackFails(r)
      PROVE  EffectInv'
  BY <1>l, <1>0, EffectStill
  DEF ManagerStarts, WriteModeReads, WriteModeFails, RollbackFails,
    requestVars, history
<1>m. ASSUME NEW r \in Requests, WriteMode(r) PROVE EffectInv'
  <2>1. /\ \A k \in Keys : k \in crossed \cup adrift => k \in crossed' \cup adrift'
        /\ \A k \in Keys : k \in crossed' \/ file'[k] = file[k]
    BY <1>m, KeyFacts DEF WriteMode
  <2> QED
    BY <1>m, <2>1, EffectStill DEF WriteMode, requestVars
<1>n. CASE ApplyPending
  <2>1. PICK c \in pending : live' = [k \in Keys |-> IF k \in LoopKeys THEN c[k] ELSE live[k]]
    BY <1>n DEF ApplyPending
  <2>2. pending' = {} /\ UNCHANGED <<file, pc, kind, text, crossed, adrift>>
    BY <1>n DEF ApplyPending, requestVars, history
  <2> SUFFICES ASSUME NEW k \in Keys, k \notin crossed' \cup adrift' PROVE KeyRight(k)'
    BY DEF EffectInv
  <2>3. KeyRight(k)
    BY <2>2 DEF EffectInv
  <2>4. (\A q \in Requests : k \notin Owing(pc[q], kind[q])) => live'[k] = file[k]
    BY <2>1, <2>3 DEF KeyRight
  <2> QED
    BY <2>2, <2>3, <2>4 DEF KeyRight
<1>o. CASE Restart
  <2>1. \A q \in Requests : pc'[q] \in {"idle", "done"}
    BY <1>o, <1>0 DEF Restart
  <2>2. \A q \in Requests : Owing(pc'[q], kind'[q]) = {}
    BY <2>1, OwingAt
  <2>3. file' = file /\ live' = [k \in Keys |-> file[k]] /\ pending' = {}
    BY <1>o DEF Restart
  <2> QED
    BY <2>2, <2>3 DEF EffectInv, KeyRight
<1>p. CASE UNCHANGED vars
  BY <1>p, EffectKept DEF vars
<1> QED
  BY <1>a, <1>b, <1>c, <1>d, <1>e, <1>f, <1>g, <1>h, <1>i, <1>j, <1>k, <1>l, <1>m, <1>n,
     <1>o, <1>p, EditIsEditConfig
  DEF Next, Handler, Edit, Write, TakeEffect, Manager

\* EffectFollowsFile: for any number of handlers of any kinds, once all have
\* answered and the loop has cycled, what is in effect is what the file says, but
\* for the keys of crossed and adrift.
THEOREM EffectFollows == Spec => []EffectFollowsFile
<1>1. Init => EffectInv
  <2> SUFFICES ASSUME Init PROVE EffectInv
    OBVIOUS
  <2>1. \A q \in Requests : Owing(pc[q], kind[q]) = {}
    BY OwingAt DEF Init
  <2> QED
    BY <2>1, KeyFacts DEF Init, EffectInv, KeyRight, Start
<1>2. EffectInv => EffectFollowsFile
  <2> SUFFICES ASSUME EffectInv, Quiet, NEW k \in Keys, k \notin crossed \cup adrift
               PROVE  live[k] = file[k]
    BY DEF EffectFollowsFile
  <2>1. \A q \in Requests : Owing(pc[q], kind[q]) = {}
    BY OwingAt DEF Quiet
  <2> QED
    BY <2>1 DEF EffectInv, KeyRight, Quiet
<1> QED
  BY <1>1, <1>2, TypeCorrect, KindsHold, ContentsHold, EffectStep, PTL DEF Spec
=============================================================================
