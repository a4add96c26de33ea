---------------------------- MODULE ConfigStore -----------------------------
(***************************************************************************)
(* config.toml and everybody who rewrites it inside the daemon: the        *)
(* account, alert and dashboard stores (editConfig), a preset apply, PUT   *)
(* /api/config, a settings import, and the certificate manager.  Each of   *)
(* them writes the whole file from a text it read or was sent; then it     *)
(* puts what it wrote in effect, in the controller, the alert manager, the *)
(* scheduler or the web layer.                                             *)
(*                                                                         *)
(* A text is a value per section; a value is the request that put it there.*)
(* configFileMu, the manager's m.mu and the two store mutexes are          *)
(* explicit, the mutexes that guard one assignment are single steps.       *)
(***************************************************************************)
EXTENDS Naturals, FiniteSets

CONSTANTS
  Requests,    \* the handlers that run in one behaviour, each of them once
  Kinds,       \* what they may be
  Old,         \* what was there before them; for a certificate: the automatic
  Free,        \* owner of a mutex nobody holds
  MaxRestarts  \* bound: restarts of the daemon

LoopKeys == {"set", "curves", "dash"}    \* [[channel]] names and pwms; the
                                         \* rest of them; [dashboard]
AlertKeys == {"transport", "mail"}       \* [alert]
AcctKeys == {"user", "hash"}             \* [web] user, password_hash
Keys == LoopKeys \cup AlertKeys \cup AcctKeys \cup {"sched"}
TextKeys == Keys \cup {"tls"}            \* [web] tls, cert_file, key_file
Modes == {"auto", "file"}
Values == Requests \cup {Old}
Texts == {t \in [TextKeys -> Values \cup Modes] :
            t["tls"] \in Modes /\ \A k \in Keys : t[k] \in Values}
Locks == {"config", "tls", "account", "dashboard"}

StoreKinds == {"account", "alert", "dashboard", "preset"}
BodyKinds == {"put", "import"}
TlsKinds == {"upload", "reset"}
AllKinds == StoreKinds \cup BodyKinds \cup TlsKinds
ReloadKinds == BodyKinds \cup {"preset"}

Steps == {"idle", "lock", "store", "pin", "save", "apply", "reload", "alerts",
          "schedule", "read", "mode", "done"}

ASSUME KindsAssumption == Kinds \subseteq AllKinds
ASSUME ValuesAssumption == Old \notin Requests /\ Free \notin Requests
ASSUME BoundAssumption == MaxRestarts \in Nat

VARIABLES
  file,      \* config.toml
  live,      \* the sections in effect: c.cfg, alertManager.cur,
             \* scheduler.entries, Server.auth
  pending,   \* c.pending: {} or the LoopKeys the controller accepted
  mode,      \* tlsManager.mode
  served,    \* the certificate in tlsManager.store
  pair,      \* custom-cert.pem and custom-key.pem; Old: no usable pair
  prevPair,  \* prevCert, prevKey of Upload
  lock,      \* owner of each mutex
  pc, kind,  \* per request
  edits,     \* the keys a request sets out to write
  text,      \* raw
  restarts,  \* restarts so far (bound)
  seen,      \* history: hash and mode a request took without configFileMu
  latest,    \* history: the last value written to each key on purpose
  crossed,   \* history: keys a write outside configFileMu took back
  adrift     \* history: keys written without being put in effect in order;
             \* "tls": a pair left by a rollback that failed

vars == <<file, live, pending, mode, served, pair, prevPair, lock, pc, kind,
          edits, text, restarts, seen, latest, crossed, adrift>>
certVars == <<mode, served, pair, prevPair>>
requestVars == <<kind, edits>>
history == <<seen, latest, crossed, adrift>>

Start == [k \in TextKeys |-> IF k = "tls" THEN "auto" ELSE Old]

Init ==
  /\ file = Start
  /\ live = [k \in Keys |-> Old] /\ pending = {}
  /\ mode = "auto" /\ served = Old /\ pair = Old /\ prevPair = Old
  /\ lock = [l \in Locks |-> Free]
  /\ pc = [r \in Requests |-> "idle"]
  /\ kind \in [Requests -> Kinds]
  /\ edits = [r \in Requests |-> {}]
  /\ text = [r \in Requests |-> Start]
  /\ restarts = 0
  /\ seen = [r \in Requests |-> [hash |-> Old, mode |-> "auto"]]
  /\ latest = [k \in Keys |-> Old] /\ crossed = {} /\ adrift = {}

Goto(r, step) == pc' = [pc EXCEPT ![r] = step]

\* The locks a request has in its hands are given back.
Released(r, ls) ==
  [l \in Locks |-> IF l \in ls /\ lock[l] = r THEN Free ELSE lock[l]]

-----------------------------------------------------------------------------
(***************************************************************************)
(* Reading.                                                                *)
(***************************************************************************)
\* Mutant: configFileMu is not waited for.
TakesUnlocked(r, ls) == lock' = [l \in Locks |-> IF l \in ls THEN r ELSE lock[l]]

Takes(r, ls) ==
  /\ \A l \in ls : lock[l] = Free
  /\ lock' = [l \in Locks |-> IF l \in ls THEN r ELSE lock[l]]

\* SetKey: the keys e are the request's, everything else stays.
Edited(r, e) == [k \in TextKeys |-> IF k \in e THEN r ELSE file[k]]

\* The stores with a mutex of their own, which they hold before configFileMu.
MutexKinds == {"account", "dashboard"}

StoreLocks(r) ==
  /\ pc[r] = "idle" /\ kind[r] \in MutexKinds
  /\ Takes(r, {kind[r]})
  /\ Goto(r, "store")
  /\ UNCHANGED <<file, live, pending, certVars, requestVars, text, restarts,
                 history>>

\* Read under configFileMu and edit in place.
EditConfig(r, k, e) ==
  /\ pc[r] = (IF k \in MutexKinds THEN "store" ELSE "idle") /\ kind[r] = k
  /\ Takes(r, {"config"})
  /\ edits' = [edits EXCEPT ![r] = e]
  /\ text' = [text EXCEPT ![r] = Edited(r, e)]
  /\ Goto(r, "pin")
  /\ UNCHANGED <<file, live, pending, certVars, kind, restarts, history>>

\* accountStore.Update: a password change keeps the user, a rename writes both.
UpdateAccount(r) == \E e \in {{"hash"}, AcctKeys} : EditConfig(r, "account", e)

\* alertManager.Configure: a nil member keeps the value in the file.
Configure(r) == \E e \in SUBSET AlertKeys : e # {} /\ EditConfig(r, "alert", e)

\* dashboardStore.SetSensors.
SetSensors(r) == EditConfig(r, "dashboard", {"dash"})

\* mergeChannelsByPWM: a preset changes curves, and the channel set if it names
\* a pwm the file lacks.
MergedKeys(adds) == {"curves"} \cup {k \in {"set"} : adds}

\* dirPresetStore.Apply, from the API or from the scheduler.
ApplyPreset(r) ==
  \E adds \in BOOLEAN : EditConfig(r, "preset", MergedKeys(adds))

\* A text sent by a client: every section is the client's, with the running
\* channel set or another one; RestoreHash puts the hash of the file for its
\* placeholder; the tls keys are those of the day the text was fetched.
Body(r, reshapes, tls) ==
  [[k \in TextKeys |-> r] EXCEPT
     !["tls"]  = tls,
     !["hash"] = file["hash"],
     !["set"]  = IF reshapes THEN r ELSE live["set"]]

Receives(r) ==
  /\ edits' = [edits EXCEPT ![r] = Keys \ {"hash"}]
  /\ \E reshapes \in BOOLEAN, tls \in Modes :
       text' = [text EXCEPT ![r] = Body(r, reshapes, tls)]

\* putConfig reads the hash for the placeholder without the lock.
PutConfig(r) ==
  /\ pc[r] = "idle" /\ kind[r] = "put"
  /\ Receives(r)
  /\ seen' = [seen EXCEPT ![r] = [hash |-> file["hash"], mode |-> mode]]
  /\ Goto(r, "lock")
  /\ UNCHANGED <<file, live, pending, certVars, lock, kind, restarts, latest,
                 crossed, adrift>>

SaveLocks(r) ==
  /\ pc[r] = "lock"
  /\ Takes(r, {"config"})
  /\ Goto(r, "pin")
  /\ UNCHANGED <<file, live, pending, certVars, requestVars, text, restarts,
                 history>>

Import(r) ==
  /\ pc[r] = "idle" /\ kind[r] = "import"
  /\ Takes(r, {"config"})
  /\ Receives(r)
  /\ Goto(r, "pin")
  /\ UNCHANGED <<file, live, pending, certVars, kind, restarts, history>>

(***************************************************************************)
(* Writing.                                                                *)
(***************************************************************************)
\* Mutant: the text is written with the tls keys it came with.
PinnedNot(raw) == raw

\* pinConfig: the tls keys are the manager's.
Pinned(raw) == [raw EXCEPT !["tls"] = mode]

PinConfig(r) ==
  /\ pc[r] = "pin" /\ lock["tls"] = Free
  /\ text' = [text EXCEPT ![r] = Pinned(text[r])]
  /\ seen' = [seen EXCEPT ![r] = [hash |-> seen[r].hash, mode |-> mode]]
  /\ Goto(r, "save")
  /\ UNCHANGED <<file, live, pending, certVars, lock, requestVars, restarts,
                 latest, crossed, adrift>>

\* The keys a request puts in effect after its save, by its kind.
ReloadKeys == LoopKeys \cup AlertKeys \cup {"sched"}
Applies ==
  [account |-> AcctKeys, alert |-> AlertKeys, dashboard |-> {"dash"},
   preset |-> ReloadKeys, put |-> ReloadKeys, import |-> ReloadKeys]

\* What it has still to put in effect.
Owes(r) ==
  IF pc[r] \in {"apply", "reload"}
    THEN Applies[kind[r]]
    ELSE {k \in AlertKeys : pc[r] = "alerts"}
           \cup {k \in {"sched"} : pc[r] \in {"alerts", "schedule"}}

OwedByOthers(r) == UNION {Owes(q) : q \in Requests \ {r}}

Written(r) ==
  /\ file' = text[r]
  /\ latest' = [k \in Keys |-> IF k \in edits[r] THEN text[r][k] ELSE latest[k]]
  /\ crossed' = (crossed \ (edits[r] \cup {"tls"}))
       \cup {k \in {"hash"} : kind[r] = "put" /\ file[k] # seen[r].hash}
       \cup {k \in {"tls"} : mode # seen[r].mode}

\* Save: the store mutex of the account store is given back with the file's,
\* that of the dashboard store after SetWatched.
Save(r) ==
  /\ pc[r] = "save"
  /\ Written(r)
  /\ adrift' = (adrift \ (Applies[kind[r]] \ OwedByOthers(r)))
       \cup {k \in edits[r] : k \notin Applies[kind[r]] \/ k \in OwedByOthers(r)}
  /\ lock' = Released(r, {"config", "account"})
  /\ Goto(r, IF kind[r] \in ReloadKinds THEN "reload" ELSE "apply")
  /\ UNCHANGED <<live, pending, certVars, requestVars, text, restarts, seen>>

\* Import: a preset cannot be renamed into place.  The config is written, the
\* daemon is not reloaded.
RenameFails(r) ==
  /\ pc[r] = "save" /\ kind[r] = "import"
  /\ Written(r)
  /\ adrift' = adrift \cup edits[r]
  /\ lock' = Released(r, Locks)
  /\ Goto(r, "done")
  /\ UNCHANGED <<live, pending, certVars, requestVars, text, restarts, seen>>

\* An edit that does not verify, a text that does not parse, a write error:
\* nothing is written.
Refused(r) ==
  /\ pc[r] \in {"lock", "store", "pin", "save"}
  /\ lock' = Released(r, Locks)
  /\ Goto(r, "done")
  /\ UNCHANGED <<file, live, pending, certVars, requestVars, text, restarts,
                 history>>

-----------------------------------------------------------------------------
(***************************************************************************)
(* In effect, after configFileMu is given back.                            *)
(***************************************************************************)
InEffect(r, ks) == live' = [k \in Keys |-> IF k \in ks THEN text[r][k] ELSE live[k]]

\* The credentials Update returned, the merged section Configure wrote.
ApplyStore(r, k) ==
  /\ pc[r] = "apply" /\ kind[r] = k
  /\ InEffect(r, Applies[k])
  /\ Goto(r, "done")
  /\ UNCHANGED <<file, pending, certVars, lock, requestVars, text, restarts,
                 history>>

ApplyAccount(r) == ApplyStore(r, "account")
ApplyAlerts(r) == ApplyStore(r, "alert")

\* Mutant: only the config in effect is changed, a pending one is not.
WithWatchedNot(c, r) == c

\* The accepted config gets the list too.
WithWatched(c, r) == [c EXCEPT !["dash"] = text[r]["dash"]]

SetWatched(r) ==
  /\ pc[r] = "apply" /\ kind[r] = "dashboard"
  /\ InEffect(r, {"dash"})
  /\ pending' = {WithWatched(c, r) : c \in pending}
  /\ lock' = Released(r, {"dashboard"})
  /\ Goto(r, "done")
  /\ UNCHANGED <<file, certVars, requestVars, text, restarts, history>>

\* Controller.Apply: another channel set than the running one needs a restart
\* and applies nothing; the hook goes on in both cases.
Reload(r) ==
  /\ pc[r] = "reload"
  /\ IF text[r]["set"] = live["set"]
       THEN /\ pending' = {[k \in LoopKeys |-> text[r][k]]}
            /\ UNCHANGED adrift
       ELSE /\ adrift' = adrift \cup LoopKeys
            /\ UNCHANGED pending
  /\ Goto(r, "alerts")
  /\ UNCHANGED <<file, live, certVars, lock, requestVars, text, restarts,
                 seen, latest, crossed>>

HookAlerts(r) ==
  /\ pc[r] = "alerts"
  /\ InEffect(r, AlertKeys)
  /\ Goto(r, "schedule")
  /\ UNCHANGED <<file, pending, certVars, lock, requestVars, text, restarts,
                 history>>

HookSchedule(r) ==
  /\ pc[r] = "schedule"
  /\ InEffect(r, {"sched"})
  /\ Goto(r, "done")
  /\ UNCHANGED <<file, pending, certVars, lock, requestVars, text, restarts,
                 history>>

\* applyPendingLocked, at the start of a cycle.
ApplyPending ==
  /\ \E c \in pending :
       live' = [k \in Keys |-> IF k \in LoopKeys THEN c[k] ELSE live[k]]
  /\ pending' = {}
  /\ UNCHANGED <<file, certVars, lock, pc, requestVars, text, restarts, history>>

-----------------------------------------------------------------------------
(***************************************************************************)
(* The certificate manager, under m.mu and without configFileMu.           *)
(***************************************************************************)
\* Mutant: writeMode takes configFileMu inside m.mu.
WriteModeLocksConfig == {"tls", "config"}

WriteModeLocks == {"tls"}

\* Upload has written the pair; both have read the config.
ManagerStarts(r) ==
  /\ pc[r] = "idle" /\ kind[r] \in TlsKinds
  /\ Takes(r, {"tls"})
  /\ prevPair' = pair
  /\ pair' = IF kind[r] = "upload" THEN r ELSE pair
  /\ Goto(r, "read")
  /\ UNCHANGED <<file, live, pending, mode, served, requestVars, text, restarts,
                 history>>

WriteModeReads(r) ==
  /\ pc[r] = "read"
  /\ \A l \in WriteModeLocks : lock[l] \in {Free, r}
  /\ lock' = [l \in Locks |-> IF l \in WriteModeLocks THEN r ELSE lock[l]]
  /\ text' = [text EXCEPT ![r] =
                [file EXCEPT !["tls"] = IF kind[r] = "upload" THEN "file" ELSE "auto"]]
  /\ Goto(r, "mode")
  /\ UNCHANGED <<file, live, pending, certVars, requestVars, restarts, history>>

\* saveConfig, then the manager follows; a reset deletes the uploaded pair.
WriteMode(r) ==
  /\ pc[r] = "mode"
  /\ file' = text[r]
  /\ crossed' = (crossed \ {"tls"}) \cup {k \in Keys : file[k] # text[r][k]}
  /\ mode' = text[r]["tls"]
  /\ served' = IF kind[r] = "upload" THEN r ELSE Old
  /\ pair' = IF kind[r] = "upload" THEN pair ELSE Old
  /\ lock' = Released(r, Locks)
  /\ Goto(r, "done")
  /\ adrift' = adrift \ {"tls"}
  /\ UNCHANGED <<live, pending, prevPair, requestVars, text, restarts, seen,
                 latest>>

\* Mutant: the new pair stays when the config could not be written.
RollbackNone(r) == pair

Rollback(r) == IF kind[r] = "upload" THEN prevPair ELSE pair

WriteModeFails(r) ==
  /\ pc[r] \in {"read", "mode"}
  /\ pair' = Rollback(r)
  /\ lock' = Released(r, Locks)
  /\ Goto(r, "done")
  /\ UNCHANGED <<file, live, pending, mode, served, prevPair, requestVars, text,
                 restarts, history>>

\* restoreFile fails too and is only logged: the new pair stays, or half of it.
RollbackFails(r) ==
  /\ pc[r] \in {"read", "mode"} /\ kind[r] = "upload"
  /\ pair' \in {pair, Old}
  /\ adrift' = adrift \cup {"tls"}
  /\ lock' = Released(r, Locks)
  /\ Goto(r, "done")
  /\ UNCHANGED <<file, live, pending, mode, served, prevPair, requestVars, text,
                 restarts, seen, latest, crossed>>

-----------------------------------------------------------------------------
\* The daemon ends at any point and starts with what is on disk; the handlers
\* are gone.  A pair that cannot be used falls back to the automatic one; an
\* upload cut off may leave the pair before, its own, or one that does not fit.
PairsOnDisk ==
  {pair} \cup (IF \E r \in Requests : pc[r] \in {"read", "mode"} /\ kind[r] = "upload"
                 THEN {prevPair, Old} ELSE {})

Restart ==
  /\ restarts < MaxRestarts
  /\ restarts' = restarts + 1
  /\ pc' = [r \in Requests |-> IF pc[r] = "idle" THEN "idle" ELSE "done"]
  /\ lock' = [l \in Locks |-> Free]
  /\ live' = [k \in Keys |-> file[k]]
  /\ pending' = {}
  /\ pair' \in PairsOnDisk
  /\ mode' = file["tls"]
  /\ served' = IF file["tls"] = "file" THEN pair' ELSE Old
  /\ latest' = [k \in Keys |-> file[k]] /\ crossed' = {} /\ adrift' = {}
  /\ UNCHANGED <<file, prevPair, requestVars, text, seen>>

Edit(r) ==
  \/ UpdateAccount(r) \/ Configure(r) \/ SetSensors(r) \/ ApplyPreset(r)
  \/ StoreLocks(r) \/ PutConfig(r) \/ SaveLocks(r) \/ Import(r)
Write(r) == PinConfig(r) \/ Save(r) \/ RenameFails(r) \/ Refused(r)
TakeEffect(r) ==
  \/ ApplyAccount(r) \/ ApplyAlerts(r) \/ SetWatched(r)
  \/ Reload(r) \/ HookAlerts(r) \/ HookSchedule(r)
Manager(r) ==
  \/ ManagerStarts(r) \/ WriteModeReads(r) \/ WriteMode(r)
  \/ WriteModeFails(r) \/ RollbackFails(r)

Handler(r) == Edit(r) \/ Write(r) \/ TakeEffect(r) \/ Manager(r)

Next == (\E r \in Requests : Handler(r)) \/ ApplyPending \/ Restart

Spec == Init /\ [][Next]_vars

-----------------------------------------------------------------------------
Begun(r) == pc[r] \notin {"idle", "done"}

WaitsFor(r) ==
  {l \in Locks : \/ pc[r] \in {"lock", "store"} /\ l = "config"
                 \/ pc[r] = "pin" /\ l = "tls"
                 \/ pc[r] = "read" /\ l \in WriteModeLocks}

\* Every handler has answered and the loop has cycled.
Quiet == pending = {} /\ \A r \in Requests : pc[r] \in {"idle", "done"}

\* The types of the variables: what a key, a mutex and a step may hold.
TypeOK ==
  /\ file \in Texts /\ live \in [Keys -> Values]
  /\ pending \subseteq [LoopKeys -> Values]
  /\ mode \in Modes /\ served \in Values /\ pair \in Values /\ prevPair \in Values
  /\ lock \in [Locks -> Requests \cup {Free}]
  /\ pc \in [Requests -> Steps] /\ kind \in [Requests -> Kinds]
  /\ edits \in [Requests -> SUBSET Keys] /\ text \in [Requests -> Texts]
  /\ restarts \in 0..MaxRestarts
  /\ seen \in [Requests -> [hash : Values, mode : Modes]]
  /\ latest \in [Keys -> Values]
  /\ crossed \subseteq TextKeys /\ adrift \subseteq TextKeys

\* Two rewrites of config.toml in the daemon (editConfig, preset apply, PUT
\* /api/config, import) never drop one another's change: a key holds the last
\* value somebody set out to write there.  Exactly two writes outside
\* configFileMu can take one back: writeMode of the certificate manager (all
\* keys), and the hash PUT read for the placeholder.
NoEditDropped == \A k \in Keys : file[k] = latest[k] \/ k \in crossed

\* pinConfig: a stale text never reverts the tls keys an upload or a reset
\* wrote, unless the manager's mode changed between its pin and its save.
TlsKept == file["tls"] = mode \/ "tls" \in crossed

\* When every handler has answered and the loop has cycled, controller, alert
\* manager, scheduler and web layer use what the file says: SetWatched against
\* a pending reload, the merged alert section, the kept user name.  Left out
\* are keys written while an earlier writer had still to apply its own (see
\* FileIsTruth), a channel set that needs a restart, [web] user from a text,
\* and an import that ended before its reload.
EffectFollowsFile ==
  Quiet => \A k \in Keys : live[k] = file[k] \/ k \in crossed \cup adrift

\* "a daemon restart then comes up with the same certificate" (Upload): whatever
\* was uploaded, reset or rolled back, in any order with other writers; not after a
\* mode that changed between pin and save, a rollback that failed, or in the
\* middle of an upload.
CertificateSurvives ==
  [][restarts' # restarts /\ "tls" \notin crossed \cup adrift
       /\ (\A r \in Requests : pc[r] \notin {"read", "mode"})
     => served' = served]_vars

\* Handlers never wait for one another in a circle: a store's own mutex comes
\* before configFileMu and configFileMu before the manager's, never the other way
\* round, so that of the handlers that have begun one can go on.
NoLockout ==
  (\E r \in Requests : Begun(r)) =>
    \E r \in Requests : Begun(r) /\ \A l \in WaitsFor(r) : lock[l] \in {Free, r}

\* DESIGN.md: "the file is the truth for the two sections that need no
\* restart".  Reload runs after configFileMu is given back, so two texts can be
\* applied in the other order than they were saved.
FileIsTruth ==
  Quiet => \A k \in AlertKeys \cup {"sched"} : live[k] = file[k]
=============================================================================
