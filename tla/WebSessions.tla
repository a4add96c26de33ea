---------------------------- MODULE WebSessions ------------------------------
(***************************************************************************)
(* The sign-in state of the web server: the credential set in the config   *)
(* file and the copy in effect, the cookie sessions with their mirror      *)
(* file, sign-in, sign-out, the account changes and the upgrade of a       *)
(* legacy hash.                                                            *)
(*                                                                         *)
(* A request that changes credentials takes several steps, none of them    *)
(* under a common lock: Account.Update writes the config file, auth.Store  *)
(* puts the new set into effect, SetEpoch rewrites the session mirror      *)
(* under the new epoch, RevokeAllRename drops the other sessions.          *)
(*                                                                         *)
(* Keys stand for sha256 of the secret; a credential set is the form of    *)
(* its hash and a serial, because every PasswordHash has a fresh salt.     *)
(***************************************************************************)
EXTENDS Naturals, FiniteSets

CONSTANTS
  Requests,                \* requests that can be under way at the same time
  SessionTTL, RememberTTL, \* lifetimes of a session, in ticks
  SessionMax,
  MirrorFails,             \* whether the mirror files may be unwritable
  LegacyStart,             \* whether the stored hash has the old form
  MaxKeys, MaxCreds, MaxClock  \* bounds: secrets, credential sets, time

ASSUME SessionAssumption ==
  /\ SessionTTL \in Nat \ {0} /\ RememberTTL \in Nat \ {0}
  /\ SessionMax \in Nat \ {0}
  /\ {MirrorFails, LegacyStart} \subseteq BOOLEAN
  /\ {MaxKeys, MaxCreds, MaxClock} \subseteq Nat

VARIABLES
  clock,
  fileCred,  \* [web] user and password_hash in the config file
  auth,      \* Server.auth, the set in effect
  creds,     \* serials of credential sets used so far
  epoch,     \* sessionStore.epoch
  sessions,  \* sessionStore.byKey
  smirror,   \* sessions.json
  keys,      \* secrets minted so far
  request,   \* Requests -> the step each request is at
  out,       \* history: keys of sessions dropped by the store, and saved so
  behind,    \* history: sessions.json is behind the store after a failed write
  overlap    \* history: the credentials were written while another change was under way

credVars == <<fileCred, auth, creds>>
sessVars == <<epoch, sessions, smirror, behind>>
webVars == <<clock, credVars, sessVars, keys, request, out, overlap>>

KeysOf(S) == {s.key : s \in S}
Live(S) == {s \in S : s.expires > clock}

Idle == [at |-> "idle", kind |-> "none", key |-> 0, cred |-> 0]

\* CredentialEpoch.
CredentialEpoch(c) == c.serial

WebInit ==
  /\ clock = 0 /\ keys = 0 /\ creds = 1
  /\ fileCred = [serial |-> 1, legacy |-> LegacyStart] /\ auth = fileCred
  /\ epoch = 1 /\ sessions = {} /\ smirror = [epoch |-> 1, sessions |-> {}]
  /\ request = [r \in Requests |-> Idle]
  /\ out = {} /\ behind = FALSE /\ overlap = FALSE

WebTick ==
  /\ clock < MaxClock /\ clock' = clock + 1
  /\ UNCHANGED <<credVars, sessVars, keys, request, out, overlap>>

-----------------------------------------------------------------------------
(* The session store. *)

\* saveLocked: the mirror is replaced as a whole, or the store goes on in memory.
SaveSessions(e, S) ==
  /\ epoch' = e /\ sessions' = S
  /\ \/ /\ smirror' = [epoch |-> e, sessions |-> S] /\ behind' = FALSE
        /\ out' = out \cup (KeysOf(sessions) \ KeysOf(S))
     \/ MirrorFails /\ smirror' = smirror /\ behind' = TRUE /\ out' = out

KeepSessions == UNCHANGED <<sessVars, out>>

\* pruneLocked, then dropOldestLocked while the store is full.
RoomFor(S) ==
  IF Cardinality(S) < SessionMax THEN {S}
  ELSE {S \ {s} : s \in {x \in S : \A y \in S : x.created <= y.created}}

CreateSession(remember) ==
  /\ keys < MaxKeys /\ keys' = keys + 1
  /\ \E S \in RoomFor(Live(sessions)) :
       SaveSessions(epoch, S \cup
         {[key |-> keys', created |-> clock,
           expires |-> clock + (IF remember THEN RememberTTL ELSE SessionTTL)]})

\* Lookup, in the guard of every request with a cookie: an expired session is
\* deleted, a live one is touched: LastSeen, which is not kept here, and a save.
Lookup(s) ==
  /\ s \in sessions
  /\ \/ s.expires <= clock /\ SaveSessions(epoch, sessions \ {s})
     \/ s.expires > clock /\ SaveSessions(epoch, sessions)
  /\ UNCHANGED <<clock, credVars, keys, request, overlap>>

\* List, behind GET /api/account.
ListSessions ==
  /\ Live(sessions) # sessions /\ SaveSessions(epoch, Live(sessions))
  /\ UNCHANGED <<clock, credVars, keys, request, overlap>>

\* Mutant: the session is dropped in memory only.
RevokeUnsaved(S) ==
  /\ epoch' = epoch /\ sessions' = S /\ smirror' = smirror /\ behind' = TRUE
  /\ out' = out \cup (KeysOf(sessions) \ KeysOf(S))

Revoke(S) == IF S = sessions THEN KeepSessions ELSE SaveSessions(epoch, S)

Logout(s) ==
  /\ s \in sessions /\ Revoke(sessions \ {s})
  /\ UNCHANGED <<clock, credVars, keys, request, overlap>>

\* RevokeAll(keep); key 0 stands for a caller without a session.
Others(key) == {s \in sessions : s.key = key}

\* accountRevoke lists before and after, which prunes.
RevokeOthers(key) ==
  /\ Live(sessions) # {} /\ Revoke(Live(Others(key)))
  /\ UNCHANGED <<clock, credVars, keys, request, overlap>>

\* Mutant: the mirror keeps the epoch it was written under.
SetEpochUnsaved(e) ==
  epoch' = e /\ UNCHANGED <<sessions, smirror, behind, out>>

SetEpoch(e) == IF epoch = e THEN KeepSessions ELSE SaveSessions(e, sessions)

-----------------------------------------------------------------------------
(* Credentials. *)

At(r, step) == request[r].at = step
Goto(r, step) == request' = [request EXCEPT ![r].at = step]

\* A change is under way from its Account.Update to its last step.
Changing(r) == request[r].at \in {"store", "epoch", "revoke"}

\* login, and resolveCaller for a request with Basic credentials: credentialsOK
\* against the set in effect, then the upgrade of a legacy hash.
Login(r) ==
  /\ At(r, "idle") /\ keys < MaxKeys
  /\ request' = [request EXCEPT ![r] =
                   [Idle EXCEPT !.at = IF auth.legacy THEN "upgrade" ELSE "create",
                                !.kind = "login"]]
  /\ UNCHANGED <<clock, credVars, sessVars, keys, out, overlap>>

\* upgradeLegacyHash: upgradeMu is held from here to the end of the upgrade,
\* and the second look at the hash may find it upgraded.
UpgradeLegacyHash(r) ==
  /\ At(r, "upgrade")
  /\ \A q \in Requests \ {r} :
       ~(request[q].kind = "login" /\ request[q].at \in {"update", "store", "epoch"})
  /\ Goto(r, IF auth.legacy THEN "update" ELSE "create")
  /\ UNCHANGED <<clock, credVars, sessVars, keys, out, overlap>>

\* accountPassword and accountUser after verifyCurrent: both store a fresh hash.
ChangeAccount(r, key) ==
  /\ At(r, "idle") /\ creds < MaxCreds
  /\ key \in KeysOf(Live(sessions)) \cup {0}
  /\ request' = [request EXCEPT ![r] =
                   [Idle EXCEPT !.at = "update", !.kind = "account", !.key = key]]
  /\ UNCHANGED <<clock, credVars, sessVars, keys, out, overlap>>

\* accountStore.Update: the config file is saved, or the request fails.
Update(r) ==
  /\ At(r, "update")
  /\ \/ /\ creds < MaxCreds /\ creds' = creds + 1
        /\ fileCred' = [serial |-> creds', legacy |-> FALSE]
        /\ request' = [request EXCEPT ![r].at = "store", ![r].cred = creds']
        /\ overlap' = (overlap \/ \E q \in Requests : Changing(q))
     \/ /\ UNCHANGED <<fileCred, creds, overlap>>
        /\ request' = [request EXCEPT ![r] = IF @.kind = "login"
                                              THEN [@ EXCEPT !.at = "create"] ELSE Idle]
  /\ UNCHANGED <<clock, auth, sessVars, keys, out>>

StoreAuth(r) ==
  /\ At(r, "store")
  /\ auth' = [serial |-> request[r].cred, legacy |-> FALSE]
  /\ Goto(r, "epoch")
  /\ UNCHANGED <<clock, fileCred, creds, sessVars, keys, out, overlap>>

MoveEpoch(r) ==
  /\ At(r, "epoch")
  /\ SetEpoch(request[r].cred)
  /\ Goto(r, IF request[r].kind = "login" THEN "create" ELSE "revoke")
  /\ UNCHANGED <<clock, credVars, keys, overlap>>

\* RevokeAllRename: the caller's session stays, under the new name.
RevokeAllRename(r) ==
  /\ At(r, "revoke") /\ Revoke(Others(request[r].key))
  /\ request' = [request EXCEPT ![r] = Idle]
  /\ UNCHANGED <<clock, credVars, keys, overlap>>

FinishLogin(r, remember) ==
  /\ At(r, "create") /\ CreateSession(remember)
  /\ request' = [request EXCEPT ![r] = Idle]
  /\ UNCHANGED <<clock, credVars, overlap>>

\* A request with Basic credentials creates no session.
FinishBasic(r) ==
  /\ At(r, "create") /\ request' = [request EXCEPT ![r] = Idle]
  /\ UNCHANGED <<clock, credVars, sessVars, keys, out, overlap>>

\* n5-fangov passwd, PUT /api/config or an import writes the file; the set in
\* effect follows at the next start.
EditCredentials ==
  /\ creds < MaxCreds /\ creds' = creds + 1
  /\ fileCred' = [serial |-> creds', legacy |-> FALSE]
  /\ UNCHANGED <<clock, auth, sessVars, keys, request, out, overlap>>

\* sessionStore.load: a mirror of another epoch is dropped whole.
LoadedSessions ==
  IF smirror.epoch = CredentialEpoch(fileCred) THEN Live(smirror.sessions) ELSE {}

\* A stop, a crash or a restart at any step, and New.
WebRestart ==
  /\ auth' = fileCred /\ epoch' = CredentialEpoch(fileCred)
  /\ sessions' = LoadedSessions
  /\ request' = [r \in Requests |-> Idle]
  /\ behind' = FALSE /\ overlap' = FALSE
  /\ UNCHANGED <<clock, fileCred, creds, smirror, keys, out>>

WebNext ==
  \/ WebTick \/ ListSessions \/ EditCredentials \/ WebRestart
  \/ \E s \in sessions : Lookup(s) \/ Logout(s)
  \/ \E key \in KeysOf(Live(sessions)) \cup {0} : RevokeOthers(key)
  \/ \E r \in Requests :
       \/ Login(r) \/ UpgradeLegacyHash(r) \/ Update(r) \/ StoreAuth(r)
       \/ MoveEpoch(r) \/ RevokeAllRename(r) \/ FinishBasic(r)
       \/ \E key \in KeysOf(Live(sessions)) \cup {0} : ChangeAccount(r, key)
       \/ \E remember \in BOOLEAN : FinishLogin(r, remember)

WebSpec == WebInit /\ [][WebNext]_webVars

-----------------------------------------------------------------------------
\* A session signed out, revoked or evicted, and saved so, never comes back: not
\* by a touch of another session, a change of credentials or a restart.
SignedOutStaysOut == out \cap KeysOf(sessions) = {}

\* applyAccount: "the kept session is still loaded after the next restart", and
\* the upgrade of a legacy hash keeps them all: at rest, a restart loads exactly
\* the live sessions.  Excepted are a mirror that could not be written, a file
\* edited under the daemon, and two changes whose steps overlapped: then the set
\* in effect or the epoch can be that of the change the file no longer holds.
SessionsSurvive ==
  (~behind /\ ~overlap /\ auth = fileCred /\ \A r \in Requests : ~Changing(r)) =>
    KeysOf(LoadedSessions) = KeysOf(Live(sessions))
=============================================================================
