------------------------------ MODULE WebProofs -----------------------------
(***************************************************************************)
(* Proofs about web authentication: WebSessions, WebTokens and             *)
(* AuthLimiter, for any number of requests, tokens, attempts and           *)
(* addresses.                                                              *)
(*                                                                         *)
(* SessionsSurvive needs the mirror file at every step of a change, and    *)
(* how far the epoch may differ from the credentials in effect             *)
(* (MirrorTrue, OneChange). RateHonoured needs that a surplus is still     *)
(* missing in its bucket (Paid), so that a bucket that is dropped as full  *)
(* owes nothing.  SleepersCounted needs that a new entry is not one an     *)
(* attempt still knows, which is a counting argument (FreshIsFree).        *)
(***************************************************************************)
EXTENDS WebSessions, WebTokens, AuthLimiter, FiniteSetTheorems, TLAPS

-----------------------------------------------------------------------------
\* WebSessions.

\* The steps of a request.
Steps == {"idle", "upgrade", "update", "store", "epoch", "revoke", "create"}

\* Where a request is and what it carries.
RequestState ==
  [at : Steps, kind : {"none", "login", "account"}, key : Nat, cred : Nat]

\* The types the argument needs; no session has a key that was not given out.
SessionTypes ==
  /\ clock \in Nat /\ keys \in Nat /\ creds \in Nat
  /\ request \in [Requests -> RequestState]
  /\ \A s \in sessions \cup smirror.sessions :
       s.key \in Nat /\ s.key <= keys /\ s.expires \in Nat

\* A session that has ended is neither in memory nor in the mirror file: with the
\* mirror left out, a restart would bring it back.
OutIsOut ==
  \A n \in out : /\ n \in Nat /\ n <= keys
                 /\ n \notin KeysOf(sessions) /\ n \notin KeysOf(smirror.sessions)

\* Unless a write of it failed, the mirror has the live sessions and the epoch in
\* effect; or there is none and its epoch is another one, so that nothing loads.
MirrorTrue ==
  ~behind =>
    \/ /\ smirror.epoch = epoch
       /\ \A s \in sessions \cup smirror.sessions :
            s.expires > clock => (s \in sessions <=> s \in smirror.sessions)
    \/ sessions = {} /\ smirror.epoch # epoch

\* Unless two changes overlapped, at most one is under way, and the epoch is that
\* of the credentials in effect, except between auth.Store and SetEpoch.
OneChange ==
  ~overlap =>
    /\ \A r, q \in Requests : Changing(r) /\ Changing(q) => r = q
    /\ (\A r \in Requests : ~At(r, "epoch")) => epoch = auth.serial
    /\ \A r \in Requests : At(r, "epoch") => auth.serial = request[r].cred

\* The inductive invariant of WebSessions.
SessionInv == SessionTypes /\ OutIsOut /\ MirrorTrue /\ OneChange

\* A save of the sessions S under the epoch e, written or failed: at most one of
\* them is new, with a key of its own.
LEMMA SaveKeeps ==
  ASSUME SessionInv, NEW e, NEW S, SaveSessions(e, S), clock' = clock,
         keys' \in Nat, keys <= keys', request' \in [Requests -> RequestState],
         creds' = creds,
         \A s \in S :
           s \in sessions \/ (s.key = keys' /\ keys' = keys + 1 /\ s.expires \in Nat)
  PROVE  SessionTypes' /\ OutIsOut' /\ MirrorTrue'
<1>1. SessionTypes /\ OutIsOut
  BY DEF SessionInv
<1>2. \A s \in S : s.key \in Nat /\ s.key <= keys' /\ s.expires \in Nat
  BY <1>1 DEF SessionTypes
<1>3. \A n \in out : n \in Nat /\ n <= keys' /\ n \notin KeysOf(S)
  <2> SUFFICES ASSUME NEW n \in out PROVE n \in Nat /\ n <= keys' /\ n \notin KeysOf(S)
    OBVIOUS
  <2>1. n \in Nat /\ n <= keys /\ n \notin KeysOf(sessions)
    BY <1>1 DEF OutIsOut
  <2>2. n \in Nat /\ n <= keys'
    BY <2>1, <1>1 DEF SessionTypes
  <2>3. ASSUME NEW s \in S PROVE s.key # n
    BY <2>1, <1>1 DEF SessionTypes, KeysOf
  <2> QED
    BY <2>2, <2>3 DEF KeysOf
<1>4. CASE smirror' = [epoch |-> e, sessions |-> S] /\ behind' = FALSE
           /\ out' = out \cup (KeysOf(sessions) \ KeysOf(S))
  <2>1. smirror'.epoch = e /\ smirror'.sessions = S /\ sessions' = S /\ epoch' = e
    BY <1>4 DEF SaveSessions
  <2>2. \A n \in KeysOf(sessions) : n \in Nat /\ n <= keys'
    BY <1>1 DEF SessionTypes, KeysOf
  <2>3. SessionTypes'
    BY <1>1, <1>2, <2>1 DEF SessionTypes
  <2>4. OutIsOut'
    BY <1>3, <1>4, <2>1, <2>2 DEF OutIsOut, KeysOf
  <2>5. MirrorTrue'
    BY <2>1 DEF MirrorTrue
  <2> QED
    BY <2>3, <2>4, <2>5
<1>5. CASE smirror' = smirror /\ behind' = TRUE /\ out' = out
  <2>1. sessions' = S
    BY DEF SaveSessions
  <2>2. \A s \in smirror.sessions : s.key \in Nat /\ s.key <= keys' /\ s.expires \in Nat
    BY <1>1 DEF SessionTypes
  <2>3. SessionTypes'
    BY <1>1, <1>2, <1>5, <2>1, <2>2 DEF SessionTypes
  <2>4. OutIsOut'
    BY <1>1, <1>3, <1>5, <2>1 DEF OutIsOut, KeysOf
  <2>5. MirrorTrue'
    BY <1>5 DEF MirrorTrue
  <2> QED
    BY <2>3, <2>4, <2>5
<1> QED
  BY <1>4, <1>5 DEF SaveSessions

\* A step that leaves sessions and mirror alone.
LEMMA StillKeeps ==
  ASSUME SessionInv, KeepSessions, clock' = clock, keys' = keys, creds' = creds,
         request' \in [Requests -> RequestState]
  PROVE  SessionTypes' /\ OutIsOut' /\ MirrorTrue'
BY DEF SessionInv, KeepSessions, sessVars, SessionTypes, OutIsOut, MirrorTrue, KeysOf

\* A step that keeps the sessions S and ends the others.
LEMMA RevokeKeeps ==
  ASSUME SessionInv, NEW S, S \subseteq sessions, Revoke(S), clock' = clock, keys' = keys,
         creds' = creds, request' \in [Requests -> RequestState]
  PROVE  SessionTypes' /\ OutIsOut' /\ MirrorTrue'
<1>1. keys' \in Nat /\ keys <= keys'
  BY DEF SessionInv, SessionTypes
<1>2. CASE S = sessions
  BY <1>2, StillKeeps DEF Revoke
<1>3. CASE S # sessions
  BY <1>1, <1>3, SaveKeeps DEF Revoke
<1> QED
  BY <1>2, <1>3

\* A step that moves no request and no credentials.
LEMMA ChangeStill ==
  ASSUME OneChange, UNCHANGED <<request, epoch, auth, overlap>>
  PROVE  OneChange'
BY DEF OneChange, Changing, At

\* Request r is at one of the steps and no other request has moved.
Moved(r, steps) ==
  /\ request' \in [Requests -> RequestState] /\ request'[r].at \in steps
  /\ \A q \in Requests \ {r} : request'[q] = request[q]

\* One request is replaced.
LEMMA Replaced ==
  ASSUME request \in [Requests -> RequestState], NEW r \in Requests, NEW w \in RequestState,
         request' = [request EXCEPT ![r] = w]
  PROVE  Moved(r, {w.at}) /\ request'[r] = w
BY DEF Moved

\* A request that goes on keeps its credentials.
LEMMA StepReplaced ==
  ASSUME NEW w \in RequestState, NEW a \in Steps
  PROVE  /\ [w EXCEPT !.at = a] \in RequestState /\ [w EXCEPT !.at = a].at = a
         /\ [w EXCEPT !.at = a].cred = w.cred
BY DEF RequestState

\* A request that takes up new credentials.
LEMMA SerialReplaced ==
  ASSUME NEW w \in RequestState, NEW a \in Steps, NEW c \in Nat
  PROVE  /\ [w EXCEPT !.at = a, !.cred = c] \in RequestState
         /\ [w EXCEPT !.at = a, !.cred = c].at = a
BY DEF RequestState

\* The state before and after a request.
LEMMA IdleState == Idle \in RequestState /\ Idle.at = "idle"
BY DEF Idle, RequestState, Steps

\* The state in which a request begins.
LEMMA IdleReplaced ==
  ASSUME NEW a \in Steps, NEW k \in {"login", "account"}, NEW n \in Nat
  PROVE  /\ [Idle EXCEPT !.at = a, !.kind = k, !.key = n] \in RequestState
         /\ [Idle EXCEPT !.at = a, !.kind = k, !.key = n].at = a
         /\ [Idle EXCEPT !.at = a, !.kind = k] \in RequestState
         /\ [Idle EXCEPT !.at = a, !.kind = k].at = a
<1>1. [Idle EXCEPT !.at = a, !.kind = k, !.key = n] \in RequestState
  BY IdleState DEF RequestState
<1>2. [Idle EXCEPT !.at = a, !.kind = k] \in RequestState
  BY IdleState DEF RequestState
<1> QED
  BY <1>1, <1>2 DEF Idle

\* Moved is monotone in the steps.
LEMMA MovedMore ==
  ASSUME NEW r, NEW S, NEW T, S \subseteq T, Moved(r, S)
  PROVE  Moved(r, T)
BY DEF Moved

\* Goto moves one request.
LEMMA GotoMoves ==
  ASSUME request \in [Requests -> RequestState], NEW r \in Requests, NEW a \in Steps,
         Goto(r, a)
  PROVE  Moved(r, {a}) /\ request'[r].cred = request[r].cred
<1>1. request' = [request EXCEPT ![r] = [request[r] EXCEPT !.at = a]]
  BY DEF Goto
<1>2. request[r] \in RequestState
  OBVIOUS
<1>3. [request[r] EXCEPT !.at = a] \in RequestState /\ [request[r] EXCEPT !.at = a].at = a
      /\ [request[r] EXCEPT !.at = a].cred = request[r].cred
  BY <1>2, StepReplaced
<1> HIDE DEF RequestState
<1> QED
  BY <1>1, <1>3, Replaced

\* So does the start of a sign-in.
LEMMA LoginMoves ==
  ASSUME request \in [Requests -> RequestState], NEW r \in Requests, Login(r)
  PROVE  Moved(r, {"upgrade", "create"})
<1>1. CASE auth.legacy
  <2> DEFINE w == [Idle EXCEPT !.at = "upgrade", !.kind = "login"]
  <2>1. request' = [request EXCEPT ![r] = w]
    BY <1>1 DEF Login
  <2>2. w \in RequestState /\ w.at = "upgrade"
    BY IdleReplaced DEF Steps
  <2> HIDE DEF w
  <2>3. Moved(r, {w.at})
    BY <2>1, <2>2, Replaced
  <2> QED
    BY <2>2, <2>3, MovedMore
<1>2. CASE ~auth.legacy
  <2> DEFINE w == [Idle EXCEPT !.at = "create", !.kind = "login"]
  <2>1. request' = [request EXCEPT ![r] = w]
    BY <1>2 DEF Login
  <2>2. w \in RequestState /\ w.at = "create"
    BY IdleReplaced DEF Steps
  <2> HIDE DEF w
  <2>3. Moved(r, {w.at})
    BY <2>1, <2>2, Replaced
  <2> QED
    BY <2>2, <2>3, MovedMore
<1> QED
  BY <1>1, <1>2

\* Account.Update writes the file and notes an overlap, or fails.
LEMMA UpdateMoves ==
  ASSUME request \in [Requests -> RequestState], creds \in Nat, NEW r \in Requests,
         Update(r)
  PROVE  \/ /\ Moved(r, {"store"}) /\ creds' \in Nat
            /\ overlap' = (overlap \/ \E q \in Requests : Changing(q))
         \/ Moved(r, {"idle", "create"}) /\ creds' = creds /\ overlap' = overlap
<1>0. request[r] \in RequestState
  OBVIOUS
<1>1. CASE /\ creds' = creds + 1
           /\ request' = [request EXCEPT ![r].at = "store", ![r].cred = creds']
           /\ overlap' = (overlap \/ \E q \in Requests : Changing(q))
  <2> DEFINE w == [request[r] EXCEPT !.at = "store", !.cred = creds']
  <2>1. request' = [request EXCEPT ![r] = w]
    BY <1>1
  <2>2. creds' \in Nat
    BY <1>1
  <2>3. w \in RequestState /\ w.at = "store"
    BY <2>2, <1>0, SerialReplaced DEF Steps
  <2> HIDE DEF w
  <2> QED
    BY <2>1, <2>2, <2>3, <1>1, Replaced
<1>2. CASE /\ UNCHANGED <<fileCred, creds, overlap>>
           /\ request' = [request EXCEPT ![r] = IF @.kind = "login"
                                                THEN [@ EXCEPT !.at = "create"] ELSE Idle]
  <2>1. CASE request[r].kind = "login"
    <3> DEFINE w == [request[r] EXCEPT !.at = "create"]
    <3>1. request' = [request EXCEPT ![r] = w]
      BY <1>2, <2>1
    <3>2. w \in RequestState /\ w.at = "create"
      BY <1>0, StepReplaced DEF Steps
    <3> HIDE DEF w
    <3>3. Moved(r, {w.at})
      BY <3>1, <3>2, Replaced
    <3> QED
      BY <3>2, <3>3, <1>2, MovedMore
  <2>2. CASE request[r].kind # "login"
    <3>1. request' = [request EXCEPT ![r] = Idle]
      BY <1>2, <2>2
    <3>2. Moved(r, {Idle.at})
      BY <3>1, IdleState, Replaced
    <3> QED
      BY <3>2, <1>2, IdleState, MovedMore
  <2> QED
    BY <2>1, <2>2
<1> QED
  BY <1>1, <1>2 DEF Update

\* A step of a request that changes no credentials.
LEMMA QuietMove ==
  ASSUME OneChange, NEW r \in Requests, NEW S, Moved(r, S), ~At(r, "epoch"),
         S \cap {"store", "epoch", "revoke"} = {}, UNCHANGED <<epoch, auth, overlap>>
  PROVE  OneChange'
<1>1. \A q \in Requests \ {r} : request'[q] = request[q]
  BY DEF Moved
<1>2. request'[r].at \notin {"store", "epoch", "revoke"}
  BY DEF Moved
<1> QED
  BY <1>1, <1>2 DEF OneChange, Changing, At

\* Account.Update.
LEMMA UpdateKeeps ==
  ASSUME SessionInv, NEW r \in Requests, Update(r)
  PROVE  SessionInv'
<1>1. request \in [Requests -> RequestState] /\ creds \in Nat /\ OneChange
  BY DEF SessionInv, SessionTypes
<1>2. At(r, "update") /\ UNCHANGED <<clock, auth, sessVars, keys, out>>
  BY DEF Update
<1>3. epoch' = epoch /\ KeepSessions
  BY <1>2 DEF KeepSessions, sessVars
<1>4. CASE Moved(r, {"store"}) /\ creds' \in Nat
           /\ overlap' = (overlap \/ \E q \in Requests : Changing(q))
  <2>1. \A q \in Requests \ {r} : request'[q] = request[q]
    BY <1>4 DEF Moved
  <2>2. request'[r].at = "store" /\ request' \in [Requests -> RequestState]
    BY <1>4 DEF Moved
  <2>3. OneChange'
    BY <1>1, <1>2, <1>3, <1>4, <2>1, <2>2 DEF OneChange, Changing, At
  <2>4. SessionTypes' /\ OutIsOut' /\ MirrorTrue'
    BY <1>2, <1>3, <1>4, <2>2
    DEF SessionInv, KeepSessions, sessVars, SessionTypes, OutIsOut, MirrorTrue, KeysOf
  <2> QED
    BY <2>3, <2>4 DEF SessionInv
<1>5. CASE Moved(r, {"idle", "create"}) /\ creds' = creds /\ overlap' = overlap
  <2>1. request' \in [Requests -> RequestState]
    BY <1>5 DEF Moved
  <2>2. ~At(r, "epoch")
    BY <1>2 DEF At
  <2>3. OneChange'
    BY <1>1, <1>2, <1>3, <1>5, <2>2, QuietMove
  <2>4. SessionTypes' /\ OutIsOut' /\ MirrorTrue'
    BY <1>2, <1>3, <1>5, <2>1, StillKeeps
  <2> QED
    BY <2>3, <2>4 DEF SessionInv
<1> QED
  BY <1>1, <1>4, <1>5, UpdateMoves

\* auth.Store: from here to SetEpoch the epoch is that of the old credentials.
LEMMA StoreKeeps ==
  ASSUME SessionInv, NEW r \in Requests, StoreAuth(r)
  PROVE  SessionInv'
<1>1. request \in [Requests -> RequestState] /\ OneChange
  BY DEF SessionInv, SessionTypes
<1>2. /\ At(r, "store") /\ auth'.serial = request[r].cred /\ Goto(r, "epoch")
      /\ UNCHANGED <<clock, creds, sessVars, keys, out, overlap>>
  BY DEF StoreAuth
<1>3. epoch' = epoch /\ KeepSessions
  BY <1>2 DEF KeepSessions, sessVars
<1>4. Moved(r, {"epoch"}) /\ request'[r].cred = request[r].cred
  BY <1>1, <1>2, GotoMoves DEF Steps
<1>5. /\ request' \in [Requests -> RequestState] /\ request'[r].at = "epoch"
      /\ \A q \in Requests \ {r} : request'[q] = request[q]
  BY <1>4 DEF Moved
<1>6. OneChange'
  <2> SUFFICES ASSUME ~overlap
               PROVE  /\ \A p, q \in Requests : Changing(p)' /\ Changing(q)' => p = q
                      /\ ~(\A q \in Requests : ~At(q, "epoch")')
                      /\ \A q \in Requests :
                           At(q, "epoch")' => auth'.serial = request'[q].cred
    BY <1>2 DEF OneChange
  <2>1. \A q \in Requests \ {r} : ~Changing(q) /\ ~Changing(q)' /\ ~At(q, "epoch")'
    BY <1>1, <1>2, <1>5 DEF OneChange, Changing, At
  <2>2. At(r, "epoch")'
    BY <1>5 DEF At
  <2> QED
    BY <1>2, <1>4, <2>1, <2>2
<1>7. SessionTypes' /\ OutIsOut' /\ MirrorTrue'
  BY <1>2, <1>3, <1>5, StillKeeps
<1> QED
  BY <1>6, <1>7 DEF SessionInv

\* SetEpoch: the sessions in the mirror go with their epoch.
LEMMA EpochKeeps ==
  ASSUME SessionInv, NEW r \in Requests, MoveEpoch(r)
  PROVE  SessionInv'
<1> DEFINE a == IF request[r].kind = "login" THEN "create" ELSE "revoke"
<1>1. request \in [Requests -> RequestState] /\ OneChange /\ keys \in Nat /\ keys <= keys
  BY DEF SessionInv, SessionTypes
<1>2. /\ At(r, "epoch") /\ SetEpoch(request[r].cred) /\ Goto(r, a)
      /\ UNCHANGED <<clock, auth, creds, keys, overlap>>
  BY DEF MoveEpoch, credVars
<1>3. epoch' = request[r].cred
  BY <1>2 DEF SetEpoch, KeepSessions, SaveSessions, sessVars
<1>4. a \in {"create", "revoke"} /\ a \in Steps
  BY DEF Steps
<1> HIDE DEF a
<1>5. Moved(r, {a})
  BY <1>1, <1>2, <1>4, GotoMoves
<1>6. /\ request' \in [Requests -> RequestState] /\ request'[r].at = a
      /\ \A q \in Requests \ {r} : request'[q] = request[q]
  BY <1>5 DEF Moved
<1>7. OneChange'
  <2> SUFFICES ASSUME ~overlap
               PROVE  /\ \A p, q \in Requests : Changing(p)' /\ Changing(q)' => p = q
                      /\ epoch' = auth'.serial
                      /\ \A q \in Requests : ~At(q, "epoch")'
    BY <1>2 DEF OneChange
  <2>1. \A q \in Requests \ {r} : ~Changing(q) /\ ~Changing(q)' /\ ~At(q, "epoch")'
    BY <1>1, <1>2, <1>6 DEF OneChange, Changing, At
  <2>2. auth.serial = request[r].cred
    BY <1>1, <1>2 DEF OneChange
  <2>3. ~At(r, "epoch")'
    BY <1>4, <1>6 DEF At
  <2> QED
    BY <1>2, <1>3, <2>1, <2>2, <2>3
<1>8. SessionTypes' /\ OutIsOut' /\ MirrorTrue'
  <2>1. CASE epoch = request[r].cred
    BY <1>2, <1>6, <2>1, StillKeeps DEF SetEpoch
  <2>2. CASE epoch # request[r].cred
    <3>1. SaveSessions(request[r].cred, sessions)
      BY <1>2, <2>2 DEF SetEpoch
    <3> QED
      BY <1>1, <1>2, <1>6, <3>1, SaveKeeps
  <2> QED
    BY <2>1, <2>2
<1> QED
  BY <1>7, <1>8 DEF SessionInv

\* Making room for a session only removes some.
LEMMA RoomSubset ==
  ASSUME NEW T, NEW S \in RoomFor(T)
  PROVE  S \subseteq T
BY DEF RoomFor

\* A sign-in that creates a session, evicting the oldest at the limit.
LEMMA FinishKeeps ==
  ASSUME SessionInv, NEW r \in Requests, NEW remember \in BOOLEAN, FinishLogin(r, remember)
  PROVE  SessionInv'
<1> DEFINE ttl == IF remember THEN RememberTTL ELSE SessionTTL
           x == [key |-> keys', created |-> clock, expires |-> clock + ttl]
<1>1. /\ request \in [Requests -> RequestState] /\ OneChange
      /\ keys \in Nat /\ clock \in Nat
  BY DEF SessionInv, SessionTypes
<1>2. PICK S \in RoomFor(Live(sessions)) : SaveSessions(epoch, S \cup {x})
  BY DEF FinishLogin, CreateSession
<1>3. /\ At(r, "create") /\ request' = [request EXCEPT ![r] = Idle] /\ keys' = keys + 1
      /\ UNCHANGED <<clock, auth, creds, overlap>>
  BY DEF FinishLogin, CreateSession, credVars
<1>4. Moved(r, {Idle.at})
  BY <1>1, <1>3, IdleState, Replaced
<1>5. x.key = keys' /\ x.expires \in Nat
  <2>1. ttl \in Nat
    BY SessionAssumption
  <2> HIDE DEF ttl
  <2> QED
    BY <2>1, <1>1
<1> HIDE DEF x
<1>6. S \subseteq sessions
  BY <1>2, RoomSubset DEF Live
<1>7. SessionTypes' /\ OutIsOut' /\ MirrorTrue'
  <2>1. keys' \in Nat /\ keys <= keys'
    BY <1>1, <1>3
  <2>2. request' \in [Requests -> RequestState]
    BY <1>4 DEF Moved
  <2>3. \A s \in S \cup {x} :
          s \in sessions \/ (s.key = keys' /\ keys' = keys + 1 /\ s.expires \in Nat)
    BY <1>3, <1>5, <1>6
  <2> QED
    BY <1>2, <1>3, <2>1, <2>2, <2>3, SaveKeeps
<1>8. OneChange'
  <2>1. ~At(r, "epoch") /\ epoch' = epoch
    BY <1>2, <1>3 DEF At, SaveSessions
  <2> QED
    BY <1>1, <1>3, <1>4, <2>1, IdleState, QuietMove
<1> QED
  BY <1>7, <1>8 DEF SessionInv

\* The other steps of a request.
LEMMA RequestKeeps ==
  ASSUME SessionInv, NEW r \in Requests,
         \/ Login(r) \/ UpgradeLegacyHash(r) \/ RevokeAllRename(r) \/ FinishBasic(r)
         \/ \E key \in KeysOf(Live(sessions)) \cup {0} : ChangeAccount(r, key)
  PROVE  SessionInv'
<1>1. request \in [Requests -> RequestState] /\ OneChange
  BY DEF SessionInv, SessionTypes
<1>2. ASSUME NEW S, Moved(r, S), S \cap {"store", "epoch", "revoke"} = {}, ~At(r, "epoch"),
             UNCHANGED <<clock, auth, creds, keys, overlap>>, KeepSessions
      PROVE  SessionInv'
  <2>1. epoch' = epoch /\ request' \in [Requests -> RequestState]
    BY <1>2 DEF KeepSessions, sessVars, Moved
  <2>2. OneChange'
    BY <1>1, <1>2, <2>1, QuietMove
  <2>3. SessionTypes' /\ OutIsOut' /\ MirrorTrue'
    BY <1>2, <2>1, StillKeeps
  <2> QED
    BY <2>2, <2>3 DEF SessionInv
<1>3. CASE Login(r)
  <2>1. Moved(r, {"upgrade", "create"})
    BY <1>1, <1>3, LoginMoves
  <2> QED
    BY <1>2, <1>3, <2>1 DEF Login, At, credVars, KeepSessions
<1>4. CASE UpgradeLegacyHash(r)
  <2> DEFINE a == IF auth.legacy THEN "update" ELSE "create"
  <2>1. Goto(r, a) /\ ~At(r, "epoch")
    BY <1>4 DEF UpgradeLegacyHash, At
  <2>2. a \in Steps /\ {a} \cap {"store", "epoch", "revoke"} = {}
    BY DEF Steps
  <2>3. UNCHANGED <<clock, auth, creds, keys, overlap>> /\ KeepSessions
    BY <1>4 DEF UpgradeLegacyHash, credVars, KeepSessions
  <2> HIDE DEF a
  <2>4. Moved(r, {a})
    BY <1>1, <2>1, <2>2, GotoMoves
  <2> QED
    BY <1>2, <2>1, <2>2, <2>3, <2>4
<1>5. CASE RevokeAllRename(r)
  <2>1. /\ At(r, "revoke") /\ Revoke(Others(request[r].key))
        /\ request' = [request EXCEPT ![r] = Idle]
        /\ UNCHANGED <<clock, auth, creds, keys, overlap>>
    BY <1>5 DEF RevokeAllRename, credVars
  <2>2. Moved(r, {Idle.at})
    BY <1>1, <2>1, IdleState, Replaced
  <2>3. epoch' = epoch /\ ~At(r, "epoch")
    BY <2>1 DEF Revoke, SaveSessions, KeepSessions, sessVars, At
  <2>4. OneChange'
    BY <1>1, <2>1, <2>2, <2>3, IdleState, QuietMove
  <2>5. Others(request[r].key) \subseteq sessions /\ request' \in [Requests -> RequestState]
    BY <2>2 DEF Others, Moved
  <2>6. SessionTypes' /\ OutIsOut' /\ MirrorTrue'
    BY <2>1, <2>5, RevokeKeeps
  <2> QED
    BY <2>4, <2>6 DEF SessionInv
<1>6. ASSUME NEW key \in KeysOf(Live(sessions)) \cup {0}, ChangeAccount(r, key)
      PROVE  SessionInv'
  <2> DEFINE w == [Idle EXCEPT !.at = "update", !.kind = "account", !.key = key]
  <2>1. key \in Nat
    BY DEF SessionInv, SessionTypes, KeysOf, Live
  <2>2. w \in RequestState /\ w.at = "update"
    BY <2>1, IdleReplaced DEF Steps
  <2>3. /\ request' = [request EXCEPT ![r] = w] /\ At(r, "idle")
        /\ UNCHANGED <<clock, auth, creds, keys, overlap>> /\ KeepSessions
    BY <1>6 DEF ChangeAccount, credVars, KeepSessions
  <2> HIDE DEF w
  <2>4. Moved(r, {"update"}) /\ ~At(r, "epoch")
    BY <1>1, <2>2, <2>3, Replaced DEF At
  <2> QED
    BY <1>2, <2>3, <2>4
<1>7. CASE FinishBasic(r)
  <2>1. /\ request' = [request EXCEPT ![r] = Idle] /\ ~At(r, "epoch")
        /\ UNCHANGED <<clock, auth, creds, keys, overlap>> /\ KeepSessions
    BY <1>7 DEF FinishBasic, At, credVars, KeepSessions
  <2>2. Moved(r, {Idle.at}) /\ Idle.at \notin {"store", "epoch", "revoke"}
    BY <1>1, <2>1, IdleState, Replaced
  <2> QED
    BY <1>2, <2>1, <2>2
<1> QED
  BY <1>3, <1>4, <1>5, <1>6, <1>7

\* Every step keeps the invariant: handlers, the clock, an edit of the file, a
\* restart at any of their steps.
LEMMA SessionStep ==
  ASSUME SessionInv, [WebNext]_webVars
  PROVE  SessionInv'
<1>1. /\ SessionTypes /\ OneChange /\ request \in [Requests -> RequestState]
      /\ keys \in Nat /\ keys <= keys
  BY DEF SessionInv, SessionTypes
<1>2. ASSUME NEW S, S \subseteq sessions, SaveSessions(epoch, S) \/ Revoke(S),
             UNCHANGED <<clock, credVars, keys, request, overlap>>
      PROVE  SessionInv'
  <2>1. UNCHANGED <<request, epoch, auth, overlap>> /\ creds' = creds
    BY <1>2 DEF credVars, SaveSessions, Revoke, KeepSessions, sessVars
  <2>2. SessionTypes' /\ OutIsOut' /\ MirrorTrue'
    BY <1>1, <1>2, <2>1, SaveKeeps, RevokeKeeps
  <2> QED
    BY <1>1, <2>1, <2>2, ChangeStill DEF SessionInv
<1>3. CASE WebTick
  <2>1. UNCHANGED <<auth, creds, epoch, sessions, smirror, behind, keys, request, out,
                    overlap>>
    BY <1>3 DEF WebTick, credVars, sessVars
  <2>2. clock' = clock + 1
    BY <1>3 DEF WebTick
  <2>3. MirrorTrue'
    <3>1. \A s \in sessions \cup smirror.sessions : s.expires > clock' => s.expires > clock
      BY <1>1, <2>2 DEF SessionTypes
    <3> QED
      BY <2>1, <3>1 DEF SessionInv, MirrorTrue
  <2> QED
    BY <1>1, <2>1, <2>2, <2>3, ChangeStill DEF SessionInv, SessionTypes, OutIsOut, KeysOf
<1>4. CASE ListSessions
  BY <1>2, <1>4 DEF ListSessions, Live
<1>5. CASE EditCredentials
  <2>1. /\ UNCHANGED <<clock, auth, epoch, sessions, smirror, behind, keys, request, out,
                       overlap>>
        /\ creds' = creds + 1
    BY <1>5 DEF EditCredentials, sessVars
  <2> QED
    BY <1>1, <2>1, ChangeStill DEF SessionInv, SessionTypes, OutIsOut, MirrorTrue, KeysOf
<1>6. CASE WebRestart
  <2>1. /\ auth' = fileCred /\ epoch' = fileCred.serial /\ sessions' = LoadedSessions
        /\ request' = [r \in Requests |-> Idle] /\ behind' = FALSE
        /\ UNCHANGED <<clock, creds, smirror, keys, out>>
    BY <1>6 DEF WebRestart, CredentialEpoch
  <2>2. /\ smirror.epoch = fileCred.serial => sessions' = Live(smirror.sessions)
        /\ smirror.epoch # fileCred.serial => sessions' = {}
        /\ sessions' \subseteq smirror.sessions
    BY <2>1 DEF LoadedSessions, CredentialEpoch, Live
  <2>3. SessionTypes'
    BY <1>1, <2>1, <2>2, IdleState DEF SessionTypes
  <2>4. OutIsOut'
    BY <2>1, <2>2 DEF SessionInv, OutIsOut, KeysOf
  <2>5. MirrorTrue'
    BY <2>1, <2>2 DEF MirrorTrue, Live
  <2>6. OneChange'
    <3>1. \A r \in Requests : ~Changing(r)' /\ ~At(r, "epoch")'
      BY <2>1, IdleState DEF Changing, At
    <3> QED
      BY <2>1, <3>1 DEF OneChange
  <2> QED
    BY <2>3, <2>4, <2>5, <2>6 DEF SessionInv
<1>7. ASSUME NEW s \in sessions, Lookup(s) PROVE SessionInv'
  BY <1>2, <1>7 DEF Lookup
<1>8. ASSUME NEW s \in sessions, Logout(s) PROVE SessionInv'
  BY <1>2, <1>8 DEF Logout
<1>9. ASSUME NEW key \in KeysOf(Live(sessions)) \cup {0}, RevokeOthers(key)
      PROVE  SessionInv'
  <2>1. Live(Others(key)) \subseteq sessions
    BY DEF Live, Others
  <2> QED
    BY <1>2, <1>9, <2>1 DEF RevokeOthers
<1>10. ASSUME NEW r \in Requests,
              \/ Login(r) \/ UpgradeLegacyHash(r) \/ Update(r) \/ StoreAuth(r)
              \/ MoveEpoch(r) \/ RevokeAllRename(r) \/ FinishBasic(r)
              \/ \E key \in KeysOf(Live(sessions)) \cup {0} : ChangeAccount(r, key)
              \/ \E remember \in BOOLEAN : FinishLogin(r, remember)
       PROVE  SessionInv'
  BY <1>10, RequestKeeps, UpdateKeeps, StoreKeeps, EpochKeeps, FinishKeeps
<1>11. CASE UNCHANGED webVars
  <2>1. UNCHANGED <<clock, auth, creds, epoch, sessions, smirror, behind, keys, request,
                    out, overlap>>
    BY <1>11 DEF webVars, credVars, sessVars
  <2> QED
    BY <1>1, <2>1, ChangeStill DEF SessionInv, SessionTypes, OutIsOut, MirrorTrue, KeysOf
<1> QED
  BY <1>3, <1>4, <1>5, <1>6, <1>7, <1>8, <1>9, <1>10, <1>11 DEF WebNext

\* It holds throughout.
LEMMA SessionInvHolds == WebSpec => []SessionInv
<1>1. WebInit => SessionInv
  <2> SUFFICES ASSUME WebInit PROVE SessionInv
    OBVIOUS
  <2>1. SessionTypes
    BY IdleState DEF WebInit, SessionTypes
  <2>2. OutIsOut /\ MirrorTrue
    BY DEF WebInit, OutIsOut, MirrorTrue
  <2>3. OneChange
    <3>1. \A r \in Requests : ~Changing(r) /\ ~At(r, "epoch")
      BY IdleState DEF WebInit, Changing, At
    <3> QED
      BY <3>1 DEF WebInit, OneChange
  <2> QED
    BY <2>1, <2>2, <2>3 DEF SessionInv
<1> QED
  BY <1>1, SessionStep, PTL DEF WebSpec

\* SignedOutStaysOut: for any number of requests and restarts, a session that was
\* signed out, revoked or evicted and saved so never comes back (sessionStore).
THEOREM SignedOutStaysOutHolds == WebSpec => []SignedOutStaysOut
<1>1. SessionInv => SignedOutStaysOut
  BY DEF SessionInv, OutIsOut, SignedOutStaysOut
<1> QED
  BY <1>1, SessionInvHolds, PTL

\* SessionsSurvive: for any number of requests, a restart at rest loads exactly
\* the live sessions, with the exceptions the property names (applyAccount).
THEOREM SessionsSurviveHolds == WebSpec => []SessionsSurvive
<1>1. SessionInv => SessionsSurvive
  <2> SUFFICES ASSUME SessionInv, ~behind, ~overlap, auth = fileCred,
                      \A r \in Requests : ~Changing(r)
               PROVE  KeysOf(LoadedSessions) = KeysOf(Live(sessions))
    BY DEF SessionsSurvive
  <2>1. epoch = fileCred.serial
    <3>1. \A r \in Requests : ~At(r, "epoch")
      BY DEF Changing, At
    <3> QED
      BY <3>1 DEF SessionInv, OneChange
  <2>2. CASE smirror.epoch = epoch /\ \A s \in sessions \cup smirror.sessions :
               s.expires > clock => (s \in sessions <=> s \in smirror.sessions)
    <3>1. Live(smirror.sessions) = Live(sessions)
      BY <2>2 DEF Live
    <3> QED
      BY <2>1, <2>2, <3>1 DEF LoadedSessions, CredentialEpoch
  <2>3. CASE sessions = {} /\ smirror.epoch # epoch
    <3>1. LoadedSessions = {} /\ Live(sessions) = {}
      BY <2>1, <2>3 DEF LoadedSessions, CredentialEpoch, Live
    <3> QED
      BY <3>1
  <2> QED
    BY <2>2, <2>3 DEF SessionInv, MirrorTrue
<1> QED
  BY <1>1, SessionInvHolds, PTL

-----------------------------------------------------------------------------
\* WebTokens.

\* Max and Min of two numbers.
LEMMA MaxOf ==
  ASSUME NEW a \in Int
  PROVE  Max({a, 0}) = IF a >= 0 THEN a ELSE 0
<1>1. ASSUME NEW x \in {a, 0}, \A y \in {a, 0} : x >= y
      PROVE  x = IF a >= 0 THEN a ELSE 0
  BY <1>1
<1>2. \E x \in {a, 0} : \A y \in {a, 0} : x >= y
  OBVIOUS
<1> QED
  BY <1>1, <1>2 DEF Max

\* The same for Min.
LEMMA MinOf ==
  ASSUME NEW a \in Int, NEW b \in Int
  PROVE  Min({a, b}) = IF a <= b THEN a ELSE b
<1>1. ASSUME NEW x \in {a, b}, \A y \in {a, b} : x <= y
      PROVE  x = IF a <= b THEN a ELSE b
  BY <1>1
<1>2. \E x \in {a, b} : \A y \in {a, b} : x <= y
  OBVIOUS
<1> QED
  BY <1>1, <1>2 DEF Min

\* The keys a token can have.
TokenKeys == 1..MaxTokens

\* The types the argument needs; no bucket is above its burst or in the future.
TokenTypes ==
  /\ tnow \in Nat /\ minted \in Nat /\ minted <= MaxTokens
  /\ \A t \in tokens \cup tmirror : t.key \in TokenKeys
  /\ surplus \in [TokenKeys -> Nat]
  /\ DOMAIN bucket \subseteq TokenKeys
  /\ \A k \in DOMAIN bucket : /\ bucket[k].level \in Nat /\ bucket[k].level <= Burst
                              /\ bucket[k].last \in Nat /\ bucket[k].last <= tnow

\* What the bucket would hold if it were filled now and had no limit.
Filled(b, t) == b.level + (t - b.last) * Rate

\* What came through above the sustained rate is still missing in the bucket.
Paid ==
  \A k \in TokenKeys \ evicted :
    surplus[k] = 0 \/ (k \in DOMAIN bucket /\ surplus[k] + Filled(bucket[k], tnow) <= Burst)

\* The inductive invariant of WebTokens.
TokenInv == TokenTypes /\ Paid

\* It is a natural number.
LEMMA FilledType ==
  ASSUME TokenTypes, NEW k \in DOMAIN bucket
  PROVE  Filled(bucket[k], tnow) \in Nat
<1>1. bucket[k].level \in Nat /\ tnow - bucket[k].last \in Nat /\ Rate \in Nat
  BY RateAssumption DEF TokenTypes
<1>2. (tnow - bucket[k].last) * Rate \in Nat
  BY <1>1
<1> QED
  BY <1>1, <1>2 DEF Filled

\* The refill of allow gives at most that much, and at most the burst.
LEMMA RefilledIs ==
  ASSUME TokenTypes, NEW k \in DOMAIN bucket
  PROVE  /\ Refilled(bucket[k]) \in Nat
         /\ Refilled(bucket[k]) <= Burst /\ Refilled(bucket[k]) <= Filled(bucket[k], tnow)
<1>1. Filled(bucket[k], tnow) \in Int /\ Filled(bucket[k], tnow) \in Nat /\ Burst \in Nat
  BY FilledType, RateAssumption
<1>2. Refilled(bucket[k]) = Min({Filled(bucket[k], tnow), Burst})
  BY DEF Refilled, Filled
<1> QED
  BY <1>1, <1>2, MinOf

\* A bucket that pruneLocked may drop is full again, so its token owes nothing: a new
\* bucket with a whole burst gives nothing away.
LEMMA IdlePaid ==
  ASSUME TokenInv, NEW k \in Idles, k \notin evicted
  PROVE  surplus[k] = 0
<1> DEFINE d == tnow - bucket[k].last
<1>1. /\ d \in Nat /\ d > RateIdle /\ bucket[k].level \in Nat /\ surplus[k] \in Nat
      /\ k \in DOMAIN bucket /\ k \in TokenKeys
  BY DEF Idles, TokenInv, TokenTypes
<1>2. Rate \in Nat \ {0} /\ RateIdle \in Nat /\ Burst \in Nat /\ RateIdle * Rate >= Burst
  BY RateAssumption
<1>3. Filled(bucket[k], tnow) = bucket[k].level + d * Rate
  BY DEF Filled
<1> HIDE DEF d
<1>4. d * Rate >= (RateIdle + 1) * Rate
  BY <1>1, <1>2
<1>5. (RateIdle + 1) * Rate = RateIdle * Rate + Rate
  BY <1>2
<1>6. RateIdle * Rate \in Nat /\ d * Rate \in Nat
  BY <1>1, <1>2
<1>7. d * Rate > Burst
  <2> DEFINE x == d * Rate
             y == RateIdle * Rate
             z == (RateIdle + 1) * Rate
  <2>1. x >= z /\ z = y + Rate /\ y \in Nat /\ x \in Nat /\ y >= Burst
    BY <1>2, <1>4, <1>5, <1>6
  <2> HIDE DEF x, y, z
  <2>2. x > Burst
    BY <2>1, <1>2
  <2> QED
    BY <2>2 DEF x
<1>8. ~(surplus[k] + Filled(bucket[k], tnow) <= Burst)
  <2> DEFINE x == d * Rate
  <2>1. x \in Nat /\ x > Burst /\ Filled(bucket[k], tnow) = bucket[k].level + x
    BY <1>3, <1>6, <1>7
  <2> HIDE DEF x
  <2> QED
    BY <2>1, <1>1, <1>2
<1> QED
  BY <1>1, <1>8 DEF TokenInv, Paid

\* Pruning only drops buckets.
LEMMA PrunedSubset ==
  ASSUME NEW keep \in Pruned
  PROVE  keep \subseteq DOMAIN bucket
BY DEF Pruned

\* A request that is let through takes one from the bucket and owes one more.
LEMMA AllowKeeps ==
  ASSUME TokenInv, NEW k \in TokenKeys, NEW keep, keep \subseteq DOMAIN bucket,
         NEW level \in Nat, level <= Burst,
         k \in DOMAIN bucket => level <= Filled(bucket[k], tnow) /\ keep = DOMAIN bucket,
         Allow(k, keep, level), tnow' = tnow
  PROVE  /\ Paid' /\ surplus' \in [TokenKeys -> Nat] /\ DOMAIN bucket' \subseteq TokenKeys
         /\ \A q \in DOMAIN bucket' :
              /\ bucket'[q].level \in Nat /\ bucket'[q].level <= Burst
              /\ bucket'[q].last \in Nat /\ bucket'[q].last <= tnow
<1>1. /\ tnow \in Nat /\ Burst \in Nat \ {0} /\ Rate \in Nat \ {0}
      /\ surplus \in [TokenKeys -> Nat] /\ DOMAIN bucket \subseteq TokenKeys
  BY RateAssumption DEF TokenInv, TokenTypes
<1> DEFINE left == IF level < 1 THEN level ELSE level - 1
<1>2. left \in Nat /\ left <= Burst
  BY <1>1
<1>3. /\ DOMAIN bucket' = keep \cup {k}
      /\ bucket'[k] = [last |-> tnow, level |-> left]
      /\ \A q \in keep \ {k} : bucket'[q] = bucket[q]
  BY DEF Allow
<1>4. bucket'[k].last = tnow /\ bucket'[k].level = left
  BY <1>3
<1>5. \A q \in TokenKeys : surplus'[q] = IF q \in evicted' THEN 0
                                         ELSE IF q = k /\ level >= 1 THEN surplus[q] + 1
                                         ELSE surplus[q]
  BY <1>1 DEF Allow
<1>6. surplus' \in [TokenKeys -> Nat]
  <2>1. surplus' = [q \in TokenKeys |-> surplus'[q]]
    BY <1>1 DEF Allow
  <2>2. \A q \in TokenKeys : surplus'[q] \in Nat
    BY <1>1, <1>5
  <2> QED
    BY <2>1, <2>2
<1>7. ASSUME NEW q \in TokenKeys \ evicted'
      PROVE  surplus'[q] = 0 \/ (q \in DOMAIN bucket'
                 /\ surplus'[q] + Filled(bucket'[q], tnow') <= Burst)
  <2>1. q \notin evicted /\ (q \in DOMAIN bucket => q \in keep \/ q \in Idles)
    BY DEF Allow
  <2>2. surplus[q] = 0 \/ (q \in DOMAIN bucket
            /\ surplus[q] + Filled(bucket[q], tnow) <= Burst)
    BY <2>1 DEF TokenInv, Paid
  <2>3. CASE q = k
    <3>1. Filled(bucket'[k], tnow') = left
      <4>1. Filled(bucket'[k], tnow') = left + (tnow - tnow) * Rate
        BY <1>4 DEF Filled
      <4>2. (tnow - tnow) * Rate = 0
        BY <1>1
      <4> QED
        BY <4>1, <4>2, <1>2
    <3>2. surplus[k] = 0 \/ surplus[k] + level <= Burst
      <4>1. CASE surplus[k] = 0
        BY <4>1
      <4>2. CASE k \in DOMAIN bucket /\ surplus[k] + Filled(bucket[k], tnow) <= Burst
        <5>1. /\ Filled(bucket[k], tnow) \in Nat /\ level <= Filled(bucket[k], tnow)
              /\ surplus[k] \in Nat
          BY <1>1, <4>2, FilledType DEF TokenInv
        <5> QED
          BY <4>2, <5>1, <1>1
      <4> QED
        BY <2>2, <2>3, <4>1, <4>2
    <3>3. surplus[k] \in Nat
      BY <1>1
    <3>4. CASE level >= 1
      <4>1. surplus'[k] = surplus[k] + 1 /\ left = level - 1
        BY <1>5, <2>3, <3>4
      <4> QED
        BY <1>1, <1>3, <2>3, <3>1, <3>2, <3>3, <4>1
    <3>5. CASE ~(level >= 1)
      <4>1. surplus'[k] = surplus[k] /\ left = level
        BY <1>5, <2>3, <3>5
      <4> QED
        BY <1>1, <1>3, <2>3, <3>1, <3>2, <3>3, <4>1
    <3> QED
      BY <3>4, <3>5
  <2>4. CASE q # k
    <3>1. surplus'[q] = surplus[q]
      BY <1>5, <2>4
    <3>2. CASE q \in keep
      <4>1. Filled(bucket'[q], tnow') = Filled(bucket[q], tnow) /\ q \in DOMAIN bucket'
        BY <1>3, <2>4, <3>2 DEF Filled
      <4> QED
        BY <2>2, <3>1, <4>1
    <3>3. CASE q \in Idles
      BY <2>1, <3>1, <3>3, IdlePaid
    <3>4. CASE q \notin DOMAIN bucket
      BY <2>2, <3>1, <3>4
    <3> QED
      BY <2>1, <3>2, <3>3, <3>4
  <2> QED
    BY <2>3, <2>4
<1>8. Paid'
  BY <1>7 DEF Paid, TokenKeys
<1>9. DOMAIN bucket' \subseteq TokenKeys
  BY <1>1, <1>3
<1>10. ASSUME NEW q \in DOMAIN bucket'
       PROVE  /\ bucket'[q].level \in Nat /\ bucket'[q].level <= Burst
              /\ bucket'[q].last \in Nat /\ bucket'[q].last <= tnow
  <2>1. CASE q = k
    BY <1>1, <1>2, <1>4, <2>1
  <2>2. CASE q # k
    <3>1. q \in keep /\ q \in DOMAIN bucket /\ bucket'[q] = bucket[q]
      BY <1>3, <2>2
    <3> QED
      BY <3>1 DEF TokenInv, TokenTypes
  <2> QED
    BY <2>1, <2>2
<1> QED
  BY <1>6, <1>8, <1>9, <1>10

\* Time pays back at the rate the bucket fills with.
LEMMA TickPays ==
  ASSUME TokenInv, TokenTick
  PROVE  TokenInv'
<1>1. /\ tnow \in Nat /\ Burst \in Nat \ {0} /\ Rate \in Nat \ {0}
      /\ surplus \in [TokenKeys -> Nat]
  BY RateAssumption DEF TokenInv, TokenTypes
<1>2. /\ tnow' = tnow + 1 /\ UNCHANGED <<tokens, tmirror, minted, bucket, evicted>>
      /\ surplus' = [k \in TokenKeys |-> Max({surplus[k] - Rate, 0})]
  BY DEF TokenTick, TokenKeys
<1>3. \A k \in TokenKeys :
        surplus'[k] = IF surplus[k] - Rate >= 0 THEN surplus[k] - Rate ELSE 0
  BY <1>1, <1>2, MaxOf
<1>4. surplus' \in [TokenKeys -> Nat]
  <2>1. \A k \in TokenKeys : surplus'[k] \in Nat
    BY <1>1, <1>3
  <2> QED
    BY <1>2, <2>1
<1>5. TokenTypes'
  BY <1>1, <1>2, <1>4 DEF TokenInv, TokenTypes
<1>6. ASSUME NEW k \in TokenKeys \ evicted
      PROVE  surplus'[k] = 0 \/ (k \in DOMAIN bucket
                 /\ surplus'[k] + Filled(bucket'[k], tnow') <= Burst)
  <2>1. CASE surplus[k] - Rate >= 0 /\ surplus[k] # 0
    <3>1. k \in DOMAIN bucket /\ surplus[k] + Filled(bucket[k], tnow) <= Burst
      BY <2>1 DEF TokenInv, Paid
    <3>2. Filled(bucket'[k], tnow') = Filled(bucket[k], tnow) + Rate
      <4> DEFINE d == tnow - bucket[k].last
      <4>1. d \in Nat /\ bucket[k].level \in Nat
        BY <3>1 DEF TokenInv, TokenTypes
      <4>2. (tnow + 1) - bucket[k].last = d + 1
        BY <3>1, <1>1 DEF TokenInv, TokenTypes
      <4>3. (d + 1) * Rate = d * Rate + Rate
        BY <4>1, <1>1
      <4>4. d * Rate \in Nat
        BY <4>1, <1>1
      <4>5. Filled(bucket'[k], tnow') =
              bucket[k].level + ((tnow + 1) - bucket[k].last) * Rate
        BY <1>2 DEF Filled
      <4>6. Filled(bucket[k], tnow) = bucket[k].level + d * Rate
        BY DEF Filled
      <4> HIDE DEF d
      <4> DEFINE x == d * Rate
      <4>7. /\ Filled(bucket'[k], tnow') = bucket[k].level + (x + Rate)
            /\ Filled(bucket[k], tnow) = bucket[k].level + x /\ x \in Nat
        <5>1. Filled(bucket'[k], tnow') = bucket[k].level + (d + 1) * Rate
          BY <4>2, <4>5
        <5> QED
          BY <5>1, <4>3, <4>4, <4>6
      <4> HIDE DEF x
      <4> QED
        BY <4>1, <4>7, <1>1
    <3>3. Filled(bucket[k], tnow) \in Nat /\ surplus[k] \in Nat
      BY <3>1, <1>1, FilledType DEF TokenInv
    <3> QED
      BY <1>1, <1>3, <2>1, <3>1, <3>2, <3>3
  <2>2. CASE ~(surplus[k] - Rate >= 0 /\ surplus[k] # 0)
    <3>1. surplus[k] \in Nat
      BY <1>1
    <3> QED
      BY <1>1, <1>3, <2>2, <3>1
  <2> QED
    BY <2>1, <2>2
<1>7. Paid'
  BY <1>2, <1>6 DEF Paid, TokenKeys
<1> QED
  BY <1>5, <1>7 DEF TokenInv

\* Every step keeps the invariant.
LEMMA TokenStep ==
  ASSUME TokenInv, [TokenNext]_tokenVars
  PROVE  TokenInv'
<1>1. CASE TokenTick
  BY <1>1, TickPays
<1>2. CASE TokenRestart
  BY <1>2, RateAssumption DEF TokenRestart, TokenInv, TokenTypes, Paid, TokenKeys
<1>3. ASSUME NEW name, NEW expires, AddToken(name, expires) PROVE TokenInv'
  <2>1. /\ minted' = minted + 1 /\ minted < MaxTokens
        /\ UNCHANGED <<tnow, bucket, surplus, evicted>>
    BY <1>3 DEF AddToken
  <2>2. minted' \in TokenKeys
    BY <2>1, RateAssumption DEF TokenInv, TokenTypes, TokenKeys
  <2>3. \A t \in tokens' \cup tmirror' : t.key \in TokenKeys
    BY <1>3, <2>2 DEF AddToken, SaveTokens, TokenInv, TokenTypes
  <2>4. TokenTypes'
    BY <2>1, <2>2, <2>3, RateAssumption DEF TokenInv, TokenTypes, TokenKeys
  <2>5. Paid'
    BY <2>1 DEF TokenInv, Paid, Filled
  <2> QED
    BY <2>4, <2>5 DEF TokenInv
<1>4. ASSUME NEW t \in tokens, RevokeToken(t) PROVE TokenInv'
  <2>1. UNCHANGED <<tnow, minted, bucket, surplus, evicted>>
    BY <1>4 DEF RevokeToken
  <2>2. \A u \in tokens' \cup tmirror' : u.key \in TokenKeys
    BY <1>4 DEF RevokeToken, SaveTokens, TokenInv, TokenTypes
  <2>3. TokenTypes'
    BY <2>1, <2>2 DEF TokenInv, TokenTypes
  <2>4. Paid'
    BY <2>1 DEF TokenInv, Paid, Filled
  <2> QED
    BY <2>3, <2>4 DEF TokenInv
<1>5. ASSUME NEW t \in tokens, BearerRequest(t) PROVE TokenInv'
  <2>1. tnow' = tnow /\ minted' = minted
    BY <1>5 DEF BearerRequest
  <2>2. \A u \in tokens' \cup tmirror' : u.key \in TokenKeys
    BY <1>5 DEF BearerRequest, LookupToken, SaveTokens, TokenInv, TokenTypes
  <2>3. t.key \in TokenKeys /\ Burst \in Nat
    BY RateAssumption DEF TokenInv, TokenTypes
  <2>4. /\ Paid' /\ surplus' \in [TokenKeys -> Nat] /\ DOMAIN bucket' \subseteq TokenKeys
        /\ \A q \in DOMAIN bucket' :
             /\ bucket'[q].level \in Nat /\ bucket'[q].level <= Burst
             /\ bucket'[q].last \in Nat /\ bucket'[q].last <= tnow
    <3>1. CASE t.key \in DOMAIN bucket
      <4> DEFINE l == Refilled(bucket[t.key])
      <4>1. l \in Nat /\ l <= Burst /\ l <= Filled(bucket[t.key], tnow)
        BY <3>1, RefilledIs DEF TokenInv
      <4>2. Allow(t.key, DOMAIN bucket, l)
        BY <1>5, <3>1 DEF BearerRequest
      <4> HIDE DEF l
      <4> QED
        BY <2>1, <2>3, <4>1, <4>2, AllowKeeps
    <3>2. CASE t.key \notin DOMAIN bucket
      <4>1. PICK keep \in Pruned : Allow(t.key, keep, Burst)
        BY <1>5, <3>2 DEF BearerRequest
      <4>2. keep \subseteq DOMAIN bucket
        BY PrunedSubset
      <4>3. Burst <= Burst
        BY <2>3
      <4> QED
        BY <2>1, <2>3, <3>2, <4>1, <4>2, <4>3, AllowKeeps
    <3> QED
      BY <3>1, <3>2
  <2>5. TokenTypes'
    BY <2>1, <2>2, <2>4 DEF TokenInv, TokenTypes
  <2> QED
    BY <2>4, <2>5 DEF TokenInv
<1>6. CASE UNCHANGED tokenVars
  BY <1>6 DEF tokenVars, TokenInv, TokenTypes, Paid, Filled
<1> QED
  BY <1>1, <1>2, <1>3, <1>4, <1>5, <1>6 DEF TokenNext, CreateToken

\* RateHonoured: for every rate, burst, table size and number of tokens, no
\* stretch of time lets more than rate and burst through (tokenLimiter.allow).
THEOREM RateHonouredHolds == TokenSpec => []RateHonoured
<1>1. TokenInit => TokenInv
  BY RateAssumption DEF TokenInit, TokenInv, TokenTypes, Paid, TokenKeys
<1>2. TokenInv => RateHonoured
  <2> SUFFICES ASSUME TokenInv, NEW k \in 1..MaxTokens \ evicted
               PROVE  surplus[k] <= Burst
    BY DEF RateHonoured
  <2>1. surplus[k] \in Nat /\ Burst \in Nat
    BY RateAssumption DEF TokenInv, TokenTypes, TokenKeys
  <2>2. surplus[k] = 0 \/ (k \in DOMAIN bucket
            /\ surplus[k] + Filled(bucket[k], tnow) <= Burst)
    BY DEF TokenInv, Paid, TokenKeys
  <2>3. k \in DOMAIN bucket => Filled(bucket[k], tnow) \in Nat
    BY FilledType DEF TokenInv
  <2> QED
    BY <2>1, <2>2, <2>3
<1> QED
  BY <1>1, <1>2, TokenStep, PTL DEF TokenSpec

-----------------------------------------------------------------------------
\* AuthLimiter.

\* The attempts that sleep on entry e of an address.
Sleepers(at, addr, e) ==
  {a \in Attempts : at[a].at = "sleep" /\ at[a].addr = addr /\ at[a].entry = e}

\* Each entry of a table counts its sleepers, and none is without one.
Counted(sl, at) ==
  \A addr \in DOMAIN sl :
    sl[addr].n > 0 /\ sl[addr].n = Cardinality(Sleepers(at, addr, sl[addr].entry))

\* Where an attempt can be.
AttemptStages == {"idle", "passed", "hash", "checked", "sleep"}

\* The types the argument needs.
LimTypes ==
  /\ lnow \in Nat
  /\ attempt \in [Attempts -> [at : AttemptStages,
                               kind : CredentialKinds \cup {"none"},
                               addr : Addresses \cup {"none"}, entry : Nat]]
  /\ \A a \in Attempts : attempt[a].at # "idle" => attempt[a].kind \in CredentialKinds
  /\ sleeping \in [DOMAIN sleeping -> [n : Nat, entry : Nat]]

\* The tables of failures: finite, with times that are not in the future.
TablesRight ==
  /\ DOMAIN fails = CredentialKinds /\ fails = [k \in CredentialKinds |-> fails[k]]
  /\ \A k \in CredentialKinds :
       /\ IsFiniteSet(DOMAIN fails[k])
       /\ \A b \in DOMAIN fails[k] : fails[k][b].last \in Nat /\ fails[k][b].last <= lnow

\* The inductive invariant of AuthLimiter.
LimInv == LimTypes /\ TablesRight /\ SleepersCounted

\* They can be counted.
LEMMA SleepersFinite ==
  ASSUME NEW at, NEW addr, NEW e
  PROVE  IsFiniteSet(Sleepers(at, addr, e))
BY FS_Subset, LimitAssumption DEF Sleepers

\* SleepersCounted in these terms.
LEMMA CountedIsSleepers ==
  /\ SleepersCounted <=> Counted(sleeping, attempt)
  /\ SleepersCounted' <=> Counted(sleeping', attempt')
BY DEF SleepersCounted, Counted, Sleepers

\* An entry of the table is known to some attempt.
LEMMA EntryInUse ==
  ASSUME LimInv, NEW x \in DOMAIN sleeping
  PROVE  \E a \in Attempts : attempt[a].entry = sleeping[x].entry
<1>1. /\ sleeping[x].n > 0
      /\ sleeping[x].n = Cardinality(Sleepers(attempt, x, sleeping[x].entry))
  BY CountedIsSleepers DEF LimInv, Counted
<1>2. Sleepers(attempt, x, sleeping[x].entry) # {}
  <2>1. Cardinality({}) = 0
    BY FS_EmptySet
  <2> QED
    BY <1>1, <2>1
<1> QED
  BY <1>2 DEF Sleepers

\* A new entry is not one that an attempt still knows: there are more numbers
\* than attempts, as there are always fresh pointers.
LEMMA FreshIsFree ==
  ASSUME LimInv
  PROVE  FreshEntry \in Nat /\ \A a \in Attempts : attempt[a].entry # FreshEntry
<1> DEFINE N == Cardinality(Attempts)
           used == {attempt[a].entry : a \in Attempts}
<1>1. IsFiniteSet(Attempts) /\ N \in Nat
  BY LimitAssumption, FS_CardinalityType
<1>2. IsFiniteSet(used) /\ Cardinality(used) <= N
  <2> DEFINE f == [a \in Attempts |-> attempt[a].entry]
  <2>1. f \in Surjection(Attempts, used)
    BY DEF Surjection
  <2> QED
    BY <1>1, <2>1, FS_Surjection
<1>3. IsFiniteSet(1..N+1) /\ Cardinality(1..N+1) = N + 1
  BY <1>1, FS_Interval
<1>4. Cardinality(used) \in Nat
  BY <1>2, FS_CardinalityType
<1>5. ~(1..N+1 \subseteq used)
  <2>1. SUFFICES ASSUME 1..N+1 \subseteq used PROVE FALSE
    OBVIOUS
  <2>2. Cardinality(1..N+1) <= Cardinality(used)
    BY <2>1, <1>2, FS_Subset
  <2> HIDE DEF N, used
  <2> QED
    BY <2>2, <1>1, <1>2, <1>3, <1>4
<1>6. PICK e \in 1..N+1 : e \notin used
  BY <1>5
<1>7. /\ \A a \in Attempts : attempt[a].entry # e
      /\ \A x \in DOMAIN sleeping : sleeping[x].entry # e
  BY <1>6, EntryInUse
<1>8. FreshEntry \in 1..N+1 /\ \A a \in Attempts : attempt[a].entry # FreshEntry
  BY <1>6, <1>7 DEF FreshEntry
<1> QED
  BY <1>1, <1>8

\* An attempt that neither falls asleep nor wakes changes no count.
LEMMA CountedStill ==
  ASSUME Counted(sleeping, attempt), NEW a \in Attempts,
         attempt[a].at # "sleep", attempt'[a].at # "sleep",
         \A o \in Attempts \ {a} : attempt'[o] = attempt[o]
  PROVE  Counted(sleeping, attempt')
<1>1. ASSUME NEW addr, NEW e PROVE Sleepers(attempt', addr, e) = Sleepers(attempt, addr, e)
  BY DEF Sleepers
<1> QED
  BY <1>1 DEF Counted

\* Removing an entry leaves the others right: a success removes the entry of
\* attempts that are still asleep on it.
LEMMA CountedWithout ==
  ASSUME NEW sl, NEW at, NEW addr, Counted(sl, at)
  PROVE  Counted(Without(sl, addr), at)
BY DEF Counted, Without

\* An attempt falls asleep on the entry of its address, or on a new one that
\* nobody else can be asleep on.
LEMMA FallsAsleep ==
  ASSUME Counted(sleeping, attempt), NEW a \in Attempts, attempt[a].at # "sleep",
         NEW addr, NEW n \in Nat, NEW e,
         addr \in DOMAIN sleeping => n = sleeping[addr].n /\ e = sleeping[addr].entry,
         addr \notin DOMAIN sleeping => n = 0 /\ \A o \in Attempts : attempt[o].entry # e,
         attempt'[a].at = "sleep", attempt'[a].addr = addr, attempt'[a].entry = e,
         \A o \in Attempts \ {a} : attempt'[o] = attempt[o],
         NEW s, s.n = n + 1, s.entry = e
  PROVE  Counted(With(sleeping, addr, s), attempt')
<1> DEFINE sl == With(sleeping, addr, s)
<1>1. ASSUME NEW x \in DOMAIN sl, x # addr
      PROVE  sl[x].n > 0 /\ sl[x].n = Cardinality(Sleepers(attempt', x, sl[x].entry))
  <2>1. x \in DOMAIN sleeping /\ sl[x] = sleeping[x]
    BY <1>1 DEF With
  <2>2. Sleepers(attempt', x, sl[x].entry) = Sleepers(attempt, x, sl[x].entry)
    BY <1>1 DEF Sleepers
  <2> QED
    BY <2>1, <2>2 DEF Counted
<1>2. sl[addr] = s
  BY DEF With
<1>3. Sleepers(attempt', addr, e) = Sleepers(attempt, addr, e) \cup {a}
  BY DEF Sleepers
<1>4. a \notin Sleepers(attempt, addr, e)
  BY DEF Sleepers
<1>5. Cardinality(Sleepers(attempt, addr, e)) = n
  <2>1. CASE addr \in DOMAIN sleeping
    BY <2>1 DEF Counted
  <2>2. CASE addr \notin DOMAIN sleeping
    <3>1. Sleepers(attempt, addr, e) = {}
      BY <2>2 DEF Sleepers
    <3> QED
      BY <2>2, <3>1, FS_EmptySet
  <2> QED
    BY <2>1, <2>2
<1>6. Cardinality(Sleepers(attempt', addr, e)) = n + 1
  BY <1>3, <1>4, <1>5, SleepersFinite, FS_AddElement
<1>7. s.n > 0 /\ s.n = Cardinality(Sleepers(attempt', addr, s.entry))
  BY <1>6
<1> HIDE DEF sl
<1>8. Counted(sl, attempt')
  BY <1>1, <1>2, <1>7 DEF Counted
<1> QED
  BY <1>8 DEF sl

\* An attempt wakes and takes one off the entry it went to sleep on, if that is
\* still the one in the table; the last one removes it.
LEMMA WakesUp ==
  ASSUME LimInv, NEW a \in Attempts, Wake(a)
  PROVE  Counted(sleeping', attempt')
<1> DEFINE addr == attempt[a].addr   e == attempt[a].entry
<1>0. Counted(sleeping, attempt)
  BY CountedIsSleepers DEF LimInv
<1>1. /\ attempt[a].at = "sleep" /\ attempt'[a].at = "idle"
      /\ \A o \in Attempts \ {a} : attempt'[o] = attempt[o]
  BY DEF Wake, LimInv, LimTypes, Resting
<1>2. ASSUME NEW x, NEW f, x # addr \/ f # e
      PROVE  Sleepers(attempt', x, f) = Sleepers(attempt, x, f)
  BY <1>1, <1>2 DEF Sleepers
<1>3. CASE ~Mine(a)
  <2>1. sleeping' = sleeping
    BY <1>3 DEF Wake
  <2>2. \A x \in DOMAIN sleeping : x # addr \/ sleeping[x].entry # e
    BY <1>3 DEF Mine
  <2> QED
    BY <1>0, <1>2, <2>1, <2>2 DEF Counted
<1>4. CASE Mine(a) /\ sleeping[addr].n <= 1
  <2>1. sleeping' = Without(sleeping, addr)
    BY <1>4 DEF Wake
  <2>2. \A x \in DOMAIN sleeping' : x # addr /\ x \in DOMAIN sleeping
            /\ sleeping'[x] = sleeping[x]
    BY <2>1 DEF Without
  <2> QED
    BY <1>0, <1>2, <2>2 DEF Counted
<1>5. CASE Mine(a) /\ ~(sleeping[addr].n <= 1)
  <2>1. sleeping' = [sleeping EXCEPT ![addr].n = @ - 1]
    BY <1>5 DEF Wake
  <2>2. /\ addr \in DOMAIN sleeping /\ sleeping[addr].entry = e
        /\ sleeping[addr] \in [n : Nat, entry : Nat]
    BY <1>5 DEF Mine, LimInv, LimTypes
  <2>3. sleeping'[addr].n = sleeping[addr].n - 1 /\ sleeping'[addr].entry = e
    BY <2>1, <2>2
  <2>4. \A x \in DOMAIN sleeping' \ {addr} : x \in DOMAIN sleeping
            /\ sleeping'[x] = sleeping[x]
    BY <2>1
  <2>5. /\ Sleepers(attempt', addr, e) = Sleepers(attempt, addr, e) \ {a}
        /\ a \in Sleepers(attempt, addr, e)
    BY <1>1 DEF Sleepers
  <2>6. sleeping[addr].n = Cardinality(Sleepers(attempt, addr, e))
    BY <1>0, <2>2 DEF Counted
  <2>7. Cardinality(Sleepers(attempt', addr, e)) = sleeping[addr].n - 1
    BY <2>5, <2>6, SleepersFinite, FS_RemoveElement
  <2>8. sleeping[addr].n \in Nat /\ sleeping[addr].n > 1
    BY <1>5, <2>2
  <2>9. /\ sleeping'[addr].n > 0
        /\ sleeping'[addr].n = Cardinality(Sleepers(attempt', addr, sleeping'[addr].entry))
    BY <2>3, <2>7, <2>8
  <2>10. ASSUME NEW x \in DOMAIN sleeping', x # addr
         PROVE  /\ sleeping'[x].n > 0
                /\ sleeping'[x].n = Cardinality(Sleepers(attempt', x, sleeping'[x].entry))
    BY <1>0, <1>2, <2>4, <2>10 DEF Counted
  <2> QED
    BY <2>9, <2>10 DEF Counted
<1> QED
  BY <1>3, <1>4, <1>5

\* An attempt that was checked has a kind and an address.
LEMMA AttemptType ==
  ASSUME LimInv, NEW a \in Attempts, attempt[a].at = "checked"
  PROVE  /\ attempt[a].kind \in CredentialKinds
         /\ attempt[a].addr \in Addresses \cup {"none"}
BY DEF LimInv, LimTypes

\* An attempt at rest.
LEMMA RestingTyped ==
  Resting \in [at : AttemptStages, kind : CredentialKinds \cup {"none"},
               addr : Addresses \cup {"none"}, entry : Nat]
BY DEF Resting, AttemptStages

\* An attempt that comes to rest.
LEMMA RestKeepsTypes ==
  ASSUME LimInv, NEW a \in Attempts, attempt' = [attempt EXCEPT ![a] = Resting],
         sleeping' \in [DOMAIN sleeping' -> [n : Nat, entry : Nat]], lnow' = lnow
  PROVE  LimTypes'
<1>1. \A o \in Attempts : attempt'[o] = IF o = a THEN Resting ELSE attempt[o]
  BY DEF LimInv, LimTypes
<1>2. Resting.at = "idle"
  BY DEF Resting
<1>3. attempt' \in [Attempts -> [at : AttemptStages,
                                  kind : CredentialKinds \cup {"none"},
                                  addr : Addresses \cup {"none"}, entry : Nat]]
  BY RestingTyped DEF LimInv, LimTypes
<1>4. \A o \in Attempts : attempt'[o].at # "idle" => attempt'[o].kind \in CredentialKinds
  BY <1>1, <1>2 DEF LimInv, LimTypes
<1> QED
  BY <1>3, <1>4 DEF LimInv, LimTypes

\* pruneLocked only removes counts.
LEMMA RoomFinite ==
  ASSUME NEW t, IsFiniteSet(DOMAIN t), NEW b, NEW keep \in Room(t, b)
  PROVE  keep \subseteq DOMAIN t /\ IsFiniteSet(keep)
<1>1. keep \subseteq DOMAIN t
  BY DEF Room, Prune
<1> QED
  BY <1>1, FS_Subset

\* A failure writes its own count and makes room.
LEMMA FailTables ==
  ASSUME LimInv, NEW a \in Attempts, Fail(a)
  PROVE  TablesRight'
<1> DEFINE kind == attempt[a].kind
           b == Bucket(attempt[a].addr)
           n == Count(fails[kind], b)
<1>1. kind \in CredentialKinds /\ lnow' = lnow
  BY AttemptType DEF Fail
<1>2. PICK keep \in Room(fails[kind], b) :
        fails' = [fails EXCEPT ![kind] =
                    With([x \in keep |-> fails[kind][x]], b, [n |-> n, last |-> lnow])]
  BY DEF Fail
<1>3. IsFiniteSet(DOMAIN fails[kind])
  BY <1>1 DEF LimInv, TablesRight
<1>4. keep \subseteq DOMAIN fails[kind] /\ IsFiniteSet(keep)
  BY <1>2, <1>3, RoomFinite
<1>5. /\ DOMAIN fails' = CredentialKinds /\ fails' = [k \in CredentialKinds |-> fails'[k]]
      /\ \A k \in CredentialKinds \ {kind} : fails'[k] = fails[k]
      /\ fails'[kind] = With([x \in keep |-> fails[kind][x]], b, [n |-> n, last |-> lnow])
  BY <1>1, <1>2 DEF LimInv, TablesRight
<1>6. DOMAIN fails'[kind] = keep \cup {b}
  BY <1>5 DEF With
<1>7. IsFiniteSet(DOMAIN fails'[kind])
  BY <1>4, <1>6, FS_AddElement
<1>8. ASSUME NEW x \in DOMAIN fails'[kind]
      PROVE  fails'[kind][x].last \in Nat /\ fails'[kind][x].last <= lnow
  <2>1. CASE x = b
    <3>1. fails'[kind][x] = [n |-> n, last |-> lnow]
      BY <1>5, <2>1 DEF With
    <3>2. fails'[kind][x].last = lnow /\ lnow \in Nat
      BY <3>1 DEF LimInv, LimTypes
    <3> QED
      BY <3>2
  <2>2. CASE x # b
    <3>1. x \in DOMAIN fails[kind] /\ fails'[kind][x] = fails[kind][x]
      BY <1>4, <1>5, <1>6, <2>2 DEF With
    <3> QED
      BY <1>1, <3>1 DEF LimInv, TablesRight
  <2> QED
    BY <2>1, <2>2
<1> QED
  BY <1>1, <1>5, <1>7, <1>8 DEF LimInv, TablesRight

\* A success removes its own count.
LEMMA SucceedTables ==
  ASSUME LimInv, NEW a \in Attempts, Succeed(a)
  PROVE  TablesRight'
<1> DEFINE kind == attempt[a].kind
           b == Bucket(attempt[a].addr)
<1>1. kind \in CredentialKinds /\ lnow' = lnow
  BY AttemptType DEF Succeed
<1>2. fails' = [fails EXCEPT ![kind] = Without(fails[kind], b)]
  BY DEF Succeed
<1>3. /\ DOMAIN fails' = CredentialKinds /\ fails' = [k \in CredentialKinds |-> fails'[k]]
      /\ \A k \in CredentialKinds \ {kind} : fails'[k] = fails[k]
      /\ fails'[kind] = Without(fails[kind], b)
  BY <1>1, <1>2 DEF LimInv, TablesRight
<1>4. /\ DOMAIN fails'[kind] = DOMAIN fails[kind] \ {b}
      /\ \A x \in DOMAIN fails'[kind] : fails'[kind][x] = fails[kind][x]
  BY <1>3 DEF Without
<1>5. IsFiniteSet(DOMAIN fails[kind])
  BY <1>1 DEF LimInv, TablesRight
<1>6. IsFiniteSet(DOMAIN fails'[kind])
  BY <1>4, <1>5, FS_RemoveElement
<1> QED
  BY <1>1, <1>3, <1>4, <1>6 DEF LimInv, TablesRight

\* A failure, with the sleep it begins.
LEMMA FailStep ==
  ASSUME LimInv, NEW a \in Attempts, Fail(a)
  PROVE  LimInv'
<1> DEFINE addr == attempt[a].addr
           s == IF addr \in DOMAIN sleeping THEN sleeping[addr]
                ELSE [n |-> 0, entry |-> FreshEntry]
           s1 == [s EXCEPT !.n = @ + 1]
           n == Count(fails[attempt[a].kind], Bucket(addr))
<1>0. TablesRight'
  BY FailTables
<1>1. attempt[a].at = "checked" /\ lnow' = lnow /\ Counted(sleeping, attempt)
  BY CountedIsSleepers DEF Fail, LimInv
<1>2. CASE ~(n > LimitFree)
  <2>1. sleeping' = sleeping /\ attempt' = [attempt EXCEPT ![a] = Resting]
    BY <1>2 DEF Fail
  <2>2. attempt'[a].at # "sleep" /\ \A o \in Attempts \ {a} : attempt'[o] = attempt[o]
    BY <2>1 DEF LimInv, LimTypes, Resting
  <2>3. Counted(sleeping', attempt')
    BY <1>1, <2>1, <2>2, CountedStill
  <2>4. LimTypes'
    BY <1>1, <2>1, RestKeepsTypes DEF LimInv, LimTypes
  <2> QED
    BY <1>0, <2>3, <2>4, CountedIsSleepers DEF LimInv
<1>3. CASE n > LimitFree
  <2>1. /\ sleeping' = With(sleeping, addr, s1)
        /\ attempt' = [attempt EXCEPT ![a].at = "sleep", ![a].entry = s.entry]
    BY <1>3 DEF Fail
  <2>2. s \in [n : Nat, entry : Nat]
    BY FreshIsFree DEF LimInv, LimTypes
  <2>3. s1 \in [n : Nat, entry : Nat] /\ s1.n = s.n + 1 /\ s1.entry = s.entry
    BY <2>2
  <2>4. /\ attempt'[a].at = "sleep" /\ attempt'[a].addr = addr
        /\ attempt'[a].entry = s.entry
        /\ \A o \in Attempts \ {a} : attempt'[o] = attempt[o]
    BY <2>1 DEF LimInv, LimTypes
  <2>5. addr \in DOMAIN sleeping => s.n = sleeping[addr].n /\ s.entry = sleeping[addr].entry
    OBVIOUS
  <2>6. addr \notin DOMAIN sleeping =>
           s.n = 0 /\ \A o \in Attempts : attempt[o].entry # s.entry
    BY FreshIsFree
  <2>7. s.n \in Nat /\ s.entry \in Nat
    BY <2>2
  <2>9. sleeping' \in [DOMAIN sleeping' -> [n : Nat, entry : Nat]]
    BY <2>1, <2>3 DEF With, LimInv, LimTypes
  <2> HIDE DEF s, s1
  <2>8. Counted(sleeping', attempt')
    BY <1>1, <2>1, <2>3, <2>4, <2>5, <2>6, <2>7, FallsAsleep
  <2>10. attempt' \in [Attempts -> [at : AttemptStages,
                                   kind : CredentialKinds \cup {"none"},
                                   addr : Addresses \cup {"none"}, entry : Nat]]
    <3> DEFINE r == [attempt[a] EXCEPT !.at = "sleep", !.entry = s.entry]
    <3>1. attempt' = [attempt EXCEPT ![a] = r]
      BY <2>1
    <3>2. r \in [at : AttemptStages, kind : CredentialKinds \cup {"none"},
                 addr : Addresses \cup {"none"}, entry : Nat]
      BY <2>7 DEF LimInv, LimTypes, AttemptStages
    <3> HIDE DEF r
    <3> QED
      BY <3>1, <3>2 DEF LimInv, LimTypes
  <2>11. \A o \in Attempts : attempt'[o].at # "idle"
             => attempt'[o].kind \in CredentialKinds
    <3>1. attempt'[a].kind = attempt[a].kind
      BY <2>1 DEF LimInv, LimTypes
    <3>2. attempt[a].kind \in CredentialKinds
      BY <1>1, AttemptType
    <3> QED
      BY <2>4, <3>1, <3>2 DEF LimInv, LimTypes
  <2> QED
    BY <1>0, <1>1, <2>8, <2>9, <2>10, <2>11, CountedIsSleepers DEF LimInv, LimTypes
<1> QED
  BY <1>2, <1>3

\* Every step keeps the invariant.
LEMMA LimStep ==
  ASSUME LimInv, [LimNext]_limVars
  PROVE  LimInv'
<1>0. Counted(sleeping, attempt)
  BY CountedIsSleepers DEF LimInv
<1>1. CASE LimTick
  <2>1. /\ lnow \in Nat /\ lnow' = lnow + 1
        /\ UNCHANGED <<fails, sleeping, attempt>>
    BY <1>1 DEF LimTick, LimInv, LimTypes
  <2>2. TablesRight'
    BY <2>1 DEF LimInv, TablesRight
  <2>3. LimTypes'
    BY <2>1 DEF LimInv, LimTypes
  <2> QED
    BY <2>1, <2>2, <2>3 DEF LimInv, SleepersCounted
<1>2. ASSUME NEW a \in Attempts, NEW addr \in Addresses, NEW kind \in CredentialKinds,
             Arrive(a, addr, kind)
      PROVE  LimInv'
  <2> DEFINE stage == IF kind = "password" THEN "passed" ELSE "checked"
  <2>1. /\ attempt[a].at = "idle" /\ UNCHANGED <<lnow, fails, sleeping>>
        /\ attempt' = [attempt EXCEPT ![a] =
                         [at |-> stage, kind |-> kind, addr |-> addr, entry |-> 0]]
    BY <1>2 DEF Arrive
  <2>0. stage \in {"passed", "checked"}
    OBVIOUS
  <2> HIDE DEF stage
  <2>2. /\ attempt'[a].at = stage /\ attempt'[a].kind = kind /\ attempt'[a].at # "sleep"
        /\ \A o \in Attempts \ {a} : attempt'[o] = attempt[o]
    BY <2>0, <2>1 DEF LimInv, LimTypes
  <2>3. Counted(sleeping', attempt')
    BY <1>0, <2>1, <2>2, CountedStill
  <2>4. attempt' \in [Attempts -> [at : AttemptStages,
                                   kind : CredentialKinds \cup {"none"},
                                   addr : Addresses \cup {"none"}, entry : Nat]]
    BY <2>0, <2>1 DEF LimInv, LimTypes, AttemptStages
  <2>5. LimTypes'
    BY <2>1, <2>2, <2>4 DEF LimInv, LimTypes
  <2>6. TablesRight'
    BY <2>1 DEF LimInv, TablesRight
  <2> QED
    BY <2>3, <2>5, <2>6, CountedIsSleepers DEF LimInv
<1>3. ASSUME NEW a \in Attempts, Wake(a) PROVE LimInv'
  <2>1. /\ UNCHANGED <<lnow, fails>> /\ attempt' = [attempt EXCEPT ![a] = Resting]
    BY <1>3 DEF Wake
  <2>2. sleeping' \in [DOMAIN sleeping' -> [n : Nat, entry : Nat]]
    <3>1. CASE sleeping' = sleeping
      BY <3>1 DEF LimInv, LimTypes
    <3>2. CASE sleeping' = Without(sleeping, attempt[a].addr)
      BY <3>2 DEF LimInv, LimTypes, Without
    <3>3. CASE /\ Mine(a) /\ ~(sleeping[attempt[a].addr].n <= 1)
               /\ sleeping' = [sleeping EXCEPT ![attempt[a].addr].n = @ - 1]
      <4>1. /\ attempt[a].addr \in DOMAIN sleeping
            /\ sleeping[attempt[a].addr] \in [n : Nat, entry : Nat]
        BY <3>3 DEF Mine, LimInv, LimTypes
      <4>2. sleeping[attempt[a].addr].n - 1 \in Nat
        BY <3>3, <4>1
      <4> QED
        BY <3>3, <4>1, <4>2 DEF LimInv, LimTypes
    <3> QED
      BY <1>3, <3>1, <3>2, <3>3 DEF Wake
  <2>3. LimTypes'
    BY <2>1, <2>2, RestKeepsTypes
  <2>4. TablesRight'
    BY <2>1 DEF LimInv, TablesRight
  <2> QED
    BY <1>3, <2>3, <2>4, WakesUp, CountedIsSleepers DEF LimInv
<1>4. ASSUME NEW a \in Attempts, Succeed(a) PROVE LimInv'
  <2>1. /\ attempt[a].at = "checked" /\ lnow' = lnow
        /\ attempt' = [attempt EXCEPT ![a] = Resting]
        /\ sleeping' = sleeping \/ sleeping' = Without(sleeping, attempt[a].addr)
    BY <1>4 DEF Succeed
  <2>2. attempt'[a].at # "sleep" /\ \A o \in Attempts \ {a} : attempt'[o] = attempt[o]
    BY <2>1 DEF LimInv, LimTypes, Resting
  <2>3. Counted(sleeping, attempt')
    BY <1>0, <2>1, <2>2, CountedStill
  <2>4. Counted(sleeping', attempt')
    BY <2>1, <2>3, CountedWithout
  <2>5. sleeping' \in [DOMAIN sleeping' -> [n : Nat, entry : Nat]]
    <3>1. CASE sleeping' = sleeping
      BY <3>1 DEF LimInv, LimTypes
    <3>2. CASE sleeping' = Without(sleeping, attempt[a].addr)
      BY <3>2 DEF LimInv, LimTypes, Without
    <3> QED
      BY <2>1, <3>1, <3>2
  <2>6. LimTypes'
    BY <2>1, <2>5, RestKeepsTypes
  <2> QED
    BY <1>4, <2>4, <2>6, SucceedTables, CountedIsSleepers DEF LimInv
<1>5. CASE UNCHANGED limVars
  BY <1>5 DEF limVars, LimInv, LimTypes, TablesRight, SleepersCounted
<1>6. ASSUME NEW a \in Attempts, Acquire(a) \/ Release(a) PROVE LimInv'
  <2>1. /\ attempt[a].at \in {"passed", "hash"} /\ UNCHANGED <<lnow, fails, sleeping>>
        /\ \/ attempt' = [attempt EXCEPT ![a] = Resting]
           \/ \E x \in {"hash", "checked"} : attempt' = [attempt EXCEPT ![a].at = x]
    BY <1>6 DEF Acquire, Release
  <2>2. attempt'[a].at # "sleep" /\ \A o \in Attempts \ {a} : attempt'[o] = attempt[o]
    BY <2>1 DEF LimInv, LimTypes, Resting
  <2>3. Counted(sleeping', attempt')
    BY <1>0, <2>1, <2>2, CountedStill
  <2>4. TablesRight'
    BY <2>1 DEF LimInv, TablesRight
  <2>5. LimTypes'
    <3>1. CASE attempt' = [attempt EXCEPT ![a] = Resting]
      BY <2>1, <3>1, RestKeepsTypes DEF LimInv, LimTypes
    <3>2. ASSUME NEW x \in {"hash", "checked"}, attempt' = [attempt EXCEPT ![a].at = x]
          PROVE  LimTypes'
      BY <2>1, <3>2 DEF LimInv, LimTypes, AttemptStages
    <3> QED
      BY <2>1, <3>1, <3>2
  <2> QED
    BY <2>3, <2>4, <2>5, CountedIsSleepers DEF LimInv
<1>7. ASSUME NEW a \in Attempts, NEW p \in Presented[a], Arrive(a, p[1], p[2])
      PROVE  LimInv'
  <2>1. p[1] \in Addresses /\ p[2] \in CredentialKinds
    BY PresentedAssumption
  <2> QED
    BY <2>1, <1>2, <1>7
<1> QED
  BY <1>1, <1>3, <1>4, <1>5, <1>6, <1>7, FailStep DEF LimNext

\* It holds throughout.
LEMMA LimInvHolds == LimSpec => []LimInv
<1>1. LimInit => LimInv
  <2> SUFFICES ASSUME LimInit PROVE LimInv
    OBVIOUS
  <2>1. DOMAIN NoTable = {}
    BY DEF NoTable
  <2>2. LimTypes
    BY <2>1, RestingTyped DEF LimInit, LimTypes, Resting
  <2>3. TablesRight
    BY <2>1, FS_EmptySet DEF LimInit, TablesRight
  <2>4. SleepersCounted
    BY <2>1 DEF LimInit, SleepersCounted
  <2> QED
    BY <2>2, <2>3, <2>4 DEF LimInv
<1>2. LimInv /\ [LimNext]_limVars => LimInv'
  BY LimStep
<1> QED
  BY <1>1, <1>2, PTL DEF LimSpec

\* SleepersCounted: for any number of attempts and addresses, an entry counts the
\* attempts that sleep on it and goes with the last of them (failIn).
THEOREM SleepersCountedHolds == LimSpec => []SleepersCounted
<1>1. LimInv => SleepersCounted
  BY DEF LimInv
<1> QED
  BY <1>1, LimInvHolds, PTL

\* What pruneLocked removes though it is recent is the oldest of a full table.
LEMMA PrunedIsOldest ==
  ASSUME NEW t, IsFiniteSet(DOMAIN t), NEW b, NEW keep \in Room(t, b),
         NEW x \in DOMAIN t, x \notin keep, Recent(t[x])
  PROVE  /\ b \notin DOMAIN t
         /\ Cardinality(keep \cup {b}) >= LimitEntries
         /\ \A y \in keep : y \in DOMAIN t /\ t[x].last <= t[y].last
<1> DEFINE live == {y \in DOMAIN t : Recent(t[y])}
<1>1. b \notin DOMAIN t /\ keep \in Prune(t)
  BY DEF Room
<1>2. x \in live /\ live \subseteq DOMAIN t /\ b \notin live
  BY <1>1
<1>3. keep # live
  BY <1>2
<1>4. /\ ~(Cardinality(live) < LimitEntries)
      /\ keep \in {live \ {z} : z \in {u \in live : \A y \in live : t[u].last <= t[y].last}}
  BY <1>1, <1>3 DEF Prune
<1>5. /\ keep = live \ {x} /\ \A y \in live : t[x].last <= t[y].last
  BY <1>2, <1>4
<1> HIDE DEF live
<1>6. IsFiniteSet(live)
  BY <1>2, FS_Subset
<1>7. IsFiniteSet(keep) /\ Cardinality(keep) = Cardinality(live) - 1
  BY <1>2, <1>5, <1>6, FS_RemoveElement
<1>8. Cardinality(keep \cup {b}) = Cardinality(keep) + 1
  BY <1>2, <1>5, <1>7, FS_AddElement
<1>9. Cardinality(live) \in Nat /\ LimitEntries \in Nat
  BY <1>6, FS_CardinalityType, LimitAssumption
<1>10. Cardinality(keep \cup {b}) >= LimitEntries
  BY <1>4, <1>7, <1>8, <1>9
<1> QED
  BY <1>1, <1>2, <1>5, <1>10

\* A recent count disappears only by a success of its own, or that way.
LEMMA OldestStep ==
  ASSUME LimInv, [LimNext]_limVars,
         NEW k \in CredentialKinds, NEW b \in DOMAIN fails[k] \ DOMAIN fails'[k],
         Recent(fails[k][b])
  PROVE  \/ \E a \in Attempts : /\ attempt[a].kind = k /\ attempt'[a] = Resting
                                /\ Bucket(attempt[a].addr) = b
         \/ /\ Cardinality(DOMAIN fails'[k]) >= LimitEntries
            /\ \A x \in DOMAIN fails'[k] : fails'[k][x].last >= fails[k][b].last
<1>1. PICK a \in Attempts : Fail(a) \/ Succeed(a)
  BY DEF LimNext, limVars, LimTick, Arrive, Acquire, Release, Wake
<1>2. CASE Succeed(a)
  <2>1. /\ attempt[a].kind \in CredentialKinds
        /\ fails' = [fails EXCEPT ![attempt[a].kind] =
                       Without(fails[attempt[a].kind], Bucket(attempt[a].addr))]
        /\ attempt' = [attempt EXCEPT ![a] = Resting]
    BY <1>2, AttemptType DEF Succeed
  <2>2. k = attempt[a].kind
    BY <2>1 DEF LimInv, TablesRight
  <2>3. b = Bucket(attempt[a].addr)
    <3>1. fails'[k] = Without(fails[k], Bucket(attempt[a].addr))
      BY <2>1, <2>2 DEF LimInv, TablesRight
    <3> QED
      BY <3>1 DEF Without
  <2>4. attempt'[a] = Resting
    BY <2>1 DEF LimInv, LimTypes
  <2> QED
    BY <2>2, <2>3, <2>4
<1>3. CASE Fail(a)
  <2> DEFINE kind == attempt[a].kind
             c == Bucket(attempt[a].addr)
             n == Count(fails[kind], c)
  <2>1. kind \in CredentialKinds
    BY <1>3, AttemptType DEF Fail
  <2>2. PICK keep \in Room(fails[kind], c) :
          fails' = [fails EXCEPT ![kind] =
                      With([x \in keep |-> fails[kind][x]], c, [n |-> n, last |-> lnow])]
    BY <1>3 DEF Fail
  <2>3. /\ k = kind
        /\ fails'[k] = With([x \in keep |-> fails[k][x]], c, [n |-> n, last |-> lnow])
    BY <2>1, <2>2 DEF LimInv, TablesRight
  <2>4. DOMAIN fails'[k] = keep \cup {c} /\ b \notin keep
    BY <2>3 DEF With
  <2>5. IsFiniteSet(DOMAIN fails[k]) /\ keep \in Room(fails[k], c)
    BY <2>2, <2>3 DEF LimInv, TablesRight
  <2> HIDE DEF n, c, kind
  <2>6. /\ c \notin DOMAIN fails[k]
        /\ Cardinality(keep \cup {c}) >= LimitEntries
        /\ \A y \in keep : y \in DOMAIN fails[k] /\ fails[k][b].last <= fails[k][y].last
    BY <2>4, <2>5, PrunedIsOldest
  <2>7. fails[k][b].last \in Nat /\ fails[k][b].last <= lnow /\ lnow \in Nat
    BY DEF LimInv, LimTypes, TablesRight
  <2>8. ASSUME NEW x \in DOMAIN fails'[k]
        PROVE  fails'[k][x].last >= fails[k][b].last
    <3>1. CASE x = c
      <4>1. fails'[k][x] = [n |-> n, last |-> lnow]
        BY <2>3, <3>1 DEF With
      <4>2. fails'[k][x].last = lnow
        BY <4>1
      <4> QED
        BY <2>7, <4>2
    <3>2. CASE x # c
      <4>1. x \in keep /\ fails'[k][x] = fails[k][x]
        BY <2>3, <2>4, <3>2 DEF With
      <4>2. fails[k][x].last \in Nat
        BY <2>6, <4>1 DEF LimInv, TablesRight
      <4> QED
        BY <2>6, <2>7, <4>1, <4>2
    <3> QED
      BY <3>1, <3>2
  <2> QED
    BY <2>4, <2>6, <2>8
<1> QED
  BY <1>1, <1>2, <1>3

\* OldestGoes: for every table size and number of attempts, a count that still
\* runs is lost only to its own success or as the oldest of a full table
\* (pruneLocked).
THEOREM OldestGoesHolds == LimSpec => OldestGoes
<1>1. LimInv /\ [LimNext]_limVars =>
        [\A k \in CredentialKinds : \A b \in DOMAIN fails[k] \ DOMAIN fails'[k] :
           Recent(fails[k][b]) =>
             \/ \E a \in Attempts : /\ attempt[a].kind = k /\ attempt'[a] = Resting
                                    /\ Bucket(attempt[a].addr) = b
             \/ /\ Cardinality(DOMAIN fails'[k]) >= LimitEntries
                /\ \A x \in DOMAIN fails'[k] :
                     fails'[k][x].last >= fails[k][b].last]_limVars
  BY OldestStep
<1> QED
  BY <1>1, LimInvHolds, PTL DEF LimSpec, OldestGoes
=============================================================================
