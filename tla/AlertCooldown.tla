---------------------------- MODULE AlertCooldown ----------------------------
(***************************************************************************)
(* The cooldown of the alerts: Controller.raise with its stamps in memory  *)
(* and in the run directory, and stampAlert of serve, which knows the file *)
(* only.  Time passes as it really does; the wall clock may be stepped, a  *)
(* stamp may fail to be written, and the daemon or the machine is          *)
(* restarted.                                                              *)
(***************************************************************************)
EXTENDS Integers

CONSTANTS
  Kinds, StartKinds,  \* alert kinds; those that serve raises (stampAlert)
  Cools, StartCool,   \* values of alert_cooldown; startAlertCooldown
  Skews,              \* wall clock minus real time, after a step
  Never,              \* no stamp
  MaxTime             \* bound: real time

ASSUME CoolAssumption ==
  /\ StartKinds \subseteq Kinds /\ Cools \subseteq Nat /\ StartCool \in Nat
  /\ Skews \subseteq Int /\ 0 \in Skews /\ MaxTime \in Nat
ASSUME NeverAssumption == Never \notin Int

VARIABLES
  real,      \* time since the start of the model; the monotonic clock
  skew,      \* the wall clock is real + skew
  cool,      \* c.cfg.Daemon.AlertCooldown
  alertAt,   \* c.alertAt: when this process delivered the kind
  loaded,    \* c.alerts, as loadAlertStamps found it
  stamp,     \* RunDir/alert.<kind>, wall clock
  sentAt,    \* history: real time of the last delivery
  excused,   \* history: kinds whose stamp was not there, or not comparable,
             \* when the process that had delivered was gone
  silent     \* history: since when the kind has been suppressed

coolVars == <<real, skew, cool, alertAt, loaded, stamp, sentAt, excused, silent>>

Wall0 == real + skew
None == [k \in Kinds |-> Never]

CoolInit ==
  /\ real = 0 /\ skew = 0 /\ cool \in Cools
  /\ alertAt = None /\ loaded = None /\ stamp = None
  /\ sentAt = None /\ excused = {} /\ silent = None

\* Mutant: a stamp that lies in the future silences the kind.
WithinNotFuture(last, at, c) == at - last < c

\* A stamp in the future counts as expired.
Within(last, at, c) == at - last >= 0 /\ at - last < c

\* This process has delivered the kind: its own clock; a process before it has:
\* the file as it was at start.
Suppressed(k) ==
  IF k \in StartKinds
    THEN stamp[k] # Never /\ Within(stamp[k], Wall0, StartCool)
    ELSE \/ alertAt[k] # Never /\ Within(alertAt[k], real, cool)
         \/ alertAt[k] = Never /\ loaded[k] # Never /\ Within(loaded[k], Wall0, cool)

CoolOf(k) == IF k \in StartKinds THEN StartCool ELSE cool

\* Since when a raise would be suppressed; the kinds ks begin anew.
SilentFrom(ks) ==
  [k \in Kinds |-> IF ~Suppressed(k)' THEN Never
                   ELSE IF silent[k] = Never \/ k \in ks THEN real' ELSE silent[k]]

\* raise and stampAlert: the stamp is written before the delivery; a failed
\* write is logged.
Deliver(k) ==
  /\ ~Suppressed(k)
  /\ sentAt' = [sentAt EXCEPT ![k] = real]
  /\ \E written \in BOOLEAN :
       /\ stamp' = IF written THEN [stamp EXCEPT ![k] = Wall0] ELSE stamp
       /\ excused' = IF k \in StartKinds /\ ~written
                       THEN excused \cup {k} ELSE excused \ {k}
  /\ UNCHANGED <<real, skew, cool>>

Raise(k) ==
  /\ k \notin StartKinds
  /\ Deliver(k)
  /\ alertAt' = [alertAt EXCEPT ![k] = real]
  /\ loaded' = [loaded EXCEPT ![k] = Wall0]
  /\ silent' = SilentFrom({k})

StampAlert(k) ==
  /\ k \in StartKinds
  /\ Deliver(k)
  /\ UNCHANGED <<alertAt, loaded>>
  /\ silent' = SilentFrom({k})

Advance ==
  /\ real < MaxTime
  /\ real' = real + 1
  /\ UNCHANGED <<skew, cool, alertAt, loaded, stamp, sentAt, excused>>
  /\ silent' = SilentFrom({})

\* Kinds whose stamp on disk does not tell when they were delivered.
Unstamped == {k \in Kinds : sentAt[k] # Never /\ stamp[k] # sentAt[k] + skew}

\* NTP, the operator or a battery that ran down.
StepClock(s) ==
  /\ s # skew
  /\ skew' = s
  /\ UNCHANGED <<real, cool, alertAt, loaded, stamp, sentAt>>
  /\ excused' = excused \cup
       {k \in Kinds : sentAt[k] # Never /\ (k \in StartKinds \/ alertAt[k] = Never)}
  /\ silent' = SilentFrom(Kinds)

ReloadCool(c) ==
  /\ c # cool
  /\ cool' = c
  /\ UNCHANGED <<real, skew, alertAt, loaded, stamp, sentAt, excused>>
  /\ silent' = SilentFrom(Kinds)

\* Mutant: the stamps of the process before are not read.
LoadAlertStampsNot == None

LoadAlertStamps == stamp

CoolRestart ==
  /\ alertAt' = None /\ loaded' = LoadAlertStamps
  /\ excused' = excused \cup {k \in Kinds \ StartKinds : k \in Unstamped}
  /\ UNCHANGED <<real, skew, cool, stamp, sentAt>>
  /\ silent' = SilentFrom(Unstamped)

\* /run is gone.
Reboot ==
  /\ alertAt' = None /\ loaded' = None /\ stamp' = None
  /\ sentAt' = None /\ excused' = {} /\ silent' = None
  /\ UNCHANGED <<real, skew, cool>>

CoolNext ==
  \/ \E k \in Kinds : Raise(k) \/ StampAlert(k)
  \/ Advance \/ CoolRestart \/ Reboot
  \/ \E s \in Skews : StepClock(s)
  \/ \E c \in Cools : ReloadCool(c)

CoolSpec == CoolInit /\ [][CoolNext]_coolVars

-----------------------------------------------------------------------------
\* An alert of a kind is not repeated within its cooldown, over restarts of the
\* daemon ("so a restart does not repeat the alert") and, while the process that
\* delivered it lives, over steps of the wall clock.  Excused is what only the
\* stamp could know and the stamp was not written or the clock was stepped.
NotRepeated ==
  [][\A k \in Kinds :
       sentAt[k] # Never /\ sentAt'[k] # Never /\ sentAt'[k] # sentAt[k]
         => k \in excused \/ sentAt'[k] - sentAt[k] >= CoolOf(k)]_coolVars

\* Wherever the wall clock is stepped to, a kind is not suppressed for a whole
\* cooldown on end without an alert of it having been delivered.  A restart does
\* not prolong it, unless the stamp it reads was left by another clock.
NotSilenced ==
  \A k \in Kinds : silent[k] # Never => real - silent[k] < CoolOf(k)
=============================================================================
