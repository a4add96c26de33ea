----------------------------- MODULE CurveHold ------------------------------
(***************************************************************************)
(* What the first channel of the loop asks for in automatic mode           *)
(* (internal/control/controller.go): the check for a frozen sensor in      *)
(* readSensors, the curve at the hysteresis-held temperature, the min_on   *)
(* hold, the override, critical and the ceiling state in computeTargets,   *)
(* and what a reload does to the running state (applyPendingLocked).       *)
(*                                                                         *)
(* Regulation takes the outcome of this computation as any duty; here its  *)
(* memory is the subject, and the writes to the chip are left out.         *)
(***************************************************************************)
EXTENDS Integers, Sequences

CONSTANTS
  CurveTemps,     \* readings of the sensor, millidegrees
  CurveConfigs,   \* the configurations of the channel a reload may bring
  CurveOverrides, \* manual duties of SetOverride
  MaxCurveTime,   \* bound: the clock
  MaxSeen         \* bound: the readings the history keeps

VARIABLES
  stage,    \* the step of the cycle: begin, read, compute
  cnow,     \* opts.Now (monotonic)
  ccfg,     \* ch.cfg and the daemon's StaleCycles
  next,     \* c.pending: {} or the one accepted configuration
  ovr,      \* the channel's override, NoOverride when there is none
  temp,     \* ch.temp
  tempErr,  \* ch.sensorErr: none, read or frozen (none is ch.tempOK)
  equal,    \* c.lastRaw, c.haveRaw, c.sameRaw
  held,     \* ch.held, ch.heldOK
  last,     \* ch.lastCurve, ch.haveCurve
  hold,     \* ch.holding, holdTarget, holdStart, holdUntil
  hit,      \* ch.ceilHit
  goal,     \* ch.target
  cmode,    \* ch.mode
  seen,     \* history: the good readings since this sensor was installed
  auto,     \* history: the target of the cycle before, if automatic
  rises     \* history: the rises of the target whose min_on has not passed

frozenVars == <<temp, tempErr, equal>>
holdVars == <<held, last, hold, hit, goal, cmode>>
ghostVars == <<seen, auto, rises>>
curveVars == <<stage, cnow, ccfg, next, ovr, frozenVars, holdVars, ghostVars>>

-----------------------------------------------------------------------------
MaxDuty == 255
NoOverride == -1
NotAuto == -1                   \* no automatic target in the cycle before
StaleSensor == "k10temp"        \* staleSensor
Recover == 3                    \* ceilingRecover

\* config.Channel and Daemon.StaleCycles.  Hysteresis, critical and ceiling
\* are degrees, the curve is a list of <<degrees, duty>>.
CurveConfig ==
  [sensor : STRING, curve : Seq(Int \X (0..MaxDuty)), hysteresis : Nat,
   minOn : Nat, critical : Int, ceiling : Int, safe : 0..MaxDuty,
   staleCycles : Nat \ {0}]

ASSUME CurveTempsAssumption == CurveTemps \subseteq Int
ASSUME CurveConfigsAssumption ==
  CurveConfigs # {} /\ \A cc \in CurveConfigs : cc \in CurveConfig
ASSUME CurveOverridesAssumption == CurveOverrides \subseteq 0..MaxDuty
ASSUME CurveTimeAssumption ==
  /\ MaxCurveTime \in Nat /\ MaxSeen \in Nat
  /\ \A cc \in CurveConfigs : cc.staleCycles < MaxSeen

-----------------------------------------------------------------------------
\* ValidateCurve: the curves a configuration can have.
ValidCurve(curve) ==
  /\ Len(curve) \in 2..8
  /\ \A i \in 1..Len(curve) : curve[i][1] \in -20..120 /\ curve[i][2] \in 0..MaxDuty
  /\ \A i \in 2..Len(curve) : /\ curve[i - 1][1] < curve[i][1]
                              /\ curve[i - 1][2] <= curve[i][2]

\* The duty at t millidegrees between two points of the curve, rounded to the
\* nearest duty (clampDuty(int(v + 0.5)): duties are not negative).
Between(p, q, t) ==
  LET w == 1000 * (q[1] - p[1])
      v == p[2] * w + (t - 1000 * p[1]) * (q[2] - p[2])
  IN  IF w = 0 THEN q[2] ELSE (2 * v + w) \div (2 * w)

\* Interpolate: linear between the points, clamped to the first and last duty.
Interpolate(curve, t) ==
  LET k == Len(curve)
      reached == {i \in 1..k : t <= 1000 * curve[i][1]}
      i == CHOOSE j \in reached : \A h \in reached : j <= h
  IN  IF k = 0 THEN MaxDuty
      ELSE IF t <= 1000 * curve[1][1] THEN curve[1][2]
      ELSE IF t >= 1000 * curve[k][1] THEN curve[k][2]
      ELSE Between(curve[i - 1], curve[i], t)

\* The last MaxSeen of the readings s.
LastSeen(s) ==
  IF Len(s) <= MaxSeen THEN s ELSE SubSeq(s, Len(s) - MaxSeen + 1, Len(s))

Distance(a, b) == IF a < b THEN b - a ELSE a - b

\* heldTemp: the temperature the curve is evaluated at.
HeldTemp(t) ==
  IF ccfg.hysteresis = 0 \/ ~held.ok \/ Distance(t, held.temp) >= 1000 * ccfg.hysteresis
  THEN t ELSE held.temp

NoHold == [on |-> FALSE, duty |-> 0, start |-> 0, until |-> 0]
Ended(h) == [h EXCEPT !.on = FALSE]

\* Mutant: a further rise keeps the timer of the hold it raises.
HoldAfterTimer(curve) ==
  LET running == hold.on /\ cnow < hold.until
      rose == last.ok /\ curve > last.duty
  IN  IF ccfg.minOn = 0 THEN Ended(hold)
      ELSE IF rose /\ running /\ curve > hold.duty THEN [hold EXCEPT !.duty = curve]
      ELSE IF rose /\ ~running
      THEN [on |-> TRUE, duty |-> curve, start |-> cnow, until |-> cnow + ccfg.minOn]
      ELSE [hold EXCEPT !.on = running]

\* minOnHold, the hold after a cycle whose curve output is curve: a rise above
\* the output of the cycle before holds the higher value for min_on; one that
\* stays below a running hold changes nothing.
HoldAfter(curve) ==
  LET running == hold.on /\ cnow < hold.until
      rose == last.ok /\ curve > last.duty
  IN  IF ccfg.minOn = 0 THEN Ended(hold)
      ELSE IF rose /\ (~running \/ curve > hold.duty)
      THEN [on |-> TRUE, duty |-> curve, start |-> cnow, until |-> cnow + ccfg.minOn]
      ELSE [hold EXCEPT !.on = running]

\* minOnHold, its result: the held duty while it is above the curve.
Held(h, curve) == IF h.on /\ h.duty > curve THEN h.duty ELSE curve

\* retimeHolds: a changed min_on moves the end of a running hold.
Retimed(h, old, cc) ==
  IF ~h.on \/ cc.minOn = old.minOn THEN h
  ELSE IF cc.minOn = 0 THEN Ended(h)
  ELSE [h EXCEPT !.until = IF h.start + cc.minOn > cnow THEN h.start + cc.minOn ELSE cnow]

-----------------------------------------------------------------------------
CurveInit ==
  /\ stage = "begin" /\ cnow = 0
  /\ ccfg \in CurveConfigs /\ next = {} /\ ovr = NoOverride
  /\ temp = 0 /\ tempErr = "read"
  /\ equal = [value |-> 0, have |-> FALSE, same |-> 0]
  /\ held = [temp |-> 0, ok |-> FALSE]
  /\ last = [duty |-> 0, ok |-> FALSE]
  /\ hold = NoHold /\ hit = FALSE
  /\ goal = 0 /\ cmode = "auto"
  /\ seen = <<>> /\ auto = NotAuto /\ rises = {}

\* Apply: accepted while the loop waits; the last one before a cycle counts.
Apply(cc) ==
  /\ stage = "begin"
  /\ next' = {cc}
  /\ UNCHANGED <<stage, cnow, ccfg, ovr, frozenVars, holdVars, ghostVars>>

\* SetOverride and ClearOverride; a cycle copies the overrides at its start.
Override(d) ==
  /\ stage = "begin"
  /\ ovr' = d
  /\ UNCHANGED <<stage, cnow, ccfg, next, frozenVars, holdVars, ghostVars>>

\* Mutant: the counter of equal readings survives a change of the sensor.
EqualKept(changed) == equal

\* applyPendingLocked: a changed sensor of the first channel starts the count
\* of equal readings afresh.
EqualAfter(changed) ==
  IF changed THEN [equal EXCEPT !.have = FALSE, !.same = 0] ELSE equal

\* swapChannelConfig and retimeHolds for the configuration cc.
Swap(cc) ==
  LET changed == cc.sensor # ccfg.sensor IN
  /\ held' = IF changed THEN [held EXCEPT !.ok = FALSE] ELSE held
  /\ last' = IF changed THEN [last EXCEPT !.ok = FALSE] ELSE last
  /\ hold' = Retimed(IF changed THEN Ended(hold) ELSE hold, ccfg, cc)
  /\ hit' = (hit /\ ~changed)
  /\ equal' = EqualAfter(changed)
  /\ ccfg' = cc
  /\ seen' = IF changed THEN <<>> ELSE seen
  /\ auto' = IF changed THEN NotAuto ELSE auto
  /\ rises' = IF changed THEN {} ELSE rises

\* The start of a cycle: the accepted configuration is swapped in
\* (applyPendingLocked).
CycleBegins ==
  /\ stage = "begin" /\ stage' = "read"
  /\ cnow < MaxCurveTime
  /\ next' = {}
  /\ \/ next = {} /\ UNCHANGED <<ccfg, equal, held, last, hold, hit, ghostVars>>
     \/ \E cc \in next : Swap(cc)
  /\ UNCHANGED <<cnow, ovr, temp, tempErr, goal, cmode>>

\* readSensors, a reading that fails (unresolved, unreadable, implausible).
ReadBad ==
  /\ stage = "read" /\ stage' = "compute"
  /\ tempErr' = "read"
  /\ UNCHANGED <<cnow, ccfg, next, ovr, temp, equal, holdVars, ghostVars>>

\* The counter of equal readings after the reading t, for k10temp only.
Counted(t) ==
  IF ccfg.sensor # StaleSensor THEN equal
  ELSE [value |-> t, have |-> TRUE,
        same |-> IF equal.have /\ equal.value = t THEN equal.same + 1 ELSE 0]

Frozen(r) == ccfg.sensor = StaleSensor /\ r.same >= ccfg.staleCycles

\* readSensors, a plausible reading: good unless the sensor looks frozen.
ReadGood(t) ==
  /\ stage = "read" /\ stage' = "compute"
  /\ temp' = t /\ equal' = Counted(t)
  /\ tempErr' = IF Frozen(equal') THEN "frozen" ELSE "none"
  /\ seen' = LastSeen(Append(seen, t))
  /\ UNCHANGED <<cnow, ccfg, next, ovr, holdVars, auto, rises>>

\* applyCeiling: the state is entered at the ceiling, left 3 degrees below it.
CeilHit ==
  \/ temp >= 1000 * ccfg.ceiling
  \/ hit /\ temp >= 1000 * (ccfg.ceiling - Recover)

\* computeTargets without a temperature: the safe duty, or full speed inside a
\* ceiling episode; the held temperature and a running hold are dropped.
ComputeBlind(dt) ==
  /\ stage = "compute" /\ stage' = "begin" /\ tempErr # "none"
  /\ held' = [held EXCEPT !.ok = FALSE] /\ last' = [last EXCEPT !.ok = FALSE]
  /\ hold' = Ended(hold)
  /\ goal' = (IF hit THEN MaxDuty ELSE ccfg.safe) /\ cmode' = "sensor-error"
  /\ auto' = NotAuto /\ rises' = {}
  /\ cnow' = cnow + dt
  /\ UNCHANGED <<ccfg, next, ovr, frozenVars, hit, seen>>

\* computeTargets with one: curve and hold, then the override, critical and the
\* ceiling state.  The loop then waits for the next cycle (dt).
ComputeTarget(dt) ==
  LET at == HeldTemp(temp)
      curve == Interpolate(ccfg.curve, at)
      h == HoldAfter(curve)
      asked == Held(h, curve)
      manual == ovr # NoOverride
      plain == ~manual /\ ~CeilHit
  IN
  /\ stage = "compute" /\ stage' = "begin" /\ tempErr = "none"
  /\ held' = [temp |-> at, ok |-> TRUE]
  /\ last' = [duty |-> curve, ok |-> TRUE]
  /\ hold' = IF plain THEN h ELSE Ended(h)
  /\ hit' = CeilHit
  /\ \/ /\ CeilHit \/ temp >= 1000 * ccfg.critical
        /\ goal' = MaxDuty /\ cmode' = "critical"
     \/ /\ ~CeilHit /\ temp < 1000 * ccfg.critical
        /\ goal' = (IF manual THEN ovr ELSE asked)
        /\ cmode' = (IF manual THEN "manual" ELSE "auto")
  /\ auto' = IF plain THEN asked ELSE NotAuto
  /\ rises' = IF ~plain THEN {}
              ELSE {r \in rises : cnow < r.start + ccfg.minOn} \cup
                   (IF auto # NotAuto /\ asked > auto /\ ccfg.minOn > 0
                    THEN {[duty |-> asked, start |-> cnow]} ELSE {})
  /\ cnow' = cnow + dt
  /\ UNCHANGED <<ccfg, next, ovr, frozenVars, seen>>

CurveNext ==
  \/ \E cc \in CurveConfigs : Apply(cc)
  \/ \E d \in CurveOverrides \cup {NoOverride} : Override(d)
  \/ CycleBegins
  \/ ReadBad
  \/ \E t \in CurveTemps : ReadGood(t)
  \/ \E dt \in 1..2 : ComputeBlind(dt) \/ ComputeTarget(dt)

CurveSpec == CurveInit /\ [][CurveNext]_curveVars

-----------------------------------------------------------------------------
\* The last k good readings of the sensor in effect are one and the same.
SameFor(k) ==
  Len(seen) >= k /\ \A i \in 1..k : seen[Len(seen) + 1 - i] = seen[Len(seen)]

\* A k10temp that reads the same StaleCycles times in a row after a reading is
\* treated as frozen, and no other reading is: not one whose equal
\* predecessors came from a sensor a reload has since replaced, or brought
\* back (the counter of readSensors against the readings themselves).
FrozenNoticed ==
  stage = "compute" /\ ccfg.sensor = StaleSensor /\ tempErr # "read" =>
    (tempErr = "frozen" <=> SameFor(ccfg.staleCycles + 1))

\* A duty the target has risen to is kept for min_on: through any sequence of
\* falling and rising temperatures, further rises and reloads of curve,
\* hysteresis and min_on, the target does not fall below it before
\* start + min_on, unless the sensor failed or was replaced, an override took
\* over or a ceiling episode began.
HoldHonoured ==
  stage = "begin" => \A r \in rises : goal >= r.duty
=============================================================================
