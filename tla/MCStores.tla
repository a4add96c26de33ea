------------------------------ MODULE MCStores ------------------------------
(***************************************************************************)
(* One instance of every component that shares no state with the others.   *)
(* A behaviour takes the steps of one of them (focus) and leaves the rest  *)
(* in an initial state: the components have no variable in common, so every *)
(* behaviour of one is a behaviour here, and no product is explored.       *)
(***************************************************************************)
EXTENDS MCScheduler, AlertCooldown, AlertHistory, WebSessions, WebTokens,
        AuthLimiter, LogFile, HistoryStore, CertFiles, ValidateRun, CurveHold,
        SensorPath, Verdicts

VARIABLE focus    \* the component whose steps are taken

-----------------------------------------------------------------------------
MCCools == {1, 2}
MCSkews == {-2, 0}

\* Three addresses, each a bucket of its own.  One caller tries passwords from two
\* of them; the third address tries both kinds of credential at once.
MCBucket(a) == a
MCPresented ==
  [t \in Attempts |->
     CASE t = "t1" -> {"a2", "a3"} \X {"password"}
       [] t = "t2" -> {"a1"} \X CredentialKinds
       [] t = "t3" -> {<<"a1", "password">>}]

\* The listen address changes once.
MCHostEdits == {<<{"a"}, {"b"}>>}

MCTiers == [min1 |-> [bucket |-> 2, span |-> 6, capacity |-> 3]]

\* Two curves that cross, with and without hysteresis; critical and ceiling are
\* within the readings; one sensor the frozen check does not look at.
CurveOf(s, c, h, m, k, x) ==
  [sensor |-> s, curve |-> c, hysteresis |-> h, minOn |-> m, critical |-> 60,
   ceiling |-> x, safe |-> 140, staleCycles |-> k]
Flat == <<<<40, 60>>, <<60, 100>>>>
Steep == <<<<40, 80>>, <<60, 90>>, <<80, 200>>>>
MCCurveConfigs ==
  {CurveOf("k10temp", Flat, 0, 2, 2, 65), CurveOf("k10temp", Steep, 15, 3, 2, 60),
   CurveOf("nvme:max", Flat, 0, 0, 1, 100)}

\* The watched hwmon id names a directory; an NVMe has no such file.
PartOf(rule, name) == [rule |-> rule, name |-> name, dir |-> EcDir, holders |-> {}]
MCPartRule ==
  [p \in {"k10temp", "nvme:max", "disk:sda", "ec:cpu", "hwmon:hwmon1:temp3"} |->
     CASE p = "k10temp" -> PartOf("first", "k10temp")
       [] p = "nvme:max" -> PartOf("all", "nvme")
       [] p = "disk:sda" -> PartOf("disk", "sda")
       [] p = "ec:cpu" -> PartOf("fixed", "ec")
       [] p = "hwmon:hwmon1:temp3" ->
            [rule |-> "hwmon", name |-> "hwmon1", dir |-> 1, holders |-> {"k10temp"}]]
MCSensorConfigs ==
  {[parts |-> <<"k10temp", "ec:cpu">>, ceiling |-> 0],
   [parts |-> <<"nvme:max", "disk:sda">>, ceiling |-> 70]}

\* At first the NVMe is not there.
StartTree == (EcDir :> "ec") @@ (1 :> "k10temp") @@ (2 :> Absent) @@ (11 :> "ssd")

-----------------------------------------------------------------------------
Components ==
  {"schedule", "cooldown", "alerts", "sessions", "tokens", "limiter", "log",
   "history", "certificate", "validate", "curve", "sensor", "verdicts"}

\* Where a component that is not looked at stands: one of its initial states.
\* The first certificate names and the first sensor are fixed; an edit changes them.
Pinned(f) ==
  /\ IF f = "schedule" THEN TRUE
     ELSE zone = Zone(0, 0, 0) /\ entries = <<>> /\ curves = "day"
  /\ IF f = "cooldown" THEN TRUE ELSE cool = 1
  /\ IF f = "alerts" THEN TRUE ELSE sink = Effective("off")
  /\ IF f = "history" THEN TRUE ELSE rawCap = 2
  /\ hosts = {"a"}
  /\ IF f = "curve" THEN TRUE ELSE ccfg = CurveOf("k10temp", Flat, 0, 2, 2, 65)
  /\ IF f = "sensor" THEN tree = StartTree
     ELSE tree = [d \in Directories |-> IF d = EcDir THEN "ec" ELSE Absent]
  /\ scfg = [parts |-> <<"k10temp", "ec:cpu">>, ceiling |-> 0]
  /\ IF f = "verdicts" THEN TRUE
     ELSE sub = NoSub /\ mapping = [tach |-> TRUE, noisy |-> FALSE, ref |-> 9, samples |-> <<>>]

Init ==
  /\ focus \in Components /\ Pinned(focus)
  /\ SchedInit /\ CoolInit /\ HistInit /\ WebInit /\ TokenInit /\ LimInit /\ LogInit
  /\ HistStoreInit /\ CertInit /\ ValidateInit /\ CurveInit /\ SensorInit
  /\ VerdictInit
  /\ sub.ref # 12 /\ mapping.ref # 12    \* a table input comes from below its step

allVars ==
  <<schedVars, coolVars, histVars, webVars, tokenVars, limVars, logVars,
    histStoreVars, certVars, validateVars, curveVars, sensorVars, verdictVars>>

\* The components that are not looked at stand still.
OthersStay ==
  /\ UNCHANGED focus
  /\ IF focus = "schedule" THEN TRUE ELSE UNCHANGED schedVars
  /\ IF focus = "cooldown" THEN TRUE ELSE UNCHANGED coolVars
  /\ IF focus = "alerts" THEN TRUE ELSE UNCHANGED histVars
  /\ IF focus = "sessions" THEN TRUE ELSE UNCHANGED webVars
  /\ IF focus = "tokens" THEN TRUE ELSE UNCHANGED tokenVars
  /\ IF focus = "limiter" THEN TRUE ELSE UNCHANGED limVars
  /\ IF focus = "log" THEN TRUE ELSE UNCHANGED logVars
  /\ IF focus = "history" THEN TRUE ELSE UNCHANGED histStoreVars
  /\ IF focus = "certificate" THEN TRUE ELSE UNCHANGED certVars
  /\ IF focus = "validate" THEN TRUE ELSE UNCHANGED validateVars
  /\ IF focus = "curve" THEN TRUE ELSE UNCHANGED curveVars
  /\ IF focus = "sensor" THEN TRUE ELSE UNCHANGED sensorVars
  /\ IF focus = "verdicts" THEN TRUE ELSE UNCHANGED verdictVars

Next ==
  /\ \/ focus = "schedule" /\ SchedNext
     \/ focus = "cooldown" /\ CoolNext
     \/ focus = "alerts" /\ HistNext
     \/ focus = "sessions" /\ WebNext
     \/ focus = "tokens" /\ TokenNext
     \/ focus = "limiter" /\ LimNext
     \/ focus = "log" /\ LogNext
     \/ focus = "history" /\ HistStoreNext
     \/ focus = "certificate" /\ CertNext
     \/ focus = "validate" /\ ValidateNext
     \/ focus = "curve" /\ CurveNext
     \/ focus = "sensor" /\ SensorNext
     \/ focus = "verdicts" /\ VerdictNext
  /\ OthersStay

Spec == Init /\ [][Next]_<<allVars, focus>>
=============================================================================
