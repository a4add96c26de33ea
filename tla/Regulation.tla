----------------------------- MODULE Regulation -----------------------------
(***************************************************************************)
(* The regulation loop of internal/control/controller.go: one cycle is     *)
(* applyPendingLocked, readSensors, computeTargets, checkStall, writePhase *)
(* and the write-error / failsafe bookkeeping of writeAndFinish, in that   *)
(* order, followed by the wait in Run.                                     *)
(*                                                                         *)
(* Every step of a cycle is an action of its own (variable pc).  The       *)
(* environment moves between the steps: temperatures and tachometers are   *)
(* read as arbitrary values, a pwm node accepts or refuses writes, and     *)
(* another program may write a pwm file.  The API calls take effect at the *)
(* start of a cycle only (overrides are copied, a reload is swapped in),   *)
(* so they are actions of the waiting loop.                                *)
(*                                                                         *)
(* What the curve, its hysteresis and min_on ask for is any duty of        *)
(* CurveDuties, so nothing below depends on the shape of a curve.          *)
(***************************************************************************)
EXTENDS Integers, FiniteSets

CONSTANTS
  Channels,       \* the managed channels (c.chans, fixed after New)
  Tach,           \* the channels with a tachometer (hasTach)
  ChipHDD,        \* pwm3 on the N5 Pro (hddLike whatever its stop is)
  Parts,          \* sensor part ids ("k10temp", "disk:sda", ...)
  Temps,          \* plausible readings, degrees C
  CurveDuties,    \* what the curve and its post-processing may ask for
  OverrideDuties, \* the duties API callers ask for
  Reloads,        \* configurations a caller may hand to Apply
  InitialConfigs, \* the configurations New may be given
  InitialDuties,  \* what ReadDuty may find at start
  RewriteEvery,   \* rewriteEvery (6)
  CeilCap,        \* bound: ceilCycles saturates here
  MaxTamper,      \* bound: external writes to pwm files in one behaviour
  DryRun          \* --dry-run

VARIABLES
  pc,        \* the step of the cycle the loop is at
  n,         \* the cycle number, modulo what n is compared with (NextN)
  active,    \* c.cfg and ch.cfg: the configuration in effect
  pending,   \* c.pending: {} or the one accepted configuration
  overrides, \* c.overrides, NoDuty where there is none
  reading,   \* ch.parts of this cycle, NoTemp where a part did not read
  rpm,       \* ch.rpm
  cur,       \* ch.cur
  written,   \* ch.written
  target,    \* ch.target
  mode,      \* ch.mode
  stallCnt,  \* ch.stallCnt
  stalled,   \* ch.stalled
  recov,     \* ch.recov
  ceilHit,   \* ch.ceilHit
  ceilCycles,\* ch.ceilCycles
  fired,     \* ch.emergencyFired
  werr,      \* writePhase: a write failed this cycle
  wrote,     \* writePhase: a write succeeded this cycle
  wrErr,     \* c.wrErr
  fsFail,    \* c.fsFail
  hw,        \* the pwm nodes: pwmN_enable and pwmN
  reach,     \* environment: does the node accept and verify a write?
  tampered,  \* history: another program wrote the node after our last write
  tampers    \* bound: external writes made or left out, at most MaxTamper

loopVars == <<pc, n, active, pending, overrides>>
readVars == <<reading, rpm>>
dutyVars == <<cur, written, hw, tampered>>
goalVars == <<target, mode>>
stallVars == <<stallCnt, stalled, recov>>
ceilVars == <<ceilHit, ceilCycles, fired>>
errVars == <<werr, wrote, wrErr, fsFail>>
envVars == <<reach, tampers>>
vars == <<loopVars, readVars, dutyVars, goalVars, stallVars, ceilVars,
          errVars, envVars>>

-----------------------------------------------------------------------------
Full == 255                     \* full speed
Duty == 0..Full
NoDuty == -1                    \* no override; cur after a failed write
AutoStop == -1                  \* stop = "auto"
NoTemp == -1000                 \* a part that was not read
Plausible == -20..120           \* MinPlausible..MaxPlausible, degrees
NoRPM == -1                     \* no tach, or fanN_input unreadable
Spinning == 1                   \* any rpm above 0
MinHDDOverride == 60
HDDStop == 140                  \* config.HDDStop
CeilingRecover == 3
StallRecoverCycles == 3
WriteErrorsBeforeFailsafe == 2
DeviceLostCycles == 6

Modes == {"auto", "manual", "critical", "stall", "sensor-error", "failsafe"}
Steps == {"begin", "read", "compute", "stall", "write", "finish", "lost",
          "stopped"}

\* config.Channel and config.Daemon, reduced to what the loop tells apart.
ChannelConfig ==
  [parts : SUBSET Parts, critical : Int, ceil : [Parts -> Int],
   stop : Duty \cup {AutoStop}]
DaemonConfig ==
  [stepUp : Nat, stepDown : Nat, stallMinDuty : Nat, stallCycles : Nat \ {0},
   emergency : BOOLEAN, emergencyCycles : Nat]
Config == [chan : [Channels -> ChannelConfig], daemon : DaemonConfig]
HwState == [manual : BOOLEAN, duty : Duty]

ASSUME ChannelsAssumption ==
  /\ IsFiniteSet(Channels) /\ Channels # {}
  /\ Tach \subseteq Channels /\ ChipHDD \subseteq Channels
ASSUME SensorAssumption ==
  Temps \subseteq Plausible
ASSUME ConfigAssumption ==
  /\ Reloads \subseteq Config
  /\ InitialConfigs \subseteq Config
ASSUME DutyAssumption ==
  /\ CurveDuties \subseteq Duty /\ CurveDuties # {}
  /\ OverrideDuties \subseteq Int
  /\ InitialDuties \subseteq Duty /\ InitialDuties # {}
ASSUME BoundAssumption ==
  /\ RewriteEvery \in Nat \ {0}
  /\ CeilCap \in Nat /\ MaxTamper \in Nat
  /\ \A r \in Reloads \cup InitialConfigs :
       3 * r.daemon.emergencyCycles <= CeilCap
  /\ DryRun \in BOOLEAN

-----------------------------------------------------------------------------
Cfg(ch) == active.chan[ch]
D == active.daemon

\* n is compared with 0 and taken modulo rewriteEvery only.
NextN(k) == IF k = RewriteEvery THEN 1 ELSE k + 1

\* config.Channel.StopDuty and Controller.safeDuty.
FixedStop(cc) == cc.stop # AutoStop
SafeDuty(cc) == IF FixedStop(cc) THEN cc.stop ELSE Full

\* Controller.hddLike: a channel that is not handed back to the chip.
HddLike(ch, cc) == FixedStop(cc) \/ ch \in ChipHDD

\* SanitizeChannels: the N5 Pro HDD channel is never handed back to the EC.
\* (The channels it adds to a configuration that lacks them are in Channels.)
SanitizeChannels(r) ==
  [r EXCEPT !.chan = [ch \in Channels |->
     IF ch \in ChipHDD /\ ~FixedStop(r.chan[ch])
     THEN [r.chan[ch] EXCEPT !.stop = HDDStop] ELSE r.chan[ch]]]

\* The manual duties SetOverride and loadOverrides accept for a channel.
Permitted(ch, cc) ==
  {d \in OverrideDuties \cap Duty : HddLike(ch, cc) => d >= MinHDDOverride}

\* Mutant: the step is taken in full, past the target.
SlewPastTarget(c, t, up, down) ==
  IF t > c THEN c + up ELSE IF t < c THEN c - down ELSE t

\* Slew limits the change from c towards t to +up / -down.
Slew(c, t, up, down) ==
  IF t > c + up THEN c + up ELSE IF t < c - down THEN c - down ELSE t

\* The parts that were read this cycle; none = the temperature is unknown.
Read(ch) == {p \in Parts : reading[ch][p] # NoTemp}
TempOK(ch) == Read(ch) # {}

\* ch.temp >= Critical: the sensor value is the maximum of the parts read.
AtCritical(ch) == \E p \in Read(ch) : reading[ch][p] >= Cfg(ch).critical

\* hottestPart: the parts at their own ceiling, and whether every part that
\* was read is CeilingRecover below its ceiling.  (Which of them the alert and
\* the hook name is left out.)
AtCeiling(ch) == {p \in Read(ch) : reading[ch][p] >= Cfg(ch).ceil[p]}
AllBelow(ch) ==
  \A p \in Read(ch) : reading[ch][p] < Cfg(ch).ceil[p] - CeilingRecover

-----------------------------------------------------------------------------
(***************************************************************************)
(* The hardware behind profile.Device.  A write that succeeds leaves the   *)
(* channel manual at the duty.  One that fails may have stopped anywhere:  *)
(* before pwmN_enable, after it (the N5 Pro driver then shows 255, other   *)
(* drivers keep the duty), or at the read-back.                            *)
(***************************************************************************)
Manual(d) == [manual |-> TRUE, duty |-> d]
FailureModes == {"untouched", "enabled-full", "enabled", "unverified"}
AfterFailure(h, d, how) ==
  CASE how = "untouched" -> h
    [] how = "enabled-full" -> IF h.manual THEN h ELSE Manual(Full)
    [] how = "enabled" -> Manual(h.duty)
    [] how = "unverified" -> Manual(d)

\* SafeStop: hand the channel back, or pin it to the fixed stop duty.
SafeState(h, cc) ==
  IF FixedStop(cc) THEN Manual(cc.stop) ELSE [h EXCEPT !.manual = FALSE]
AfterFailedStop(h, cc, how) ==
  IF FixedStop(cc) THEN AfterFailure(h, cc.stop, how)
  ELSE IF how = "unverified" THEN SafeState(h, cc) ELSE h

-----------------------------------------------------------------------------
Init ==
  /\ pc = "begin" /\ n = 0
  /\ active \in {SanitizeChannels(c) : c \in InitialConfigs} /\ pending = {}
  /\ overrides \in [Channels -> OverrideDuties \cup {NoDuty}]
  /\ \A ch \in Channels :                      \* loadOverrides
       overrides[ch] \in Permitted(ch, Cfg(ch)) \cup {NoDuty}
  /\ reading = [ch \in Channels |-> [p \in Parts |-> NoTemp]]
  /\ rpm = [ch \in Channels |-> NoRPM]
  /\ hw \in [Channels -> [manual : BOOLEAN, duty : InitialDuties]]
  /\ \E readable \in SUBSET Channels :
       cur = [ch \in Channels |-> IF ch \in readable THEN hw[ch].duty ELSE Full]
  /\ written = [ch \in Channels |-> FALSE]
  /\ target = [ch \in Channels |-> Full]
  /\ mode = [ch \in Channels |-> "auto"]
  /\ stallCnt = [ch \in Channels |-> 0]
  /\ stalled = [ch \in Channels |-> FALSE]
  /\ recov = [ch \in Channels |-> 0]
  /\ ceilHit = [ch \in Channels |-> FALSE]
  /\ ceilCycles = [ch \in Channels |-> 0]
  /\ fired = [ch \in Channels |-> FALSE]
  /\ werr = FALSE /\ wrote = FALSE /\ wrErr = 0 /\ fsFail = 0
  /\ reach = [ch \in Channels |-> TRUE]
  /\ tampered = [ch \in Channels |-> FALSE] /\ tampers \in 0..MaxTamper

(***************************************************************************)
(* The API, between two cycles.                                            *)
(***************************************************************************)
\* SetOverride refuses a duty outside 0..255 and a low duty on a channel the
\* chip does not regulate; both refusals leave the state alone.
SetOverride(ch, d) ==
  /\ pc = "begin"
  /\ d \in Permitted(ch, Cfg(ch))
  /\ overrides' = [overrides EXCEPT ![ch] = d]
  /\ UNCHANGED <<pc, n, active, pending, readVars, dutyVars, goalVars,
                 stallVars, ceilVars, errVars, envVars>>

ClearOverride(ch) ==
  /\ pc = "begin"
  /\ overrides' = [overrides EXCEPT ![ch] = NoDuty]
  /\ UNCHANGED <<pc, n, active, pending, readVars, dutyVars, goalVars,
                 stallVars, ceilVars, errVars, envVars>>

\* Apply with an unchanged channel set: the last accepted configuration wins.
Apply(r) ==
  /\ pc = "begin"
  /\ pending' = {SanitizeChannels(r)}
  /\ UNCHANGED <<pc, n, active, overrides, readVars, dutyVars, goalVars,
                 stallVars, ceilVars, errVars, envVars>>

(***************************************************************************)
(* The cycle.                                                              *)
(***************************************************************************)
\* applyPendingLocked / swapChannelConfig: a changed sensor drops the ceiling
\* state that belongs to the old reading.
Swapped(r, ch) == r.chan[ch].parts # Cfg(ch).parts

ApplyPending ==
  /\ pc = "begin"
  /\ pc' = "read"
  /\ \/ /\ pending = {}
        /\ UNCHANGED <<active, pending, ceilVars>>
     \/ \E r \in pending :
        /\ active' = r
        /\ pending' = {}
        /\ ceilHit' = [ch \in Channels |-> ceilHit[ch] /\ ~Swapped(r, ch)]
        /\ ceilCycles' = [ch \in Channels |->
                            IF Swapped(r, ch) THEN 0 ELSE ceilCycles[ch]]
        /\ fired' = [ch \in Channels |-> fired[ch] /\ ~Swapped(r, ch)]
  /\ UNCHANGED <<n, overrides, readVars, dutyVars, goalVars, stallVars,
                 errVars, envVars>>

\* readSensors: every part of a channel's sensor reads a plausible value or
\* not at all (unresolved, unreadable, implausible, frozen); readRPMs.
Readings(ch) ==
  {r \in [Parts -> Temps \cup {NoTemp}] :
     \A p \in Parts \ Cfg(ch).parts : r[p] = NoTemp}
RPMs(ch) == IF ch \in Tach THEN {NoRPM, 0, Spinning} ELSE {NoRPM}

ReadSensors ==
  /\ pc = "read"
  /\ pc' = "compute"
  /\ reading' \in {f \in [Channels -> UNION {Readings(ch) : ch \in Channels}] :
                     \A ch \in Channels : f[ch] \in Readings(ch)}
  /\ rpm' \in {f \in [Channels -> {NoRPM, 0, Spinning}] :
                 \A ch \in Channels : f[ch] \in RPMs(ch)}
  /\ UNCHANGED <<n, active, pending, overrides, dutyVars, goalVars, stallVars,
                 ceilVars, errVars, envVars>>

\* applyCeiling: the next ceiling state of a channel with a known temperature.
NextCeilHit(ch) ==
  IF ~TempOK(ch) THEN ceilHit[ch]
  ELSE IF ceilHit[ch] THEN ~AllBelow(ch) ELSE AtCeiling(ch) # {}

\* Mutant: a cycle without a reading starts the count again.
NextCeilCyclesRestarting(ch) ==
  IF ~TempOK(ch) \/ ~NextCeilHit(ch) THEN 0
  ELSE IF ceilCycles[ch] >= CeilCap THEN CeilCap ELSE ceilCycles[ch] + 1

NextCeilCycles(ch) ==
  IF ~TempOK(ch) THEN ceilCycles[ch]
  ELSE IF ~NextCeilHit(ch) THEN 0
  ELSE IF ceilCycles[ch] >= CeilCap THEN CeilCap ELSE ceilCycles[ch] + 1

\* emergency: the hook runs (or is refused) once per episode, after
\* emergency_cycles with a stalled fan or three times as many regardless.
HookDue(ch) ==
  /\ TempOK(ch) /\ NextCeilHit(ch)
  /\ D.emergency /\ D.emergencyCycles > 0
  /\ \/ ch \in Tach /\ stalled[ch] /\ NextCeilCycles(ch) >= D.emergencyCycles
     \/ NextCeilCycles(ch) >= 3 * D.emergencyCycles

\* Mutant: a sensor error re-arms the hook.
NextFiredRearmed(ch) ==
  TempOK(ch) /\ NextCeilHit(ch) /\ (fired[ch] \/ HookDue(ch))

NextFired(ch) == NextCeilHit(ch) /\ (fired[ch] \/ HookDue(ch))

\* computeTargets: the target and the mode, in the order of the code.
GoalMode(ch) ==
  IF ~TempOK(ch) THEN "sensor-error"
  ELSE IF AtCritical(ch) \/ NextCeilHit(ch) THEN "critical"
  ELSE IF overrides[ch] # NoDuty THEN "manual" ELSE "auto"

GoalDuty(ch, curve) ==
  CASE GoalMode(ch) = "sensor-error" ->
         IF ceilHit[ch] THEN Full ELSE SafeDuty(Cfg(ch))
    [] GoalMode(ch) = "critical" -> Full
    [] GoalMode(ch) = "manual" -> overrides[ch]
    [] GoalMode(ch) = "auto" -> curve

ComputeTargets ==
  /\ pc = "compute"
  /\ pc' = "stall"
  /\ \E curve \in [Channels -> CurveDuties] :
       target' = [ch \in Channels |-> GoalDuty(ch, curve[ch])]
  /\ mode' = [ch \in Channels |-> GoalMode(ch)]
  /\ ceilHit' = [ch \in Channels |-> NextCeilHit(ch)]
  /\ ceilCycles' = [ch \in Channels |-> NextCeilCycles(ch)]
  /\ fired' = [ch \in Channels |-> NextFired(ch)]
  /\ UNCHANGED <<n, active, pending, overrides, readVars, dutyVars, stallVars,
                 errVars, envVars>>

\* Mutant: a fan at exactly stall_min_duty is not watched.
ZeroAboveDuty(ch) ==
  /\ ch \in Tach /\ ~stalled[ch]
  /\ rpm[ch] = 0 /\ written[ch] /\ cur[ch] > D.stallMinDuty

\* checkStall: 0 RPM at a duty that should turn the fan, after our own write.
ZeroAtDuty(ch) ==
  /\ ch \in Tach /\ ~stalled[ch]
  /\ rpm[ch] = 0 /\ written[ch] /\ cur[ch] >= D.stallMinDuty
StallsNow(ch) == ZeroAtDuty(ch) /\ stallCnt[ch] + 1 >= D.stallCycles
NextRecov(ch) ==
  IF ch \in Tach /\ stalled[ch]
  THEN IF rpm[ch] > 0 THEN recov[ch] + 1 ELSE 0
  ELSE recov[ch]
RecoversNow(ch) ==
  ch \in Tach /\ stalled[ch] /\ NextRecov(ch) >= StallRecoverCycles

CheckStall ==
  /\ pc = "stall"
  /\ pc' = "write"
  /\ stalled' = [ch \in Channels |->
                   (stalled[ch] \/ StallsNow(ch)) /\ ~RecoversNow(ch)]
  /\ stallCnt' = [ch \in Channels |->
                    IF ZeroAtDuty(ch) THEN stallCnt[ch] + 1
                    ELSE IF stalled[ch] /\ ~RecoversNow(ch) THEN stallCnt[ch]
                    ELSE 0]
  /\ recov' = [ch \in Channels |->
                 IF RecoversNow(ch) THEN 0 ELSE NextRecov(ch)]
  /\ LET fast == {ch \in Tach : stalled[ch] \/ StallsNow(ch)}
     IN /\ target' = [ch \in Channels |->
                        IF ch \in fast THEN Full ELSE target[ch]]
        /\ mode' = [ch \in Channels |->
                      IF ch \in fast THEN "stall" ELSE mode[ch]]
  /\ UNCHANGED <<n, active, pending, overrides, readVars, dutyVars, ceilVars,
                 errVars, envVars>>

\* writePhase: slew in mode auto, write what changed, everything every
\* rewriteEvery cycles; a failed write leaves the duty unknown.

\* Mutant: every mode is slewed.
NextDutySlewed(ch) ==
  IF n > 0 /\ cur[ch] >= 0
  THEN Slew(cur[ch], target[ch], D.stepUp, D.stepDown) ELSE target[ch]

NextDuty(ch) ==
  IF n > 0 /\ mode[ch] = "auto" /\ cur[ch] >= 0
  THEN Slew(cur[ch], target[ch], D.stepUp, D.stepDown)
  ELSE target[ch]

\* Mutant: no periodic rewrite.
AttemptsOnChange(ch) == ~DryRun /\ NextDuty(ch) # cur[ch]

Attempts(ch) ==
  ~DryRun /\ (NextDuty(ch) # cur[ch] \/ n % RewriteEvery = 0)

\* Mutant: a failed write leaves the old duty on record.
NextCurKept(ch) ==
  IF DryRun THEN IF reach[ch] THEN hw[ch].duty ELSE cur[ch]
  ELSE IF Attempts(ch) /\ reach[ch] THEN NextDuty(ch) ELSE cur[ch]

NextCur(ch) ==
  IF DryRun THEN IF reach[ch] THEN hw[ch].duty ELSE cur[ch]
  ELSE IF ~Attempts(ch) THEN cur[ch]
  ELSE IF reach[ch] THEN NextDuty(ch) ELSE NoDuty

WritePhase ==
  /\ pc = "write"
  /\ pc' = "finish"
  /\ \E how \in [Channels -> FailureModes] :
       hw' = [ch \in Channels |->
                IF ~Attempts(ch) THEN hw[ch]
                ELSE IF reach[ch] THEN Manual(NextDuty(ch))
                ELSE AfterFailure(hw[ch], NextDuty(ch), how[ch])]
  /\ cur' = [ch \in Channels |-> NextCur(ch)]
  /\ LET done == {ch \in Channels : Attempts(ch) /\ reach[ch]}
     IN /\ written' = [ch \in Channels |-> written[ch] \/ ch \in done]
        /\ tampered' = [ch \in Channels |-> tampered[ch] /\ ch \notin done]
        /\ wrote' = (done # {})
  /\ werr' = (\E ch \in Channels : Attempts(ch) /\ ~reach[ch])
  /\ UNCHANGED <<n, active, pending, overrides, readVars, goalVars, stallVars,
                 ceilVars, wrErr, fsFail, envVars>>

\* writeAndFinish after a cycle without a write error.  Only a successful
\* write clears wrErr; a cycle that wrote nothing says nothing.
FinishClean ==
  /\ pc = "finish" /\ ~werr
  /\ pc' = "begin"
  /\ n' = NextN(n)
  /\ fsFail' = 0
  /\ wrErr' = IF wrote THEN 0 ELSE wrErr
  /\ UNCHANGED <<active, pending, overrides, readVars, dutyVars, goalVars,
                 stallVars, ceilVars, werr, wrote, envVars>>

\* writeAndFinish after a write error that is not yet a repeated one.
FinishFirstError ==
  /\ pc = "finish" /\ werr
  /\ wrErr + 1 < WriteErrorsBeforeFailsafe
  /\ pc' = "begin"
  /\ n' = NextN(n)
  /\ wrErr' = wrErr + 1
  /\ UNCHANGED <<active, pending, overrides, readVars, dutyVars, goalVars,
                 stallVars, ceilVars, werr, wrote, fsFail, envVars>>

\* Mutant: one dead channel counts as a dead device.
SomeFailed == \E ch \in Channels : ~reach[ch]

AllFailed == \A ch \in Channels : ~reach[ch]

\* Mutant: the failsafe takes its writes for done.
FailsafeCurFull(ch) == Full

FailsafeCur(ch) == IF reach[ch] THEN Full ELSE NoDuty

\* failsafeAll, noteFailsafe: every channel to 255; when not one write went
\* through for DeviceLostCycles cycles, Run returns ErrDeviceLost.
Failsafe ==
  /\ pc = "finish" /\ werr
  /\ wrErr + 1 >= WriteErrorsBeforeFailsafe
  /\ wrErr' = WriteErrorsBeforeFailsafe     \* saturates: compared with it only
  /\ \E how \in [Channels -> FailureModes] :
       hw' = [ch \in Channels |->
                IF reach[ch] THEN Manual(Full)
                ELSE AfterFailure(hw[ch], Full, how[ch])]
  /\ cur' = [ch \in Channels |-> FailsafeCur(ch)]
  /\ written' = [ch \in Channels |-> written[ch] \/ reach[ch]]
  /\ tampered' = [ch \in Channels |-> tampered[ch] /\ ~reach[ch]]
  /\ target' = [ch \in Channels |-> Full]
  /\ mode' = [ch \in Channels |-> "failsafe"]
  /\ fsFail' = IF AllFailed THEN fsFail + 1 ELSE 0
  /\ pc' = IF fsFail' >= DeviceLostCycles THEN "lost" ELSE "begin"
  /\ n' = NextN(n)
  /\ UNCHANGED <<active, pending, overrides, readVars, stallVars, ceilVars,
                 werr, wrote, envVars>>

\* Run returns (cancelled while it waits, or ErrDeviceLost) and calls Stop.
Stop ==
  /\ pc = "lost" \/ (pc = "begin" /\ n > 0)
  /\ pc' = "stopped"
  /\ \E how \in [Channels -> FailureModes] :
       hw' = [ch \in Channels |->
                IF DryRun THEN hw[ch]
                ELSE IF reach[ch] THEN SafeState(hw[ch], Cfg(ch))
                ELSE AfterFailedStop(hw[ch], Cfg(ch), how[ch])]
  /\ tampered' = [ch \in Channels |-> tampered[ch] /\ (DryRun \/ ~reach[ch])]
  /\ UNCHANGED <<n, active, pending, overrides, readVars, cur, written,
                 goalVars, stallVars, ceilVars, errVars, envVars>>

(***************************************************************************)
(* The environment.                                                        *)
(***************************************************************************)
Running == pc \notin {"lost", "stopped"}

\* The driver starts or stops answering for one channel.
ReachChanges(ch) ==
  /\ Running
  /\ reach' = [reach EXCEPT ![ch] = ~@]
  /\ UNCHANGED <<loopVars, readVars, dutyVars, goalVars, stallVars, ceilVars,
                 errVars, tampers>>

\* Another program writes pwmN or pwmN_enable.
Tamper(ch) ==
  /\ Running /\ tampers < MaxTamper
  /\ tampers' = tampers + 1
  /\ \E h \in [manual : BOOLEAN, duty : InitialDuties] :
       hw' = [hw EXCEPT ![ch] = h]
  /\ tampered' = [tampered EXCEPT ![ch] = TRUE]
  /\ UNCHANGED <<loopVars, readVars, cur, written, goalVars, stallVars,
                 ceilVars, errVars, reach>>

-----------------------------------------------------------------------------
Cycle ==
  \/ ApplyPending \/ ReadSensors \/ ComputeTargets \/ CheckStall
  \/ WritePhase \/ FinishClean \/ FinishFirstError \/ Failsafe

Next ==
  \/ Cycle
  \/ Stop
  \/ \E ch \in Channels : ClearOverride(ch) \/ ReachChanges(ch) \/ Tamper(ch)
  \/ \E ch \in Channels, d \in OverrideDuties : SetOverride(ch, d)
  \/ \E r \in Reloads : Apply(r)

Spec == Init /\ [][Next]_vars

\* The loop keeps cycling: its goroutine is scheduled, no step waits for
\* another party.  Nothing is assumed of callers, sensors or the driver.
FairSpec == Spec /\ WF_vars(Cycle)

-----------------------------------------------------------------------------
(***************************************************************************)
(* Properties.                                                             *)
(***************************************************************************)
\* Every variable holds a value of its kind; in particular a duty is always
\* within 0..255 or the one "unknown" value, whatever the curve, the slew
\* step, an override or a reload does.
TypeOK ==
  /\ pc \in Steps /\ n \in 0..RewriteEvery
  /\ active \in Config /\ pending \subseteq Config
  /\ overrides \in [Channels -> Duty \cup {NoDuty}]
  /\ reading \in [Channels -> [Parts -> Temps \cup {NoTemp}]]
  /\ rpm \in [Channels -> {NoRPM, 0, Spinning}]
  /\ cur \in [Channels -> Duty \cup {NoDuty}]
  /\ written \in [Channels -> BOOLEAN]
  /\ target \in [Channels -> Duty] /\ mode \in [Channels -> Modes]
  /\ stallCnt \in [Channels -> Nat] /\ stalled \in [Channels -> BOOLEAN]
  /\ recov \in [Channels -> 0..(StallRecoverCycles - 1)]
  /\ ceilHit \in [Channels -> BOOLEAN]
  /\ ceilCycles \in [Channels -> 0..CeilCap]
  /\ fired \in [Channels -> BOOLEAN]
  /\ werr \in BOOLEAN /\ wrote \in BOOLEAN
  /\ wrErr \in 0..WriteErrorsBeforeFailsafe /\ fsFail \in 0..DeviceLostCycles
  /\ hw \in [Channels -> HwState]
  /\ reach \in [Channels -> BOOLEAN]
  /\ tampered \in [Channels -> BOOLEAN] /\ tampers \in 0..MaxTamper

BetweenCycles == pc = "begin" /\ n > 0

\* A cycle that saw a part at critical, that is inside a ceiling episode or
\* that holds the fan for stalled ends with the channel at 255, or with a
\* duty that is known to be unknown: no override, curve, slew step, sensor
\* loss or write error of another channel takes precedence
\* (computeTargets, applyCeiling, checkStall, writePhase, failsafeAll).
ProtectedFull ==
  BetweenCycles /\ ~DryRun =>
    \A ch \in Channels :
      AtCritical(ch) \/ ceilHit[ch] \/ stalled[ch]
        => cur[ch] \in {Full, NoDuty}

\* What the loop believes is what the chip does: a known duty of a channel
\* written before is the duty in the pwm node, in manual mode, unless another
\* program wrote the node since (WriteDuty verifies; writePhase and
\* failsafeAll forget the duty when a write fails).
CurMatchesHw ==
  pc # "stopped" /\ ~DryRun =>
    \A ch \in Channels :
      written[ch] /\ cur[ch] # NoDuty /\ ~tampered[ch]
        => hw[ch] = Manual(cur[ch])

\* An open write error leaves a mark that makes the next cycle write: after a
\* first error some duty is unknown, after the failsafe every channel is at
\* 255 or unknown.  So wrErr can only stay up through a cycle without a write
\* while every fan runs at full speed (writeAndFinish, failsafeAll).
OpenErrorsMarked ==
  pc = "begin" =>
    /\ wrErr = 1 => \E ch \in Channels : cur[ch] = NoDuty
    /\ wrErr >= WriteErrorsBeforeFailsafe =>
         \A ch \in Channels : cur[ch] \in {Full, NoDuty}

\* The hook state of an episode is kept until the episode ends: a sensor that
\* drops out, a stall or a reload never re-arms the emergency hook in the
\* middle of it (applyCeiling, emergency, swapChannelConfig).
HookOncePerEpisode ==
  [][\A ch \in Channels : fired[ch] /\ ceilHit[ch]' => fired[ch]']_vars

\* A device that answers for one channel is never given up: ErrDeviceLost
\* takes DeviceLostCycles failsafes in which no write went through
\* (noteFailsafe).
PartialFailureStays ==
  \A ch \in Channels : []reach[ch] => [](pc # "lost")

\* A device that stays gone ends the loop, so that systemd restarts the
\* daemon: the failing writes repeat because the duties stay unknown
\* (writePhase, noteFailsafe).
DeviceLostExits ==
  ~DryRun => (<>[]AllFailed => <>(pc \in {"lost", "stopped"}))

\* A write by another program does not last: the rewrite every RewriteEvery
\* cycles, or a change of duty before it, restores the loop's duty.
TamperUndone ==
  \A ch \in Channels :
    ~DryRun /\ <>[]reach[ch] => <>[](~tampered[ch] \/ ~Running)

\* A fan that stays at 0 RPM at a duty that should turn it is reported as
\* stalled and driven to 255 (checkStall).
StoppedFan(ch) ==
  rpm[ch] = 0 /\ written[ch] /\ cur[ch] >= D.stallMinDuty
StallDetected ==
  \A ch \in Tach : <>[]StoppedFan(ch) => <>[](stalled[ch] \/ ~Running)

\* A ceiling episode that does not end runs the emergency hook, whether or
\* not the fan is known to have stopped, and although the sensor may fail
\* again and again in between (applyCeiling, emergency).
EmergencyFires ==
  \A ch \in Channels :
    /\ <>[](ceilHit[ch] /\ D.emergency /\ D.emergencyCycles > 0)
    /\ []<>(pc = "compute" /\ TempOK(ch))
    => <>[]fired[ch]

\* As the comment on MinHDDOverride has it: on a channel that is not handed
\* back to the chip no manual override below MinHDDOverride is in effect.
\* The code checks this when an override is set or restored, not when a
\* reload gives the channel a fixed stop duty.
HddFloor ==
  \A ch \in Channels :
    overrides[ch] # NoDuty /\ HddLike(ch, Cfg(ch))
      => overrides[ch] >= MinHDDOverride
=============================================================================
