-------------------------- MODULE RegulationProofs --------------------------
(***************************************************************************)
(* Proofs about the regulation loop, for every set of channels, every      *)
(* configuration, every curve and every step size.                         *)
(***************************************************************************)
EXTENDS Regulation, TLAPS

-----------------------------------------------------------------------------
(***************************************************************************)
(* The operators the actions are built from.                               *)
(***************************************************************************)
\* Slew never leaves the range of its two duties, whatever the steps.
LEMMA SlewType ==
  ASSUME NEW c \in Duty, NEW t \in Duty, NEW up \in Nat, NEW down \in Nat
  PROVE  Slew(c, t, up, down) \in Duty
BY DEF Slew, Duty, Full

\* SanitizeChannels returns a configuration.
LEMMA SanitizeType ==
  ASSUME NEW r \in Config
  PROVE  SanitizeChannels(r) \in Config
<1>1. \A ch \in Channels : r.chan[ch] \in ChannelConfig
  BY DEF Config
<1>2. HDDStop \in Duty \cup {AutoStop}
  BY DEF HDDStop, Duty, Full
<1>3. \A ch \in Channels :
        [r.chan[ch] EXCEPT !.stop = HDDStop] \in ChannelConfig
  BY <1>1, <1>2 DEF ChannelConfig
<1> DEFINE f == [ch \in Channels |->
                   IF ch \in ChipHDD /\ ~FixedStop(r.chan[ch])
                   THEN [r.chan[ch] EXCEPT !.stop = HDDStop] ELSE r.chan[ch]]
<1>4. f \in [Channels -> ChannelConfig]
  BY <1>1, <1>3
<1>5. [r EXCEPT !.chan = f] \in Config
  <2> HIDE DEF f
  <2> QED BY <1>4 DEF Config
<1> QED BY <1>5 DEF SanitizeChannels

\* What a failed write or a safe stop leaves in the node is a node state.
LEMMA HwTypes ==
  ASSUME NEW h \in HwState, NEW d \in Duty, NEW how \in FailureModes,
         NEW cc \in ChannelConfig
  PROVE  /\ Manual(d) \in HwState
         /\ AfterFailure(h, d, how) \in HwState
         /\ SafeState(h, cc) \in HwState
         /\ AfterFailedStop(h, cc, how) \in HwState
<1>1. \A e \in Duty : Manual(e) \in HwState
  BY DEF Manual, HwState
<1>2. Full \in Duty
  BY DEF Full, Duty
<1>3. \A e \in Duty : AfterFailure(h, e, how) \in HwState
  BY <1>1, <1>2 DEF AfterFailure, FailureModes, HwState
<1>4. FixedStop(cc) => cc.stop \in Duty
  BY DEF FixedStop, ChannelConfig, AutoStop
<1>5. SafeState(h, cc) \in HwState
  BY <1>1, <1>4 DEF SafeState, HwState
<1>6. AfterFailedStop(h, cc, how) \in HwState
  BY <1>3, <1>4, <1>5 DEF AfterFailedStop
<1> QED BY <1>1, <1>3, <1>5, <1>6

\* The target of a cycle is a duty and its mode a mode.
LEMMA GoalType ==
  ASSUME TypeOK, NEW ch \in Channels, NEW curve \in Duty
  PROVE  GoalMode(ch) \in Modes /\ GoalDuty(ch, curve) \in Duty
<1>1. Cfg(ch) \in ChannelConfig
  BY DEF TypeOK, Cfg, Config
<1>2. SafeDuty(Cfg(ch)) \in Duty
  BY <1>1 DEF SafeDuty, FixedStop, ChannelConfig, AutoStop, Duty, Full
<1>3. GoalMode(ch) \in {"sensor-error", "critical", "manual", "auto"}
  BY DEF GoalMode
<1>4. GoalMode(ch) = "manual" => overrides[ch] \in Duty
  BY DEF GoalMode, TypeOK
<1>5. Full \in Duty
  BY DEF Full, Duty
<1>6. GoalDuty(ch, curve) \in Duty
  BY <1>2, <1>3, <1>4, <1>5 DEF GoalDuty
<1> QED BY <1>3, <1>6 DEF Modes

\* The duty of the write phase is a duty.
LEMMA NextDutyType ==
  ASSUME TypeOK, NEW ch \in Channels
  PROVE  NextDuty(ch) \in Duty
<1>1. D.stepUp \in Nat /\ D.stepDown \in Nat
  BY DEF TypeOK, D, Config, DaemonConfig
<1>2. cur[ch] >= 0 => cur[ch] \in Duty
  BY DEF TypeOK, NoDuty
<1>3. target[ch] \in Duty
  BY DEF TypeOK
<1> QED BY <1>1, <1>2, <1>3, SlewType DEF NextDuty

-----------------------------------------------------------------------------
(***************************************************************************)
(* Type correctness, one lemma per group of actions.  The bound on fsFail  *)
(* needs that the loop ends when the count is reached.                     *)
(***************************************************************************)
FsBound == Running => fsFail < DeviceLostCycles

\* The state New leaves is well typed.
LEMMA InitType == Init => TypeOK
<1> SUFFICES ASSUME Init PROVE TypeOK
  OBVIOUS
<1>1. active \in Config
  <2>1. PICK c \in InitialConfigs : active = SanitizeChannels(c)
    BY DEF Init
  <2> QED BY <2>1, SanitizeType, ConfigAssumption
<1>2. overrides \in [Channels -> Duty \cup {NoDuty}]
  BY DEF Init, Permitted
<1>3. hw \in [Channels -> HwState]
  BY DutyAssumption DEF Init, HwState
<1>4. cur \in [Channels -> Duty \cup {NoDuty}]
  <2>1. \A ch \in Channels : hw[ch].duty \in Duty
    BY <1>3 DEF HwState
  <2> QED BY <2>1 DEF Init, Full, Duty
<1>5. n \in 0..RewriteEvery /\ tampers \in 0..MaxTamper
  BY BoundAssumption DEF Init
<1>6. /\ ceilCycles \in [Channels -> 0..CeilCap]
      /\ recov \in [Channels -> 0..(StallRecoverCycles - 1)]
  BY BoundAssumption DEF Init, StallRecoverCycles
<1>7. pc \in Steps /\ pending \subseteq Config /\ mode \in [Channels -> Modes]
  BY DEF Init, Steps, Modes
<1>8. /\ reading \in [Channels -> [Parts -> Temps \cup {NoTemp}]]
      /\ rpm \in [Channels -> {NoRPM, 0, Spinning}]
  BY DEF Init
<1>9. /\ target \in [Channels -> Duty] /\ stallCnt \in [Channels -> Nat]
      /\ wrErr \in 0..WriteErrorsBeforeFailsafe
      /\ fsFail \in 0..DeviceLostCycles
  BY DEF Init, Full, Duty, WriteErrorsBeforeFailsafe, DeviceLostCycles
<1>10. /\ written \in [Channels -> BOOLEAN] /\ stalled \in [Channels -> BOOLEAN]
       /\ ceilHit \in [Channels -> BOOLEAN] /\ fired \in [Channels -> BOOLEAN]
       /\ reach \in [Channels -> BOOLEAN] /\ tampered \in [Channels -> BOOLEAN]
       /\ werr \in BOOLEAN /\ wrote \in BOOLEAN
  BY DEF Init
<1> QED
  BY <1>1, <1>2, <1>3, <1>4, <1>5, <1>6, <1>7, <1>8, <1>9, <1>10 DEF TypeOK

\* The API calls and the environment.
LEMMA OutsideType ==
  ASSUME TypeOK,
         \/ Stop
         \/ \E ch \in Channels : ClearOverride(ch) \/ ReachChanges(ch) \/ Tamper(ch)
         \/ \E ch \in Channels, d \in OverrideDuties : SetOverride(ch, d)
         \/ \E r \in Reloads : Apply(r)
  PROVE  TypeOK'
<1> USE DEF loopVars, readVars, dutyVars, goalVars, stallVars, ceilVars,
            errVars, envVars
<1>1. CASE Stop
  <2>1. \A ch \in Channels : Cfg(ch) \in ChannelConfig
    BY DEF TypeOK, Cfg, Config
  <2>2. hw' \in [Channels -> HwState]
    <3>1. Full \in Duty
      BY DEF Full, Duty
    <3>2. PICK how \in [Channels -> FailureModes] :
            hw' = [ch \in Channels |->
                    IF DryRun THEN hw[ch]
                    ELSE IF reach[ch] THEN SafeState(hw[ch], Cfg(ch))
                    ELSE AfterFailedStop(hw[ch], Cfg(ch), how[ch])]
      BY <1>1 DEF Stop
    <3>3. \A ch \in Channels : hw[ch] \in HwState
      BY DEF TypeOK
    <3>4. \A ch \in Channels :
            /\ SafeState(hw[ch], Cfg(ch)) \in HwState
            /\ AfterFailedStop(hw[ch], Cfg(ch), how[ch]) \in HwState
      BY <2>1, <3>1, <3>3, HwTypes
    <3> QED BY <3>2, <3>3, <3>4
  <2>3. tampered' \in [Channels -> BOOLEAN] /\ pc' \in Steps
    BY <1>1 DEF Stop, Steps
  <2> QED BY <1>1, <2>2, <2>3 DEF Stop, TypeOK
<1>2. CASE \E ch \in Channels : ClearOverride(ch)
  BY <1>2 DEF ClearOverride, TypeOK
<1>3. CASE \E ch \in Channels : ReachChanges(ch)
  BY <1>3 DEF ReachChanges, TypeOK
<1>4. CASE \E ch \in Channels : Tamper(ch)
  <2> PICK ch \in Channels : Tamper(ch)
    BY <1>4
  <2>1. hw' \in [Channels -> HwState]
    BY DutyAssumption DEF Tamper, TypeOK, HwState
  <2>2. tampers' \in 0..MaxTamper
    BY BoundAssumption DEF Tamper, TypeOK
  <2>3. tampered' \in [Channels -> BOOLEAN]
    BY DEF Tamper, TypeOK
  <2> QED BY <2>1, <2>2, <2>3 DEF Tamper, TypeOK
<1>5. CASE \E ch \in Channels, d \in OverrideDuties : SetOverride(ch, d)
  BY <1>5 DEF SetOverride, Permitted, TypeOK
<1>6. CASE \E r \in Reloads : Apply(r)
  <2> PICK r \in Reloads : Apply(r)
    BY <1>6
  <2>1. SanitizeChannels(r) \in Config
    BY SanitizeType, ConfigAssumption
  <2> QED BY <2>1 DEF Apply, TypeOK
<1> QED BY <1>1, <1>2, <1>3, <1>4, <1>5, <1>6

\* The steps of a cycle up to the stall check.
LEMMA DecideType ==
  ASSUME TypeOK, ApplyPending \/ ReadSensors \/ ComputeTargets \/ CheckStall
  PROVE  TypeOK'
<1> USE DEF loopVars, readVars, dutyVars, goalVars, stallVars, ceilVars,
            errVars, envVars
<1>1. CASE ApplyPending
  <2>1. active' \in Config /\ pending' \subseteq Config
    BY <1>1 DEF ApplyPending, TypeOK
  <2>2. ceilHit' \in [Channels -> BOOLEAN] /\ fired' \in [Channels -> BOOLEAN]
    BY <1>1 DEF ApplyPending, TypeOK
  <2>3. ceilCycles' \in [Channels -> 0..CeilCap]
    BY <1>1, BoundAssumption DEF ApplyPending, TypeOK
  <2> QED BY <1>1, <2>1, <2>2, <2>3 DEF ApplyPending, TypeOK, Steps
<1>2. CASE ReadSensors
  <2>1. \A ch \in Channels : Readings(ch) \subseteq [Parts -> Temps \cup {NoTemp}]
    BY DEF Readings
  <2>2. reading' \in [Channels -> [Parts -> Temps \cup {NoTemp}]]
    BY <1>2, <2>1 DEF ReadSensors
  <2>3. rpm' \in [Channels -> {NoRPM, 0, Spinning}]
    BY <1>2 DEF ReadSensors
  <2> QED BY <1>2, <2>2, <2>3 DEF ReadSensors, TypeOK, Steps
<1>3. CASE ComputeTargets
  <2>1. PICK curve \in [Channels -> CurveDuties] :
          target' = [ch \in Channels |-> GoalDuty(ch, curve[ch])]
    BY <1>3 DEF ComputeTargets
  <2>2. \A ch \in Channels :
          GoalMode(ch) \in Modes /\ GoalDuty(ch, curve[ch]) \in Duty
    BY GoalType, DutyAssumption
  <2>3. target' \in [Channels -> Duty] /\ mode' \in [Channels -> Modes]
    BY <1>3, <2>1, <2>2 DEF ComputeTargets
  <2>4. \A ch \in Channels : NextCeilHit(ch) \in BOOLEAN
    BY DEF NextCeilHit, TypeOK, AllBelow
  <2>5. \A ch \in Channels : NextFired(ch) \in BOOLEAN
    BY DEF NextFired
  <2>6. \A ch \in Channels : NextCeilCycles(ch) \in 0..CeilCap
    BY BoundAssumption DEF NextCeilCycles, TypeOK
  <2>7. /\ ceilHit' \in [Channels -> BOOLEAN]
        /\ ceilCycles' \in [Channels -> 0..CeilCap]
        /\ fired' \in [Channels -> BOOLEAN]
    BY <1>3, <2>4, <2>5, <2>6 DEF ComputeTargets
  <2> QED BY <1>3, <2>3, <2>7 DEF ComputeTargets, TypeOK, Steps
<1>4. CASE CheckStall
  <2>1. target' \in [Channels -> Duty] /\ mode' \in [Channels -> Modes]
    BY <1>4 DEF CheckStall, TypeOK, Modes, Full, Duty
  <2>2. stalled' \in [Channels -> BOOLEAN]
    BY <1>4 DEF CheckStall
  <2>3. stallCnt' \in [Channels -> Nat]
    BY <1>4 DEF CheckStall, TypeOK
  <2>4. recov' \in [Channels -> 0..(StallRecoverCycles - 1)]
    <3>1. \A ch \in Channels : ~RecoversNow(ch) =>
            NextRecov(ch) \in 0..(StallRecoverCycles - 1)
      BY DEF RecoversNow, NextRecov, TypeOK, StallRecoverCycles
    <3> QED BY <1>4, <3>1 DEF CheckStall, StallRecoverCycles
  <2> QED BY <1>4, <2>1, <2>2, <2>3, <2>4 DEF CheckStall, TypeOK, Steps
<1> QED BY <1>1, <1>2, <1>3, <1>4

\* The write phase and the bookkeeping after it.
LEMMA WriteType ==
  ASSUME TypeOK, FsBound,
         WritePhase \/ FinishClean \/ FinishFirstError \/ Failsafe
  PROVE  TypeOK'
<1> USE DEF loopVars, readVars, dutyVars, goalVars, stallVars, ceilVars,
            errVars, envVars
<1>0. n \in 0..RewriteEvery => NextN(n) \in 0..RewriteEvery
  BY BoundAssumption DEF NextN
<1>1. \A ch \in Channels : hw[ch] \in HwState /\ Cfg(ch) \in ChannelConfig
  BY DEF TypeOK, Cfg, Config
<1>2. Full \in Duty
  BY DEF Full, Duty
<1>3. CASE WritePhase
  <2>1. \A ch \in Channels : NextDuty(ch) \in Duty
    BY NextDutyType
  <2>2. hw' \in [Channels -> HwState]
    <3>1. PICK how \in [Channels -> FailureModes] :
            hw' = [ch \in Channels |->
                    IF ~Attempts(ch) THEN hw[ch]
                    ELSE IF reach[ch] THEN Manual(NextDuty(ch))
                    ELSE AfterFailure(hw[ch], NextDuty(ch), how[ch])]
      BY <1>3 DEF WritePhase
    <3>2. \A ch \in Channels :
            /\ Manual(NextDuty(ch)) \in HwState
            /\ AfterFailure(hw[ch], NextDuty(ch), how[ch]) \in HwState
      BY <1>1, <2>1, HwTypes
    <3> QED BY <1>1, <3>1, <3>2
  <2>3. cur' \in [Channels -> Duty \cup {NoDuty}]
    <3>1. \A ch \in Channels : hw[ch].duty \in Duty
      BY <1>1 DEF HwState
    <3>2. \A ch \in Channels : cur[ch] \in Duty \cup {NoDuty}
      BY DEF TypeOK
    <3>3. \A ch \in Channels : NextCur(ch) \in Duty \cup {NoDuty}
      BY <2>1, <3>1, <3>2 DEF NextCur
    <3> QED BY <1>3, <3>3 DEF WritePhase
  <2>4. /\ written' \in [Channels -> BOOLEAN]
        /\ tampered' \in [Channels -> BOOLEAN]
        /\ wrote' \in BOOLEAN /\ werr' \in BOOLEAN
    BY <1>3 DEF WritePhase
  <2> QED BY <1>3, <2>2, <2>3, <2>4 DEF WritePhase, TypeOK, Steps
<1>4. CASE FinishClean
  <2>1. wrErr' \in 0..WriteErrorsBeforeFailsafe /\ fsFail' \in 0..DeviceLostCycles
    BY <1>4 DEF FinishClean, TypeOK, WriteErrorsBeforeFailsafe, DeviceLostCycles
  <2> QED BY <1>0, <1>4, <2>1 DEF FinishClean, TypeOK, Steps
<1>5. CASE FinishFirstError
  <2>1. wrErr' \in 0..WriteErrorsBeforeFailsafe
    BY <1>5 DEF FinishFirstError, TypeOK, WriteErrorsBeforeFailsafe
  <2> QED BY <1>0, <1>5, <2>1 DEF FinishFirstError, TypeOK, Steps
<1>6. CASE Failsafe
  <2>1. hw' \in [Channels -> HwState]
    <3>1. PICK how \in [Channels -> FailureModes] :
            hw' = [ch \in Channels |->
                    IF reach[ch] THEN Manual(Full)
                    ELSE AfterFailure(hw[ch], Full, how[ch])]
      BY <1>6 DEF Failsafe, FailsafeCur
    <3>2. \A ch \in Channels :
            /\ Manual(Full) \in HwState
            /\ AfterFailure(hw[ch], Full, how[ch]) \in HwState
      BY <1>1, <1>2, HwTypes
    <3> QED BY <3>1, <3>2
  <2>2. /\ cur' \in [Channels -> Duty \cup {NoDuty}]
        /\ target' \in [Channels -> Duty] /\ mode' \in [Channels -> Modes]
    BY <1>2, <1>6 DEF Failsafe, FailsafeCur, Modes
  <2>3. written' \in [Channels -> BOOLEAN] /\ tampered' \in [Channels -> BOOLEAN]
    BY <1>6 DEF Failsafe, FailsafeCur
  <2>4. wrErr' \in 0..WriteErrorsBeforeFailsafe /\ pc' \in Steps
    BY <1>6 DEF Failsafe, FailsafeCur, Steps, WriteErrorsBeforeFailsafe
  <2>5. fsFail' \in 0..DeviceLostCycles
    <3>1. fsFail < DeviceLostCycles
      BY <1>6 DEF Failsafe, FailsafeCur, FsBound, Running
    <3> QED BY <1>6, <3>1 DEF Failsafe, FailsafeCur, TypeOK, DeviceLostCycles
  <2> QED BY <1>0, <1>6, <2>1, <2>2, <2>3, <2>4, <2>5
          DEF Failsafe, FailsafeCur, TypeOK
<1> QED BY <1>3, <1>4, <1>5, <1>6

\* The cycles the failsafe has left are bounded.
LEMMA FsBoundStep ==
  ASSUME TypeOK, FsBound, Next
  PROVE  FsBound'
<1> USE DEF loopVars, errVars, FsBound, Running
<1>1. CASE ApplyPending \/ ReadSensors \/ ComputeTargets \/ CheckStall \/ WritePhase
  BY <1>1 DEF ApplyPending, ReadSensors, ComputeTargets, CheckStall, WritePhase
<1>2. CASE FinishClean \/ FinishFirstError
  BY <1>2 DEF FinishClean, FinishFirstError, DeviceLostCycles
<1>3. CASE Failsafe
  <2>1. fsFail' \in Int
    BY <1>3 DEF Failsafe, FailsafeCur, TypeOK
  <2>2. pc' = IF fsFail' >= DeviceLostCycles THEN "lost" ELSE "begin"
    BY <1>3 DEF Failsafe, FailsafeCur
  <2> QED BY <2>1, <2>2 DEF DeviceLostCycles
<1>4. CASE Stop
  BY <1>4 DEF Stop
<1>5. CASE \E ch \in Channels : ClearOverride(ch) \/ ReachChanges(ch) \/ Tamper(ch)
  BY <1>5 DEF ClearOverride, ReachChanges, Tamper
<1>6. CASE \/ \E ch \in Channels, d \in OverrideDuties : SetOverride(ch, d)
           \/ \E r \in Reloads : Apply(r)
  BY <1>6 DEF SetOverride, Apply
<1> QED BY <1>1, <1>2, <1>3, <1>4, <1>5, <1>6 DEF Next, Cycle

\* Every step keeps the types.
LEMMA TypeStep ==
  ASSUME TypeOK, FsBound, [Next]_vars
  PROVE  TypeOK' /\ FsBound'
<1>1. CASE Next
  <2>1. TypeOK'
    BY <1>1, OutsideType, DecideType, WriteType DEF Next, Cycle
  <2> QED BY <1>1, <2>1, FsBoundStep
<1>2. CASE UNCHANGED vars
  BY <1>2 DEF vars, loopVars, readVars, dutyVars, goalVars, stallVars,
              ceilVars, errVars, envVars, TypeOK, FsBound, Running
<1> QED BY <1>1, <1>2

\* Type correctness of the regulation loop: in particular every duty it
\* believes in or writes is within 0..255, for every curve, step and override.
THEOREM TypeCorrect == Spec => []TypeOK
<1>1. Init => TypeOK /\ FsBound
  <2>1. Init => FsBound
    BY DEF Init, FsBound, DeviceLostCycles
  <2> QED BY <2>1, InitType
<1>2. TypeOK /\ FsBound /\ [Next]_vars => (TypeOK /\ FsBound)'
  BY TypeStep
<1> QED BY <1>1, <1>2, PTL DEF Spec

-----------------------------------------------------------------------------
(***************************************************************************)
(* The duty on record is the duty in the chip.  The invariant is inductive *)
(* as it stands: every write either is verified and recorded or makes the  *)
(* duty unknown, and nobody but another program writes in between.         *)
(***************************************************************************)
\* Every step keeps the remembered duty in line with the node.
LEMMA CurMatchesHwStep ==
  ASSUME TypeOK, CurMatchesHw, [Next]_vars
  PROVE  CurMatchesHw'
<1> USE DEF CurMatchesHw, loopVars, dutyVars, vars
<1>1. CASE ApplyPending \/ ReadSensors \/ ComputeTargets \/ CheckStall
  BY <1>1 DEF ApplyPending, ReadSensors, ComputeTargets, CheckStall
<1>2. CASE WritePhase
  <2> SUFFICES ASSUME ~DryRun, NEW ch \in Channels,
                      written'[ch], cur'[ch] # NoDuty, ~tampered'[ch]
               PROVE  hw'[ch] = Manual(cur'[ch])
    BY DEF NoDuty
  <2>1. CASE Attempts(ch) /\ reach[ch]
    BY <1>2, <2>1 DEF WritePhase, NextCur
  <2>2. CASE Attempts(ch) /\ ~reach[ch]
    BY <1>2, <2>2 DEF WritePhase, NextCur
  <2>3. CASE ~Attempts(ch)
    <3>1. cur'[ch] = cur[ch] /\ hw'[ch] = hw[ch]
      BY <1>2, <2>3 DEF WritePhase, NextCur
    <3>2. written[ch] /\ ~tampered[ch]
      BY <1>2, <2>3 DEF WritePhase
    <3> QED BY <1>2, <3>1, <3>2 DEF WritePhase
  <2> QED BY <2>1, <2>2, <2>3
<1>3. CASE FinishClean \/ FinishFirstError
  BY <1>3 DEF FinishClean, FinishFirstError
<1>4. CASE Failsafe
  BY <1>4 DEF Failsafe, FailsafeCur
<1>5. CASE Stop
  BY <1>5 DEF Stop
<1>6. CASE \E ch \in Channels : ClearOverride(ch) \/ ReachChanges(ch)
  BY <1>6 DEF ClearOverride, ReachChanges
<1>7. CASE \E ch \in Channels : Tamper(ch)
  BY <1>7 DEF Tamper, TypeOK
<1>8. CASE \/ \E ch \in Channels, d \in OverrideDuties : SetOverride(ch, d)
           \/ \E r \in Reloads : Apply(r)
  BY <1>8 DEF SetOverride, Apply
<1>9. CASE UNCHANGED vars
  BY <1>9
<1> QED BY <1>1, <1>2, <1>3, <1>4, <1>5, <1>6, <1>7, <1>8, <1>9 DEF Next, Cycle

\* The loop's record and the chip never part without another program's doing,
\* through any sequence of failed writes, failsafes and reloads.
THEOREM CurMatchesHwHolds == Spec => []CurMatchesHw
<1>1. Init => CurMatchesHw
  BY DEF Init, CurMatchesHw
<1>2. TypeOK /\ CurMatchesHw /\ [Next]_vars => CurMatchesHw'
  BY CurMatchesHwStep
<1> QED BY <1>1, <1>2, TypeCorrect, PTL DEF Spec

-----------------------------------------------------------------------------
(***************************************************************************)
(* A channel that needs full speed gets it.  Between the decision and the  *)
(* end of the cycle the demand is carried by target and mode, so the       *)
(* invariant follows it step by step through the cycle.                    *)
(***************************************************************************)
Hot(ch) == AtCritical(ch) \/ ceilHit[ch]
Demanded(ch) == target[ch] = Full /\ mode[ch] # "auto"
StalledHasTach == \A ch \in Channels : stalled[ch] => ch \in Tach
FullSpeedInv ==
  ~DryRun =>
    \A ch \in Channels :
      /\ pc = "stall" /\ Hot(ch) => Demanded(ch)
      /\ pc = "write" /\ (Hot(ch) \/ stalled[ch]) => Demanded(ch)
      /\ pc = "finish" \/ BetweenCycles =>
           (Hot(ch) \/ stalled[ch] => cur[ch] \in {Full, NoDuty})

\* Only a channel with a tachometer is ever in a stall.
LEMMA StalledHasTachStep ==
  ASSUME StalledHasTach, [Next]_vars
  PROVE  StalledHasTach'
<1> USE DEF StalledHasTach, stallVars, vars
<1>1. CASE CheckStall
  BY <1>1 DEF CheckStall, StallsNow, ZeroAtDuty
<1>2. CASE Next /\ ~CheckStall
  BY <1>2 DEF Next, Cycle, ApplyPending, ReadSensors, ComputeTargets, WritePhase,
              FinishClean, FinishFirstError, Failsafe, FailsafeCur, Stop,
              ClearOverride, ReachChanges, Tamper, SetOverride, Apply
<1>3. CASE UNCHANGED vars
  BY <1>3
<1> QED BY <1>1, <1>2, <1>3

\* A channel in a stall, a ceiling episode or at critical keeps its full duty.
LEMMA FullSpeedStep ==
  ASSUME TypeOK, StalledHasTach, FullSpeedInv, [Next]_vars
  PROVE  FullSpeedInv'
<1> USE DEF FullSpeedInv, Hot, Demanded, BetweenCycles, AtCritical, Read, Cfg,
            loopVars, readVars, dutyVars, goalVars, stallVars, ceilVars, vars
<1>1. CASE ApplyPending \/ ReadSensors
  BY <1>1 DEF ApplyPending, ReadSensors
<1>2. CASE ComputeTargets
  <2> SUFFICES ASSUME NEW ch \in Channels, Hot(ch)'
               PROVE  Demanded(ch)'
    BY <1>2 DEF ComputeTargets
  <2>1. PICK curve \in [Channels -> CurveDuties] :
          target' = [c \in Channels |-> GoalDuty(c, curve[c])]
    BY <1>2 DEF ComputeTargets
  <2>2. /\ target'[ch] = GoalDuty(ch, curve[ch]) /\ mode'[ch] = GoalMode(ch)
        /\ ceilHit'[ch] = NextCeilHit(ch)
    BY <1>2, <2>1 DEF ComputeTargets
  <2>3. AtCritical(ch) \/ NextCeilHit(ch)
    BY <1>2, <2>2 DEF ComputeTargets
  <2>4. CASE TempOK(ch)
    <3>1. GoalMode(ch) = "critical"
      BY <2>3, <2>4 DEF GoalMode
    <3> QED BY <2>2, <3>1 DEF GoalDuty
  <2>5. CASE ~TempOK(ch)
    <3>1. GoalMode(ch) = "sensor-error" /\ ceilHit[ch]
      BY <2>3, <2>5 DEF GoalMode, NextCeilHit, TempOK
    <3> QED BY <2>2, <3>1 DEF GoalDuty
  <2> QED BY <2>4, <2>5
<1>3. CASE CheckStall
  <2> SUFFICES ASSUME ~DryRun, NEW ch \in Channels, Hot(ch)' \/ stalled'[ch]
               PROVE  Demanded(ch)'
    BY <1>3 DEF CheckStall
  <2>1. CASE ch \in Tach /\ (stalled[ch] \/ StallsNow(ch))
    BY <1>3, <2>1 DEF CheckStall
  <2>2. CASE ~(ch \in Tach /\ (stalled[ch] \/ StallsNow(ch)))
    <3>1. target'[ch] = target[ch] /\ mode'[ch] = mode[ch]
      BY <1>3, <2>2 DEF CheckStall
    <3>2. ~stalled'[ch]
      BY <1>3, <2>2 DEF CheckStall, StalledHasTach, StallsNow, ZeroAtDuty
    <3>3. Hot(ch)
      BY <1>3, <3>2 DEF CheckStall
    <3> QED BY <1>3, <3>1, <3>3 DEF CheckStall
  <2> QED BY <2>1, <2>2
<1>4. CASE WritePhase
  <2> SUFFICES ASSUME ~DryRun, NEW ch \in Channels, Hot(ch) \/ stalled[ch]
               PROVE  NextCur(ch) \in {Full, NoDuty}
    BY <1>4 DEF WritePhase
  <2>1. NextDuty(ch) = Full
    BY <1>4 DEF WritePhase, NextDuty
  <2> QED BY <2>1 DEF NextCur, Attempts
<1>5. CASE FinishClean \/ FinishFirstError
  BY <1>5 DEF FinishClean, FinishFirstError
<1>6. CASE Failsafe
  BY <1>6 DEF Failsafe, FailsafeCur
<1>7. CASE Stop
  BY <1>7 DEF Stop
<1>8. CASE \E ch \in Channels : ClearOverride(ch) \/ ReachChanges(ch) \/ Tamper(ch)
  BY <1>8 DEF ClearOverride, ReachChanges, Tamper
<1>9. CASE \/ \E ch \in Channels, d \in OverrideDuties : SetOverride(ch, d)
           \/ \E r \in Reloads : Apply(r)
  BY <1>9 DEF SetOverride, Apply
<1>10. CASE UNCHANGED vars
  BY <1>10
<1> QED
  BY <1>1, <1>2, <1>3, <1>4, <1>5, <1>6, <1>7, <1>8, <1>9, <1>10
  DEF Next, Cycle

\* Critical, ceiling and stall win over curve, slew, override, sensor loss and
\* the write errors of other channels, in every instance.
THEOREM ProtectedFullHolds == Spec => []ProtectedFull
<1>1. Init => FullSpeedInv /\ StalledHasTach
  BY DEF Init, FullSpeedInv, BetweenCycles, StalledHasTach
<1>2. TypeOK /\ StalledHasTach /\ FullSpeedInv /\ [Next]_vars
        => FullSpeedInv' /\ StalledHasTach'
  BY FullSpeedStep, StalledHasTachStep
<1>3. FullSpeedInv => ProtectedFull
  BY DEF FullSpeedInv, ProtectedFull, Hot
<1> QED BY <1>1, <1>2, <1>3, TypeCorrect, PTL DEF Spec

-----------------------------------------------------------------------------
(***************************************************************************)
(* Open write errors leave a mark.  Through the cycle the mark stays on    *)
(* the duties; at the end of the write phase it may only be gone when      *)
(* something was written, and then the counter is reset.                   *)
(***************************************************************************)
Marked ==
  /\ wrErr = 1 => \E ch \in Channels : cur[ch] = NoDuty
  /\ wrErr >= WriteErrorsBeforeFailsafe =>
       \A ch \in Channels : cur[ch] \in {Full, NoDuty}
MarkInv ==
  /\ DryRun => wrErr = 0 /\ ~werr
  /\ pc # "finish" => Marked
  /\ pc = "finish" /\ werr => \E ch \in Channels : cur[ch] = NoDuty
  /\ pc = "finish" /\ ~werr /\ ~wrote => Marked

\* A channel whose write failed stays marked for the next write.
LEMMA MarkStep ==
  ASSUME TypeOK, MarkInv, [Next]_vars
  PROVE  MarkInv'
<1> USE DEF MarkInv, Marked, loopVars, dutyVars, errVars, vars
<1>1. CASE ApplyPending \/ ReadSensors \/ ComputeTargets \/ CheckStall
  BY <1>1 DEF ApplyPending, ReadSensors, ComputeTargets, CheckStall
<1>2. CASE WritePhase
  <2>0. Marked /\ wrErr' = wrErr /\ pc' = "finish"
    BY <1>2 DEF WritePhase
  <2>1. DryRun => ~werr'
    BY <1>2 DEF WritePhase, Attempts
  <2>2. werr' => \E ch \in Channels : cur'[ch] = NoDuty
    <3> SUFFICES ASSUME NEW ch \in Channels, Attempts(ch), ~reach[ch]
                 PROVE  cur'[ch] = NoDuty
      BY <1>2 DEF WritePhase
    <3>1. ~DryRun
      BY DEF Attempts
    <3> QED BY <1>2, <3>1 DEF WritePhase, NextCur
  <2>3. ASSUME ~werr', ~wrote' PROVE Marked'
    <3>1. CASE DryRun
      BY <2>0, <3>1 DEF WriteErrorsBeforeFailsafe
    <3>2. CASE ~DryRun
      <4>1. \A ch \in Channels : ~Attempts(ch)
        BY <1>2, <2>3 DEF WritePhase
      <4>2. \A ch \in Channels : cur'[ch] = cur[ch]
        BY <1>2, <3>2, <4>1 DEF WritePhase, NextCur
      <4> QED BY <2>0, <4>2
    <3> QED BY <3>1, <3>2
  <2> QED BY <2>0, <2>1, <2>2, <2>3
<1>3. CASE FinishClean
  BY <1>3 DEF FinishClean, WriteErrorsBeforeFailsafe
<1>4. CASE FinishFirstError
  <2>1. wrErr' = 1
    BY <1>4 DEF FinishFirstError, TypeOK, WriteErrorsBeforeFailsafe
  <2> QED BY <1>4, <2>1 DEF FinishFirstError, WriteErrorsBeforeFailsafe
<1>5. CASE Failsafe
  BY <1>5 DEF Failsafe, FailsafeCur, WriteErrorsBeforeFailsafe
<1>6. CASE Stop
  BY <1>6 DEF Stop
<1>7. CASE \E ch \in Channels : ClearOverride(ch) \/ ReachChanges(ch) \/ Tamper(ch)
  BY <1>7 DEF ClearOverride, ReachChanges, Tamper
<1>8. CASE \/ \E ch \in Channels, d \in OverrideDuties : SetOverride(ch, d)
           \/ \E r \in Reloads : Apply(r)
  BY <1>8 DEF SetOverride, Apply
<1>9. CASE UNCHANGED vars
  BY <1>9
<1> QED BY <1>1, <1>2, <1>3, <1>4, <1>5, <1>6, <1>7, <1>8, <1>9 DEF Next, Cycle

\* No write error is forgotten: while the counter is up, a duty is unknown and
\* will be written again, or every fan is at full speed.
THEOREM OpenErrorsMarkedHolds == Spec => []OpenErrorsMarked
<1>1. Init => MarkInv
  BY DEF Init, MarkInv, Marked, WriteErrorsBeforeFailsafe
<1>2. TypeOK /\ MarkInv /\ [Next]_vars => MarkInv'
  BY MarkStep
<1>3. MarkInv => OpenErrorsMarked
  BY DEF MarkInv, Marked, OpenErrorsMarked
<1> QED BY <1>1, <1>2, <1>3, TypeCorrect, PTL DEF Spec

-----------------------------------------------------------------------------
\* The emergency hook is not re-armed inside an episode, whatever sensors,
\* fans and reloads do.
THEOREM HookOncePerEpisodeHolds == Spec => HookOncePerEpisode
<1>1. TypeOK /\ [Next]_vars =>
        [\A ch \in Channels : fired[ch] /\ ceilHit[ch]' => fired[ch]']_vars
  <2> SUFFICES ASSUME TypeOK, Next
               PROVE  \A ch \in Channels :
                        fired[ch] /\ ceilHit[ch]' => fired[ch]'
    OBVIOUS
  <2> USE DEF ceilVars
  <2>1. CASE ApplyPending
    BY <2>1 DEF ApplyPending, TypeOK
  <2>2. CASE ComputeTargets
    BY <2>2 DEF ComputeTargets, NextFired, TypeOK
  <2>3. CASE ReadSensors \/ CheckStall \/ WritePhase \/ FinishClean
             \/ FinishFirstError \/ Failsafe \/ Stop
    BY <2>3 DEF ReadSensors, CheckStall, WritePhase, FinishClean,
                FinishFirstError, Failsafe, FailsafeCur, Stop
  <2>4. CASE \/ \E ch \in Channels :
                   ClearOverride(ch) \/ ReachChanges(ch) \/ Tamper(ch)
             \/ \E ch \in Channels, d \in OverrideDuties : SetOverride(ch, d)
             \/ \E r \in Reloads : Apply(r)
    BY <2>4 DEF ClearOverride, ReachChanges, Tamper, SetOverride, Apply
  <2> QED BY <2>1, <2>2, <2>3, <2>4 DEF Next, Cycle
<1> QED BY <1>1, TypeCorrect, PTL DEF Spec, HookOncePerEpisode

-----------------------------------------------------------------------------
\* No failsafe in which every write failed has been counted.
NotLost == fsFail = 0 /\ pc # "lost"

\* While one channel answers, none is (noteFailsafe).
LEMMA NotLostStep ==
  ASSUME NEW ch \in Channels, reach[ch], NotLost, [Next]_vars
  PROVE  NotLost'
<1>1. CASE Failsafe
  <2>1. ~AllFailed
    BY DEF AllFailed
  <2>2. fsFail' = 0 /\ pc' \in {"lost", "begin"} /\ (pc' = "lost"
            => fsFail' >= DeviceLostCycles)
    BY <1>1, <2>1 DEF Failsafe
  <2> QED
    BY <2>2 DEF NotLost, DeviceLostCycles
<1>2. CASE FinishClean \/ FinishFirstError \/ WritePhase \/ CheckStall \/ ComputeTargets
           \/ ReadSensors \/ ApplyPending
  BY <1>2 DEF FinishClean, FinishFirstError, WritePhase, CheckStall, ComputeTargets,
    ReadSensors, ApplyPending, NotLost, errVars
<1>3. CASE Stop
  BY <1>3 DEF Stop, NotLost, errVars
<1>4. CASE UNCHANGED <<pc, fsFail>>
  BY <1>4 DEF NotLost
<1>5. CASE UNCHANGED vars
  BY <1>4, <1>5 DEF vars, loopVars, errVars
<1>6. ASSUME NEW c \in Channels, ClearOverride(c) \/ ReachChanges(c) \/ Tamper(c)
      PROVE  NotLost'
  BY <1>4, <1>6 DEF ClearOverride, ReachChanges, Tamper, loopVars, errVars
<1>7. ASSUME NEW c \in Channels, NEW d \in OverrideDuties, SetOverride(c, d) PROVE NotLost'
  BY <1>4, <1>7 DEF SetOverride, errVars
<1>8. ASSUME NEW r \in Reloads, Apply(r) PROVE NotLost'
  BY <1>4, <1>8 DEF Apply, errVars
<1> QED
  BY <1>1, <1>2, <1>3, <1>5, <1>6, <1>7, <1>8 DEF Next, Cycle

\* PartialFailureStays: for every set of channels and every pattern of failures,
\* a device that always answers for one channel is never given up.
THEOREM PartialFailureStaysHolds == Spec => PartialFailureStays
<1>1. ASSUME NEW ch \in Channels PROVE Spec => ([]reach[ch] => [](pc # "lost"))
  <2>1. Init => NotLost
    BY DEF Init, NotLost
  <2>2. reach[ch] /\ NotLost /\ [Next]_vars => NotLost'
    BY NotLostStep
  <2>3. NotLost => pc # "lost"
    BY DEF NotLost
  <2> QED
    BY <2>1, <2>2, <2>3, PTL DEF Spec
<1> QED
  BY <1>1 DEF PartialFailureStays
=============================================================================
