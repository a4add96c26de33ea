------------------------ MODULE ControllerSyncProofs ------------------------
(***************************************************************************)
(* Proofs about the stop of the controller, for every set of channels and  *)
(* every number of reloads: who holds hwMu decides what the chip can be    *)
(* doing, and the stopped flag keeps the loop away from it afterwards.     *)
(***************************************************************************)
EXTENDS ControllerSync, TLAPS

Securing == spc = "safe" \/ Secured

\* Who is where when: hwMu has one holder, c.mu is the loop's from the lock to
\* the unlock, and the flag is up before the body of Stop goes for hwMu.
LockInv ==
  /\ hwMu = "loop" <=> lpc \in {"swap", "writing", "failing"}
  /\ hwMu = "stop" <=> spc = "safe"
  /\ lpc \in {"apply", "swap", "unlock"} => mu = "loop"
  /\ spc \in {"lock", "safe", "save"} \/ once = "done" => stopped
  /\ once = "running" <=> spc # "idle"

\* A write pass with channels left runs before the body of Stop has hwMu.
PassInv ==
  lpc \in {"writing", "failing"} /\ todo # {} => ~Securing

\* Outside a swap every channel has the same configuration; inside, the
\* channels swapped so far have the accepted one.
ConfigInv ==
  /\ lpc = "swap" =>
       \E g \in Generations :
         pending = {g} /\ \A ch \in Channels \ todo : cfg[ch] = g
  /\ lpc = "apply" => \E g \in Generations : pending = {g}
  /\ pending = {} \/ \E g \in Generations : pending = {g}
  /\ lpc # "swap" => \A c1, c2 \in Channels : cfg[c1] = cfg[c2]

\* Before the body of Stop has hwMu the chip is driven and nothing refused;
\* then the channels are handled one by one, each with its configuration.
ChipInv ==
  /\ ~Securing => refused = {} /\ \A ch \in Channels : hw[ch] = Driven
  /\ spc = "safe" =>
       \A ch \in Channels :
         IF ch \in todo THEN hw[ch] = Driven /\ ch \notin refused
         ELSE ch \in refused \/ hw[ch] = cfg[ch]
  /\ NoWriteAfterStop /\ SafeStateOfOneConfig

Inv == TypeOK /\ LockInv /\ PassInv /\ ConfigInv /\ ChipInv

-----------------------------------------------------------------------------
\* The state New and serveRun start from satisfies the invariant.
LEMMA InitInv == Init => Inv
<1> SUFFICES ASSUME Init PROVE Inv
  OBVIOUS
<1>0. 1 \in Generations /\ 0 \in 0..MaxReloads
  BY BoundAssumption DEF Generations
<1>1. TypeOK
  <2>1. cfg \in [Channels -> Generations]
    BY <1>0 DEF Init
  <2>2. hw \in [Channels -> Generations \cup {Driven}]
    BY DEF Init
  <2> QED BY <1>0, <2>1, <2>2 DEF Init, TypeOK, LoopSteps
<1>2. LockInv /\ PassInv /\ ConfigInv
  BY DEF Init, LockInv, PassInv, ConfigInv
<1>3. ChipInv
  BY DEF Init, ChipInv, Securing, Secured, NoWriteAfterStop,
         SafeStateOfOneConfig
<1> QED BY <1>1, <1>2, <1>3 DEF Inv

\* Every step keeps the types.
LEMMA TypeStep ==
  ASSUME TypeOK, [Next]_vars
  PROVE  TypeOK'
<1> USE DEF TypeOK, muVars, stopVars, chipVars, vars
<1>1. CASE Apply
  <2>1. accepted + 1 \in 0..MaxReloads /\ accepted + 2 \in Generations
    BY <1>1, BoundAssumption DEF Apply, Generations
  <2> QED BY <1>1, <2>1 DEF Apply
<1>2. CASE \E ch \in Channels : SwapChannel(ch)
  BY <1>2 DEF SwapChannel
<1>3. CASE \E ch \in Channels : WriteChannel(ch)
  BY <1>3 DEF WriteChannel
<1>4. CASE \E ch \in Channels : SafeStop(ch)
  BY <1>4 DEF SafeStop
<1>5. CASE SwapUnlock \/ LeaveWrite
  BY <1>5 DEF SwapUnlock, LeaveWrite, LoopSteps
<1>6. CASE CallStop \/ StopFlag \/ StopLock \/ StopUnlock \/ StopSave
  BY <1>6 DEF CallStop, StopFlag, StopLock, StopUnlock, StopSave
<1>7. CASE Main \/ Signal
  BY <1>7 DEF Main, MainSelect, MainJoins, MainTimesOut, MainExits, Signal
<1>8. CASE Wait \/ LockMu \/ ApplyPending \/ UnlockMu \/ Sense \/ EnterWrite
  BY <1>8 DEF Wait, LockMu, ApplyPending, SwapLock, UnlockMu, Sense, EnterWrite,
              LoopSteps
<1>9. CASE Decide \/ Publish \/ CheckState \/ WriteState \/ Panic \/ LoopReturns
  BY <1>9 DEF Decide, Publish, CheckState, WriteState, Panic, LoopReturns,
              LoopSteps
<1>10. CASE UNCHANGED vars
  BY <1>10
<1> QED
  BY <1>1, <1>2, <1>3, <1>4, <1>5, <1>6, <1>7, <1>8, <1>9, <1>10
  DEF Next, HwSection, StopBody, Loop

\* Every step keeps the locks with their holders and write passes before Stop.
LEMMA LockStep ==
  ASSUME Inv, [Next]_vars
  PROVE  LockInv' /\ PassInv'
<1> USE DEF Inv, LockInv, PassInv, Securing, Secured,
            muVars, stopVars, chipVars, vars
<1>1. CASE Apply
  BY <1>1 DEF Apply
<1>2. CASE \E ch \in Channels : SwapChannel(ch) \/ WriteChannel(ch) \/ SafeStop(ch)
  BY <1>2 DEF SwapChannel, WriteChannel, SafeStop
<1>3. CASE SwapUnlock \/ LeaveWrite
  BY <1>3 DEF SwapUnlock, LeaveWrite
<1>4. CASE CallStop \/ StopFlag \/ StopLock \/ StopUnlock \/ StopSave
  BY <1>4 DEF CallStop, StopFlag, StopLock, StopLocks, StopUnlock, StopSave
<1>5. CASE Main \/ Signal
  BY <1>5 DEF Main, MainSelect, MainJoins, MainTimesOut, MainExits, Signal
<1>6. CASE Wait \/ LockMu \/ ApplyPending \/ UnlockMu \/ Sense
  BY <1>6 DEF Wait, LockMu, ApplyPending, SwapLock, UnlockMu, Sense
<1>7. CASE EnterWrite
  BY <1>7 DEF EnterWrite, WritesAllowed
<1>8. CASE Decide \/ Publish \/ CheckState \/ WriteState \/ LoopReturns
  BY <1>8 DEF Decide, Publish, CheckState, WriteState, LoopReturns
<1>9. CASE Panic
  BY <1>9 DEF Panic
<1>10. CASE UNCHANGED vars
  BY <1>10
<1> QED
  BY <1>1, <1>2, <1>3, <1>4, <1>5, <1>6, <1>7, <1>8, <1>9, <1>10
  DEF Next, HwSection, StopBody, Loop

\* Every step keeps the channels on one configuration outside a swap.
LEMMA ConfigStep ==
  ASSUME Inv, [Next]_vars
  PROVE  ConfigInv'
<1> USE DEF Inv, LockInv, ConfigInv, muVars, stopVars, chipVars, vars
<1>1. CASE Apply
  <2>1. accepted + 2 \in Generations
    BY <1>1, BoundAssumption DEF Apply, Generations, TypeOK
  <2>2. lpc \notin {"apply", "swap"}
    BY <1>1 DEF Apply
  <2> QED BY <1>1, <2>1, <2>2 DEF Apply
<1>2. ASSUME NEW ch \in Channels, SwapChannel(ch) PROVE ConfigInv'
  <2>1. PICK g \in Generations :
          pending = {g} /\ \A c \in Channels \ todo : cfg[c] = g
    BY <1>2 DEF SwapChannel
  <2>2. cfg' = [cfg EXCEPT ![ch] = g] /\ todo' = todo \ {ch}
        /\ lpc' = "swap" /\ pending' = {g}
    BY <1>2, <2>1 DEF SwapChannel
  <2>3. \A c \in Channels \ todo' : cfg'[c] = g
    BY <2>1, <2>2 DEF TypeOK
  <2> QED BY <2>1, <2>2, <2>3
<1>3. CASE SwapUnlock
  BY <1>3 DEF SwapUnlock
<1>4. CASE \E ch \in Channels : WriteChannel(ch) \/ SafeStop(ch)
  BY <1>4 DEF WriteChannel, SafeStop
<1>5. CASE CallStop \/ StopFlag \/ StopLock \/ StopUnlock \/ StopSave
  BY <1>5 DEF CallStop, StopFlag, StopLock, StopLocks, StopUnlock, StopSave
<1>6. CASE Main \/ Signal
  BY <1>6 DEF Main, MainSelect, MainJoins, MainTimesOut, MainExits, Signal
<1>7. CASE ApplyPending
  BY <1>7 DEF ApplyPending, SwapLock
<1>8. CASE Wait \/ LockMu \/ UnlockMu \/ Sense \/ EnterWrite \/ LeaveWrite
  BY <1>8 DEF Wait, LockMu, UnlockMu, Sense, EnterWrite, LeaveWrite
<1>9. CASE Decide \/ Publish \/ CheckState \/ WriteState \/ Panic \/ LoopReturns
  BY <1>9 DEF Decide, Publish, CheckState, WriteState, Panic, LoopReturns
<1>10. CASE UNCHANGED vars
  BY <1>10
<1> QED
  BY <1>1, <1>2, <1>3, <1>4, <1>5, <1>6, <1>7, <1>8, <1>9, <1>10
  DEF Next, HwSection, StopBody, Loop

\* What the refinement and the invariant both rest on: only a step of the
\* body of Stop changes what the chip holds.
LEMMA ChipUntouched ==
  ASSUME Inv, [Next]_vars, ~ \E ch \in Channels : SafeStop(ch)
  PROVE  hw' = hw /\ refused' = refused
<1> USE DEF muVars, stopVars, chipVars, vars
<1>1. ASSUME NEW ch \in Channels, WriteChannel(ch)
      PROVE  hw' = hw /\ refused' = refused
  <2>1. hw[ch] = Driven
    BY <1>1 DEF WriteChannel, Inv, PassInv, ChipInv
  <2> QED BY <1>1, <2>1 DEF WriteChannel, Inv, TypeOK
<1>2. CASE Apply \/ Signal \/ Main
  BY <1>2 DEF Apply, Signal, Main, MainSelect, MainJoins, MainTimesOut, MainExits
<1>3. CASE SwapUnlock \/ LeaveWrite \/ \E ch \in Channels : SwapChannel(ch)
  BY <1>3 DEF SwapUnlock, LeaveWrite, SwapChannel
<1>4. CASE CallStop \/ StopFlag \/ StopLock \/ StopUnlock \/ StopSave
  BY <1>4 DEF CallStop, StopFlag, StopLock, StopUnlock, StopSave
<1>5. CASE Wait \/ LockMu \/ ApplyPending \/ UnlockMu \/ Sense \/ EnterWrite
  BY <1>5 DEF Wait, LockMu, ApplyPending, UnlockMu, Sense, EnterWrite
<1>6. CASE Decide \/ Publish \/ CheckState \/ WriteState \/ Panic \/ LoopReturns
  BY <1>6 DEF Decide, Publish, CheckState, WriteState, Panic, LoopReturns
<1>7. CASE UNCHANGED vars
  BY <1>7
<1> QED
  BY <1>1, <1>2, <1>3, <1>4, <1>5, <1>6, <1>7
  DEF Next, HwSection, StopBody, Loop

\* Steps other than the ones that enter and leave the safe stop keep the
\* phase of the stop.
LEMMA PhaseKept ==
  ASSUME Inv, [Next]_vars, ~ StopLock, ~ StopUnlock
  PROVE  /\ Securing' = Securing /\ Secured' = Secured
         /\ (spc = "safe")' = (spc = "safe")
<1> USE DEF Inv, LockInv, Securing, Secured, muVars, stopVars, chipVars, vars
<1>1. CASE Apply \/ Signal \/ Main
  BY <1>1 DEF Apply, Signal, Main, MainSelect, MainJoins, MainTimesOut, MainExits
<1>2. CASE HwSection
  BY <1>2 DEF HwSection, SwapUnlock, LeaveWrite, SwapChannel, WriteChannel
<1>3. CASE CallStop \/ StopFlag
  BY <1>3 DEF CallStop, StopFlag
<1>4. CASE StopSave
  BY <1>4 DEF StopSave
<1>5. CASE \E ch \in Channels : SafeStop(ch)
  BY <1>5 DEF SafeStop
<1>6. CASE Loop
  BY <1>6 DEF Loop, Wait, LockMu, ApplyPending, UnlockMu, Sense, EnterWrite,
              Decide, Publish, CheckState, WriteState, Panic, LoopReturns
<1>7. CASE UNCHANGED vars
  BY <1>7
<1> QED
  BY <1>1, <1>2, <1>3, <1>4, <1>5, <1>6, <1>7 DEF Next, StopBody

\* Every step keeps what the chip holds in line with the progress of Stop.
LEMMA ChipStep ==
  ASSUME Inv, [Next]_vars
  PROVE  ChipInv'
<1> USE DEF ChipInv, NoWriteAfterStop, SafeStateOfOneConfig
<1>1. ASSUME NEW ch \in Channels, SafeStop(ch) PROVE ChipInv'
  <2>1. spc = "safe" /\ spc' = "safe" /\ once = "running" /\ once' = once
        /\ cfg' = cfg /\ todo' = todo \ {ch} /\ ch \in todo
    BY <1>1 DEF SafeStop, Inv, LockInv, stopVars, muVars
  <2>2. Securing' /\ ~ Secured'
    BY <2>1 DEF Securing, Secured
  <2>3. ASSUME NEW c \in Channels
        PROVE  IF c \in todo' THEN hw'[c] = Driven /\ c \notin refused'
               ELSE c \in refused' \/ hw'[c] = cfg'[c]
    <3>1. CASE hw' = [hw EXCEPT ![ch] = cfg[ch]] /\ refused' = refused
      BY <2>1, <3>1 DEF Inv, TypeOK
    <3>2. CASE refused' = refused \cup {ch} /\ hw' = hw
      BY <2>1, <3>2 DEF Inv
    <3> QED BY <1>1, <3>1, <3>2 DEF SafeStop
  <2> QED BY <2>1, <2>2, <2>3
<1>2. CASE StopLock
  <2>1. ~ Securing /\ todo' = Channels /\ hw' = hw /\ refused' = refused
        /\ spc' = "safe" /\ once' = once /\ once # "done"
    BY <1>2 DEF StopLock, Inv, LockInv, Securing, Secured
  <2>2. Securing' /\ ~ Secured'
    BY <2>1 DEF Securing, Secured
  <2> QED BY <2>1, <2>2 DEF Inv
<1>3. CASE StopUnlock
  <2>1. /\ spc = "safe" /\ todo = {} /\ spc' = "save" /\ hw' = hw
        /\ refused' = refused /\ lpc # "swap"
    BY <1>3 DEF StopUnlock, Inv, LockInv
  <2>2. \A ch \in Channels : ch \in refused \/ hw[ch] = cfg[ch]
    BY <2>1 DEF Inv
  <2>3. \A c1, c2 \in Channels : cfg[c1] = cfg[c2] /\ cfg[c1] # Driven
    BY <2>1 DEF Inv, ConfigInv, TypeOK, Generations, Driven
  <2> QED BY <2>1, <2>2, <2>3 DEF Securing, Secured
<1>4. CASE ~ StopLock /\ ~ StopUnlock /\ ~ \E ch \in Channels : SafeStop(ch)
  <2>1. hw' = hw /\ refused' = refused
    BY <1>4, ChipUntouched
  <2>2. Securing' = Securing /\ Secured' = Secured
        /\ (spc = "safe")' = (spc = "safe")
    BY <1>4, PhaseKept
  <2>3. spc = "safe" => todo' = todo /\ cfg' = cfg
    BY <1>4 DEF Inv, LockInv, Next, HwSection, StopBody, Main, Loop,
       SwapChannel, WriteChannel, SwapUnlock, LeaveWrite, CallStop, StopFlag,
       StopSave, MainSelect, MainJoins, MainTimesOut, MainExits, Wait, LockMu,
       ApplyPending, SwapLock, UnlockMu, Sense, EnterWrite, Decide, Publish,
       CheckState, WriteState, Panic, LoopReturns, Apply, Signal,
       muVars, stopVars, chipVars, vars
  <2> QED BY <2>1, <2>2, <2>3 DEF Inv
<1> QED BY <1>1, <1>2, <1>3, <1>4

\* The invariant is inductive.
LEMMA InvStep == Inv /\ [Next]_vars => Inv'
<1> SUFFICES ASSUME Inv, [Next]_vars PROVE Inv'
  OBVIOUS
<1>1. TypeOK'
  BY TypeStep DEF Inv
<1> QED BY <1>1, LockStep, ConfigStep, ChipStep DEF Inv

\* The invariant holds in every reachable state.
LEMMA InvHolds == Spec => []Inv
BY InitInv, InvStep, PTL DEF Spec

-----------------------------------------------------------------------------
\* Once Stop has put the channels into their safe state, no write pass and no
\* failsafe of the loop drives one of them again (writePhase, failsafeAll and
\* safeStopLocked under hwMu, the stopped flag).
THEOREM NoWriteAfterStopHolds == Spec => []NoWriteAfterStop
<1>1. Inv => NoWriteAfterStop
  BY DEF Inv, ChipInv
<1> QED BY InvHolds, <1>1, PTL

\* The safe state is always that of a single configuration, however a reload
\* and a stop interleave (swapChannelConfig and safeStopLocked under hwMu).
THEOREM SafeStateOfOneConfigHolds == Spec => []SafeStateOfOneConfig
<1>1. Inv => SafeStateOfOneConfig
  BY DEF Inv, ChipInv
<1> QED BY InvHolds, <1>1, PTL

\* The controller, its Stop and serveRun implement the abstract promise about
\* the daemon's end: driven, then secured channel by channel, then ended.
THEOREM ImplementsShutdown == Spec => ShutdownSpec
<1> DEFINE absPhase == IF mpc = "exited" THEN "ended"
                       ELSE IF spc \in {"safe", "save"} \/ once = "done"
                       THEN "securing" ELSE "regulating"
           absChip == [ch \in Channels |->
                         IF ch \in refused THEN "refused"
                         ELSE IF hw[ch] = Driven THEN "driven" ELSE "safe"]
<1>1. Init => Shutdown!Init
  BY DEF Init, Shutdown!Init
<1>2. Inv /\ [Next]_vars => [Shutdown!Next]_(Shutdown!vars)
  <2> SUFFICES ASSUME Inv, [Next]_vars PROVE [Shutdown!Next]_(Shutdown!vars)
    OBVIOUS
  <2>1. CASE StopLock
    <3>1. absPhase = "regulating" /\ absPhase' = "securing"
      BY <2>1 DEF StopLock, Alive, Inv, LockInv
    <3>2. absChip' = absChip
      BY <2>1 DEF StopLock
    <3> QED BY <3>1, <3>2 DEF Shutdown!Next, Shutdown!Secure
  <2>2. ASSUME NEW ch \in Channels, SafeStop(ch)
        PROVE  Shutdown!SecureChannel(ch)
    <3>1. absPhase = "securing" /\ absPhase' = "securing"
      BY <2>2 DEF SafeStop, Alive, stopVars
    <3>2. absChip[ch] = "driven"
      BY <2>2 DEF SafeStop, Inv, ChipInv
    <3>3. \E s \in {"safe", "refused"} : absChip' = [absChip EXCEPT ![ch] = s]
      <4>1. CASE hw' = [hw EXCEPT ![ch] = cfg[ch]] /\ refused' = refused
        <5>1. ch \notin refused /\ cfg[ch] # Driven
          BY <2>2 DEF SafeStop, Inv, ChipInv, TypeOK, Generations, Driven
        <5>2. absChip' = [absChip EXCEPT ![ch] = "safe"]
          BY <4>1, <5>1 DEF Inv, TypeOK
        <5> QED BY <5>2
      <4>2. CASE refused' = refused \cup {ch} /\ hw' = hw
        <5>1. absChip' = [absChip EXCEPT ![ch] = "refused"]
          BY <4>2
        <5> QED BY <5>1
      <4> QED BY <2>2, <4>1, <4>2 DEF SafeStop
    <3> QED BY <3>1, <3>2, <3>3 DEF Shutdown!SecureChannel
  <2>3. CASE MainExits
    <3>1. absPhase = "securing" /\ absPhase' = "ended"
      BY <2>3 DEF MainExits, StopReturns
    <3>2. absChip' = absChip
      BY <2>3 DEF MainExits, chipVars
    <3>3. \A ch \in Channels : absChip[ch] # "driven"
      BY <2>3 DEF MainExits, StopReturns, Inv, ChipInv, NoWriteAfterStop, Secured
    <3> QED BY <3>1, <3>2, <3>3 DEF Shutdown!Next, Shutdown!End
  <2>4. CASE ~ StopLock /\ ~ MainExits /\ ~ \E ch \in Channels : SafeStop(ch)
    <3>1. hw' = hw /\ refused' = refused
      BY <2>4, ChipUntouched
    <3>2. mpc' # "exited" <=> mpc # "exited"
      BY <2>4 DEF Next, HwSection, StopBody, Main, Loop,
         SwapChannel, WriteChannel, SwapUnlock, LeaveWrite, CallStop, StopFlag,
         StopUnlock, StopSave, MainSelect, MainJoins, MainTimesOut, Wait,
         LockMu, ApplyPending, UnlockMu, Sense, EnterWrite, Decide, Publish,
         CheckState, WriteState, Panic, LoopReturns, Apply, Signal, vars
    <3>3. (spc \in {"safe", "save"} \/ once = "done")'
          <=> (spc \in {"safe", "save"} \/ once = "done")
      <4>1. CASE StopUnlock
        BY <4>1 DEF StopUnlock
      <4>2. CASE ~ StopUnlock
        BY <2>4, <4>2, PhaseKept DEF Securing, Secured
      <4> QED BY <4>1, <4>2
    <3> QED BY <3>1, <3>2, <3>3 DEF Shutdown!vars
  <2> QED BY <2>1, <2>2, <2>3, <2>4 DEF Shutdown!Next
<1> QED BY InvHolds, <1>1, <1>2, PTL DEF Spec, ShutdownSpec, Shutdown!Spec
=============================================================================
