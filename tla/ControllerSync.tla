--------------------------- MODULE ControllerSync ---------------------------
(***************************************************************************)
(* The goroutines around the controller and their locks: the regulation    *)
(* loop (Controller.Run), the API handlers, Controller.Stop under its      *)
(* sync.Once, and the main goroutine of serveRun with its 15 s limit.      *)
(*                                                                         *)
(* What a cycle decides is module Regulation; here a write is just "the    *)
(* chip is driven".  What matters is who may touch the chip when: c.mu and *)
(* hwMu, the order they are taken in, the stopped flag, a panic inside a   *)
(* c.mu section, and a loop that hangs in a sensor read.                   *)
(***************************************************************************)
EXTENDS Naturals, FiniteSets

CONSTANTS
  Channels,   \* c.chans
  MaxReloads  \* bound: configurations Apply accepts in one behaviour

VARIABLES
  lpc,       \* the loop goroutine
  mpc,       \* the main goroutine (serveRun)
  spc,       \* inside stopOnce.Do
  once,      \* c.stopOnce: "new", "running", "done"
  mu,        \* c.mu: "free" or "loop" (API sections are single steps)
  hwMu,      \* c.hwMu: "free", "loop", "stop"
  stopped,   \* c.stopped
  ctxDone,   \* the context of NotifyContext is cancelled
  pending,   \* c.pending: {} or the generation Apply accepted
  accepted,  \* configurations accepted so far (bound)
  cfg,       \* ch.cfg per channel, as a generation number
  todo,      \* the channels the holder of hwMu has still to handle
  hw,        \* per channel: Driven, or the generation whose stop it holds
  refused,   \* the channels whose SafeStop failed
  stateFile  \* state.json exists

vars == <<lpc, mpc, spc, once, mu, hwMu, stopped, ctxDone, pending, accepted,
          cfg, todo, hw, refused, stateFile>>
muVars == <<mu, pending, accepted, cfg>>
stopVars == <<spc, once, stopped>>
chipVars == <<hwMu, todo, hw, refused>>

Driven == 0                     \* generations start at 1
Generations == 1..(MaxReloads + 1)

ASSUME ChannelsAssumption == IsFiniteSet(Channels) /\ Channels # {}
ASSUME BoundAssumption == MaxReloads \in Nat

LoopSteps ==
  {"wait", "lock", "apply", "swap", "unlock", "sense", "write", "writing",
   "decide", "failsafe", "failing", "publish", "checkstate", "state", "defer",
   "done"}

Init ==
  /\ lpc = "lock" /\ mpc = "select" /\ spc = "idle" /\ once = "new"
  /\ mu = "free" /\ hwMu = "free" /\ stopped = FALSE /\ ctxDone = FALSE
  /\ pending = {} /\ accepted = 0
  /\ cfg = [ch \in Channels |-> 1]
  /\ todo = {} /\ hw = [ch \in Channels |-> Driven] /\ refused = {}
  /\ stateFile = FALSE

\* The process is there until main returns.
Alive == mpc # "exited"

-----------------------------------------------------------------------------
(***************************************************************************)
(* The API.  Apply holds c.mu for an assignment.                           *)
(***************************************************************************)
Apply ==
  /\ Alive /\ mu = "free" /\ accepted < MaxReloads
  /\ accepted' = accepted + 1
  /\ pending' = {accepted + 2}
  /\ UNCHANGED <<lpc, mpc, stopVars, mu, ctxDone, cfg, chipVars, stateFile>>

(***************************************************************************)
(* The loop.                                                               *)
(***************************************************************************)
\* Wait returns at once when the context is done; Run then returns.
Wait ==
  /\ Alive /\ lpc = "wait"
  /\ lpc' = IF ctxDone THEN "defer" ELSE "lock"
  /\ UNCHANGED <<mpc, stopVars, muVars, ctxDone, chipVars, stateFile>>

LockMu ==
  /\ Alive /\ lpc = "lock" /\ mu = "free"
  /\ mu' = "loop"
  /\ lpc' = IF pending = {} THEN "unlock" ELSE "apply"
  /\ UNCHANGED <<mpc, stopVars, pending, accepted, cfg, ctxDone, chipVars,
                 stateFile>>

\* Mutant: the channels are swapped without hwMu.
SwapLockNone == hwMu' = hwMu

\* swapChannelConfig takes hwMu inside c.mu.
SwapLock == hwMu = "free" /\ hwMu' = "loop"

ApplyPending ==
  /\ Alive /\ lpc = "apply"
  /\ SwapLock
  /\ lpc' = "swap"
  /\ todo' = Channels
  /\ UNCHANGED <<mpc, stopVars, muVars, ctxDone, hw, refused, stateFile>>

SwapChannel(ch) ==
  /\ Alive /\ lpc = "swap" /\ ch \in todo
  /\ \E g \in pending : cfg' = [cfg EXCEPT ![ch] = g]
  /\ todo' = todo \ {ch}
  /\ UNCHANGED <<lpc, mpc, stopVars, mu, pending, accepted, ctxDone, hwMu, hw,
                 refused, stateFile>>

SwapUnlock ==
  /\ Alive /\ lpc = "swap" /\ todo = {}
  /\ pending' = {}
  /\ hwMu' = "free"
  /\ lpc' = "unlock"
  /\ UNCHANGED <<mpc, stopVars, mu, accepted, cfg, ctxDone, todo, hw, refused,
                 stateFile>>

UnlockMu ==
  /\ Alive /\ lpc = "unlock"
  /\ mu' = "free"
  /\ lpc' = "sense"
  /\ UNCHANGED <<mpc, stopVars, pending, accepted, cfg, ctxDone, chipVars,
                 stateFile>>

\* readSensors, computeTargets, checkStall: no lock; a sysfs read may hang.
Sense ==
  /\ Alive /\ lpc = "sense"
  /\ lpc' = "write"
  /\ UNCHANGED <<mpc, stopVars, muVars, ctxDone, chipVars, stateFile>>

\* Mutant: the write sections do not look at the flag.
WritesAllowedAlways == TRUE

\* writePhase and failsafeAll look at the flag with hwMu held.
WritesAllowed == ~stopped

\* writePhase, failsafeAll: hwMu for the whole pass over the channels; nothing
\* is written once the flag is set.
EnterWrite ==
  /\ Alive /\ lpc \in {"write", "failsafe"} /\ hwMu = "free"
  /\ hwMu' = "loop"
  /\ todo' = IF WritesAllowed THEN Channels ELSE {}
  /\ lpc' = IF lpc = "write" THEN "writing" ELSE "failing"
  /\ UNCHANGED <<mpc, stopVars, muVars, ctxDone, hw, refused, stateFile>>

WriteChannel(ch) ==
  /\ Alive /\ lpc \in {"writing", "failing"} /\ ch \in todo
  /\ hw' = [hw EXCEPT ![ch] = Driven]
  /\ todo' = todo \ {ch}
  /\ UNCHANGED <<lpc, mpc, stopVars, muVars, ctxDone, hwMu, refused, stateFile>>

LeaveWrite ==
  /\ Alive /\ lpc \in {"writing", "failing"} /\ todo = {}
  /\ hwMu' = "free"
  /\ lpc' = IF lpc = "writing" THEN "decide" ELSE "publish"
  /\ UNCHANGED <<mpc, stopVars, muVars, ctxDone, todo, hw, refused, stateFile>>

\* writeAndFinish: the failsafe after repeated write errors.
Decide ==
  /\ Alive /\ lpc = "decide"
  /\ lpc' \in {"failsafe", "publish"}
  /\ UNCHANGED <<mpc, stopVars, muVars, ctxDone, chipVars, stateFile>>

\* finishCycle: the snapshot is built under c.mu.
Publish ==
  /\ Alive /\ lpc = "publish" /\ mu = "free"
  /\ lpc' = "checkstate"
  /\ UNCHANGED <<mpc, stopVars, muVars, ctxDone, chipVars, stateFile>>

\* writeState looks at the flag, then writes the file; a cycle ends in the
\* wait or, when the device is lost, leaves Run.
CheckState ==
  /\ Alive /\ lpc = "checkstate"
  /\ lpc' \in (IF stopped THEN {"wait", "defer"} ELSE {"state"})
  /\ UNCHANGED <<mpc, stopVars, muVars, ctxDone, chipVars, stateFile>>

WriteState ==
  /\ Alive /\ lpc = "state"
  /\ stateFile' = TRUE
  /\ lpc' \in {"wait", "defer"}
  /\ UNCHANGED <<mpc, stopVars, muVars, ctxDone, chipVars>>

\* A panic unwinds to the recover in Run.  Sections with a deferred unlock
\* (hwMu) are left, c.mu stays locked: its sections in cycle and finishCycle
\* unlock without defer.  The swap itself is plain assignments and cannot
\* panic.
Panic ==
  /\ Alive /\ lpc \notin {"wait", "swap", "defer", "done"}
  /\ lpc' = "defer"
  /\ mu' \in (IF lpc = "publish" /\ mu = "free" THEN {"free", "loop"} ELSE {mu})
  /\ hwMu' = IF hwMu = "loop" THEN "free" ELSE hwMu
  /\ todo' = IF hwMu = "loop" THEN {} ELSE todo
  /\ UNCHANGED <<mpc, stopVars, pending, accepted, cfg, ctxDone, hw, refused,
                 stateFile>>

-----------------------------------------------------------------------------
(***************************************************************************)
(* Stop, called by the loop (deferred in Run) and by main.  The first      *)
(* caller runs the body, the other one waits for it.                       *)
(***************************************************************************)
\* Mutant: the second caller does not wait.
StopReturnsEarly == once # "new"

StopReturns == once = "done"

CallStop ==
  /\ Alive /\ once = "new" /\ (lpc = "defer" \/ mpc = "stop")
  /\ once' = "running" /\ spc' = "flag"
  /\ UNCHANGED <<lpc, mpc, stopped, muVars, ctxDone, chipVars, stateFile>>

StopFlag ==
  /\ Alive /\ spc = "flag"
  /\ stopped' = TRUE
  /\ spc' = "lock"
  /\ UNCHANGED <<lpc, mpc, once, muVars, ctxDone, chipVars, stateFile>>

\* Mutant: Stop takes c.mu as well.
StopLocksBoth == hwMu = "free" /\ mu = "free"

\* safeStopLocked takes only hwMu.
StopLocks == hwMu = "free"

StopLock ==
  /\ Alive /\ spc = "lock" /\ StopLocks
  /\ hwMu' = "stop"
  /\ todo' = Channels
  /\ spc' = "safe"
  /\ UNCHANGED <<lpc, mpc, once, stopped, muVars, ctxDone, hw, refused,
                 stateFile>>

SafeStop(ch) ==
  /\ Alive /\ spc = "safe" /\ ch \in todo
  /\ todo' = todo \ {ch}
  /\ \/ /\ hw' = [hw EXCEPT ![ch] = cfg[ch]]
        /\ UNCHANGED refused
     \/ /\ refused' = refused \cup {ch}       \* logged, the next one follows
        /\ UNCHANGED hw
  /\ UNCHANGED <<lpc, mpc, stopVars, muVars, ctxDone, hwMu, stateFile>>

StopUnlock ==
  /\ Alive /\ spc = "safe" /\ todo = {}
  /\ stateFile' = FALSE
  /\ hwMu' = "free"
  /\ spc' = "save"
  /\ UNCHANGED <<lpc, mpc, once, stopped, muVars, ctxDone, todo, hw, refused>>

\* hist.Save, outside hwMu.
StopSave ==
  /\ Alive /\ spc = "save"
  /\ spc' = "idle" /\ once' = "done"
  /\ UNCHANGED <<lpc, mpc, stopped, muVars, ctxDone, chipVars, stateFile>>

LoopReturns ==
  /\ Alive /\ lpc = "defer" /\ StopReturns
  /\ lpc' = "done"
  /\ UNCHANGED <<mpc, stopVars, muVars, ctxDone, chipVars, stateFile>>

-----------------------------------------------------------------------------
(***************************************************************************)
(* serveRun.                                                               *)
(***************************************************************************)
\* SIGTERM, SIGINT, or a fatal error of the socket or web server.
Signal ==
  /\ Alive /\ ~ctxDone
  /\ ctxDone' = TRUE
  /\ UNCHANGED <<lpc, mpc, stopVars, muVars, chipVars, stateFile>>

\* The select on ctx.Done and errc, then cancel().
MainSelect ==
  /\ mpc = "select" /\ (ctxDone \/ lpc = "done")
  /\ ctxDone' = TRUE
  /\ mpc' = "join"
  /\ UNCHANGED <<lpc, stopVars, muVars, chipVars, stateFile>>

\* ctrlDone.
MainJoins ==
  /\ mpc = "join" /\ lpc = "done"
  /\ mpc' = "stop"
  /\ UNCHANGED <<lpc, stopVars, muVars, ctxDone, chipVars, stateFile>>

\* 15 s passed: stop from here.
MainTimesOut ==
  /\ mpc = "join" /\ lpc # "done"
  /\ mpc' = "stop"
  /\ UNCHANGED <<lpc, stopVars, muVars, ctxDone, chipVars, stateFile>>

MainExits ==
  /\ mpc = "stop" /\ StopReturns
  /\ mpc' = "exited"
  /\ UNCHANGED <<lpc, stopVars, muVars, ctxDone, chipVars, stateFile>>

-----------------------------------------------------------------------------
\* The steps that finish what holds hwMu, and Stop itself.
HwSection ==
  \/ \E ch \in Channels : SwapChannel(ch) \/ WriteChannel(ch)
  \/ SwapUnlock \/ LeaveWrite
StopBody ==
  \/ CallStop \/ StopFlag \/ StopLock \/ StopUnlock \/ StopSave
  \/ \E ch \in Channels : SafeStop(ch)
Main == MainSelect \/ MainJoins \/ MainTimesOut \/ MainExits
Loop ==
  \/ Wait \/ LockMu \/ ApplyPending \/ UnlockMu \/ Sense \/ EnterWrite
  \/ Decide \/ Publish \/ CheckState \/ WriteState \/ Panic \/ LoopReturns

Next == HwSection \/ StopBody \/ Main \/ Loop \/ Apply \/ Signal

Spec == Init /\ [][Next]_vars

(***************************************************************************)
(* Fairness: main and the body of Stop run, and a write to the chip that   *)
(* has begun returns.  Nothing is assumed of the rest of the loop (a       *)
(* sensor read may hang for ever), of callers or of signals.               *)
(***************************************************************************)
FairSpec ==
  /\ Spec
  /\ WF_vars(HwSection) /\ WF_vars(StopBody) /\ WF_vars(Main)
  /\ WF_vars(LoopReturns)

-----------------------------------------------------------------------------
TypeOK ==
  /\ lpc \in LoopSteps /\ mpc \in {"select", "join", "stop", "exited"}
  /\ spc \in {"idle", "flag", "lock", "safe", "save"}
  /\ once \in {"new", "running", "done"}
  /\ mu \in {"free", "loop"} /\ hwMu \in {"free", "loop", "stop"}
  /\ stopped \in BOOLEAN /\ ctxDone \in BOOLEAN /\ stateFile \in BOOLEAN
  /\ pending \subseteq Generations /\ accepted \in 0..MaxReloads
  /\ cfg \in [Channels -> Generations]
  /\ todo \subseteq Channels /\ refused \subseteq Channels
  /\ hw \in [Channels -> Generations \cup {Driven}]

\* The body of Stop has handled every channel.
Secured == spc = "save" \/ once = "done"

\* After the safe stop nothing drives the chip again, although the loop may be
\* anywhere in its cycle, with a write pass or the failsafe still ahead of it
\* (writePhase, failsafeAll, safeStopLocked).
NoWriteAfterStop ==
  Secured => \A ch \in Channels : hw[ch] # Driven \/ ch \in refused

\* The safe state is one configuration's: a stop that falls into a reload does
\* not leave one channel at the old and another at the new stop value
\* (swapChannelConfig and safeStopLocked under hwMu).
SafeStateOfOneConfig ==
  Secured => \A c1, c2 \in Channels \ refused : hw[c1] = hw[c2]

\* The daemon implements its promise about its end: in particular the process
\* ends by itself only after every channel was handled, whoever ran the stop
\* (stopOnce, serveRun).
Shutdown == INSTANCE SafeShutdown WITH
  phase <- IF mpc = "exited" THEN "ended"
           ELSE IF spc \in {"safe", "save"} \/ once = "done" THEN "securing"
           ELSE "regulating",
  chip <- [ch \in Channels |->
             IF ch \in refused THEN "refused"
             ELSE IF hw[ch] = Driven THEN "driven" ELSE "safe"]
ShutdownSpec == Shutdown!Spec

\* A stop request is served although the loop hangs in a sensor read, and
\* although a panic left c.mu locked: main needs neither (Stop takes only
\* hwMu; the 15 s limit).  A panic in the loop, with whatever lock it held, ends
\* the daemon the same way.
StopServed == (ctxDone \/ lpc = "defer") ~> mpc = "exited"

\* As the comment in writeState has it: after Stop the file is gone and does
\* not come back.  The flag is looked at before the file is written, without
\* a lock.
StateFileGone == once = "done" => ~stateFile
=============================================================================
