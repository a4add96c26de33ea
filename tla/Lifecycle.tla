------------------------------ MODULE Lifecycle ------------------------------
(***************************************************************************)
(* The daemon as a process: the systemd unit that starts, watches and      *)
(* restarts it, the writer lock it shares with `test` and `validate`, and  *)
(* the `failsafe` command that runs after every end of it (ExecStopPost).  *)
(*                                                                         *)
(* The process may be killed at any point.  What the loop writes is module *)
(* Regulation and how it stops is module ControllerSync; here a channel is *)
(* driven by the daemon, under test, in its safe state, or in a state the  *)
(* device refused to leave.                                                *)
(***************************************************************************)
EXTENDS Naturals, FiniteSets

CONSTANTS
  Channels,    \* the pwm outputs of the device
  Builtin,     \* the ones SanitizeChannels adds to every configuration
  InitialFile, \* the channels of config.toml at first
  Edits,       \* channel sets an operator may put into config.toml
  LockErrors,  \* taking writer.lock can fail for another reason than "busy"
  Forced,      \* `test --force`
  MaxStarts,   \* StartLimitBurst
  MaxTools     \* bound: runs of test or validate in one behaviour

VARIABLES
  unit,      \* "inactive", "starting", "running", "post", "waiting", "failed"
  stopping,  \* the operator asked the unit to stop: no restart
  starts,    \* starts within StartLimitIntervalSec
  serve,     \* the daemon: "none", or the stage it is in
  clean,     \* its exit code was 0
  managed,   \* the channels its controller was built with
  left,      \* the channels its Stop has still to handle
  file,      \* the channels of config.toml
  lock,      \* writer.lock: "free", "serve", "failsafe", "tool"
  unlocked,  \* the writers that go on without the lock after a lock error
  post,      \* the failsafe command: "none", "lock", "safe"
  todo,      \* the channels it has still to handle
  tool,      \* test or validate: "none", "checked", "running", "restoring"
  touched,   \* the channels it wrote
  tools,     \* runs so far (bound)
  chip,      \* per channel: "safe", "driven", "test", "refused"
  missed     \* history: channels of the daemon no failsafe has handled since

unitVars == <<unit, stopping, starts>>
serveVars == <<serve, clean, managed, left>>
lockVars == <<lock, unlocked>>
postVars == <<post, todo>>
toolVars == <<tool, touched, tools>>
chipVars == <<chip, missed>>
vars == <<unitVars, serveVars, file, lockVars, postVars, toolVars, chipVars>>

ASSUME ChannelsAssumption ==
  /\ IsFiniteSet(Channels) /\ Channels # {}
  /\ Builtin \subseteq Channels /\ InitialFile \subseteq Channels
  /\ Edits \subseteq SUBSET Channels
ASSUME SwitchAssumption == LockErrors \in BOOLEAN /\ Forced \in BOOLEAN
ASSUME BoundAssumption == MaxStarts \in Nat \ {0} /\ MaxTools \in Nat

Stages ==
  {"none", "config", "lock", "device", "regulating", "hung", "stopping"}

\* SanitizeChannels: the channels a configuration stands for.
Configured(f) == f \cup Builtin

Init ==
  /\ unit = "inactive" /\ stopping = FALSE /\ starts = 0
  /\ serve = "none" /\ clean = TRUE /\ managed = {} /\ left = {}
  /\ file = InitialFile
  /\ lock = "free" /\ unlocked = {}
  /\ post = "none" /\ todo = {}
  /\ tool = "none" /\ touched = {} /\ tools = 0
  /\ chip = [ch \in Channels |-> "safe"] /\ missed = {}

\* A process is gone: the kernel drops its lock.
Released(who) ==
  /\ lock' = IF lock = who THEN "free" ELSE lock
  /\ unlocked' = unlocked \ {who}

-----------------------------------------------------------------------------
(***************************************************************************)
(* The unit.                                                               *)
(***************************************************************************)
OperatorStarts ==
  /\ unit \in {"inactive", "failed"}
  /\ unit' = "starting" /\ stopping' = FALSE /\ starts' = 1
  /\ UNCHANGED <<serveVars, file, lockVars, postVars, toolVars, chipVars>>

\* systemctl stop: what runs is stopped, what waits does not come back.
OperatorStops ==
  /\ unit \notin {"inactive", "failed"} /\ ~stopping
  /\ stopping' = TRUE
  /\ unit' = IF unit = "waiting" THEN "inactive" ELSE unit
  /\ UNCHANGED <<starts, serveVars, file, lockVars, postVars, toolVars,
                 chipVars>>

\* ExecStartPre (check); then ExecStart.
CheckPasses ==
  /\ unit = "starting"
  /\ unit' = "running" /\ serve' = "config"
  /\ UNCHANGED <<stopping, starts, clean, managed, left, file, lockVars,
                 postVars, toolVars, chipVars>>

CheckFails ==
  /\ unit = "starting"
  /\ unit' = "post" /\ post' = "lock" /\ clean' = FALSE
  /\ UNCHANGED <<stopping, starts, serve, managed, left, file, lockVars, todo,
                 toolVars, chipVars>>

\* ExecStopPost after every end of the main process.
StartPost ==
  /\ unit = "running" /\ serve = "none"
  /\ unit' = "post" /\ post' = "lock"
  /\ UNCHANGED <<stopping, starts, serveVars, file, lockVars, todo, toolVars,
                 chipVars>>

\* Mutant: Restart=on-failure.
RestartsOnFailure == ~stopping /\ ~clean

\* Restart=always.
Restarts == ~stopping

EndPost ==
  /\ unit = "post" /\ post = "none"
  /\ unit' = IF ~Restarts THEN "inactive"
             ELSE IF starts < MaxStarts THEN "waiting" ELSE "failed"
  /\ clean' = TRUE /\ managed' = {}       \* of the daemon that is gone
  /\ UNCHANGED <<stopping, starts, serve, left, file, lockVars, postVars,
                 toolVars, chipVars>>

Restart ==
  /\ unit = "waiting"
  /\ unit' = "starting" /\ starts' = starts + 1
  /\ UNCHANGED <<stopping, serveVars, file, lockVars, postVars, toolVars,
                 chipVars>>

\* StartLimitIntervalSec passed with a running daemon.
LimitForgets ==
  /\ serve = "regulating" /\ starts > 0
  /\ starts' = 0
  /\ UNCHANGED <<unit, stopping, serveVars, file, lockVars, postVars,
                 toolVars, chipVars>>

\* config.toml is edited; a running daemon answers "restart required" to a
\* changed channel set and goes on with the one it has.
EditFile ==
  /\ \E f \in Edits : f # file /\ file' = f
  /\ UNCHANGED <<unitVars, serveVars, lockVars, postVars, toolVars, chipVars>>

-----------------------------------------------------------------------------
(***************************************************************************)
(* serve.                                                                  *)
(***************************************************************************)
\* The process ends with an exit code; deferred calls release the lock.
Exits(ok) ==
  /\ serve' = "none" /\ clean' = ok /\ left' = {}
  /\ Released("serve")
  /\ UNCHANGED <<unitVars, managed, file, postVars, toolVars, chipVars>>

ServeConfig ==
  /\ serve = "config"
  /\ \/ /\ serve' = "lock"
        /\ managed' = Configured(file)
        /\ UNCHANGED <<unitVars, clean, left, file, lockVars, postVars,
                       toolVars, chipVars>>
     \/ Exits(FALSE)                                   \* run dir

\* Busy = another writer, the daemon does not start; any other lock error does
\* not keep it from regulating.
ServeWriterLock ==
  /\ serve = "lock"
  /\ \/ lock # "free" /\ Exits(FALSE)
     \/ /\ lock = "free"
        /\ lock' = "serve" /\ serve' = "device"
        /\ UNCHANGED <<unlocked, unitVars, clean, managed, left, file,
                       postVars, toolVars, chipVars>>
     \/ /\ LockErrors
        /\ unlocked' = unlocked \cup {"serve"}
        /\ serve' = "device"
        /\ UNCHANGED <<lock, unitVars, clean, managed, left, file, postVars,
                       toolVars, chipVars>>

\* detectDevice, newController; then serveRun starts the loop.
ServeDevice ==
  /\ serve = "device"
  /\ \/ /\ serve' = "regulating"
        /\ UNCHANGED <<unitVars, clean, managed, left, file, lockVars,
                       postVars, toolVars, chipVars>>
     \/ Exits(FALSE)

Regulate(ch) ==
  /\ serve = "regulating" /\ ch \in managed
  /\ chip' = [chip EXCEPT ![ch] = "driven"]
  /\ UNCHANGED <<unitVars, serveVars, file, lockVars, postVars, toolVars,
                 missed>>

Hangs ==
  /\ serve = "regulating"
  /\ serve' = "hung"
  /\ UNCHANGED <<unitVars, clean, managed, left, file, lockVars, postVars,
                 toolVars, chipVars>>

\* A signal (exit code 0), or ErrDeviceLost, a panic, a server error (1): Stop
\* runs in the loop or, when that hangs, in main.
ServeStops ==
  /\ serve \in {"regulating", "hung"}
  /\ serve' = "stopping" /\ left' = managed
  /\ clean' \in BOOLEAN
  /\ UNCHANGED <<unitVars, managed, file, lockVars, postVars, toolVars,
                 chipVars>>

SafeStop(ch) ==
  /\ serve = "stopping" /\ ch \in left
  /\ left' = left \ {ch}
  /\ \E s \in {"safe", "refused"} : chip' = [chip EXCEPT ![ch] = s]
  /\ UNCHANGED <<unitVars, serve, clean, managed, file, lockVars, postVars,
                 toolVars, missed>>

ServeEnds ==
  /\ serve = "stopping" /\ left = {}
  /\ Exits(clean)

\* SIGKILL, OOM, TimeoutStopSec; the default action of SIGTERM before serveRun.
Killed ==
  /\ serve # "none"
  /\ Exits(FALSE)

\* watchdogAlive: the ticker pings only while cycles finish.
WatchdogAlive == serve # "hung"

\* WatchdogSec: without pings the process is killed.
WatchdogKills ==
  /\ serve = "hung" /\ ~WatchdogAlive
  /\ Exits(FALSE)

-----------------------------------------------------------------------------
(***************************************************************************)
(* failsafe.                                                               *)
(***************************************************************************)
\* A busy lock: that writer restores its own channels, nothing is written.
FailsafeBusy ==
  /\ post = "lock" /\ lock # "free"
  /\ post' = "none"
  /\ missed' = missed \cup managed
  /\ UNCHANGED <<unitVars, serveVars, file, lockVars, todo, toolVars, chip>>

\* The channels of config.toml as it is now.
FailsafeLocks ==
  /\ post = "lock"
  /\ \/ lock = "free" /\ lock' = "failsafe" /\ UNCHANGED unlocked
     \/ LockErrors /\ unlocked' = unlocked \cup {"failsafe"} /\ UNCHANGED lock
  /\ post' = "safe" /\ todo' = Configured(file)
  /\ missed' = (missed \cup managed) \ Configured(file)
  /\ UNCHANGED <<unitVars, serveVars, file, toolVars, chip>>

\* The device is gone (driver unloaded, the EC has control).
FailsafeNoDevice ==
  /\ post = "safe" /\ todo = Configured(file)
  /\ post' = "none" /\ todo' = {}
  /\ Released("failsafe")
  /\ chip' = [ch \in Channels |-> "refused"]
  /\ UNCHANGED <<unitVars, serveVars, file, toolVars, missed>>

FailsafeChannel(ch) ==
  /\ post = "safe" /\ ch \in todo
  /\ todo' = todo \ {ch}
  /\ \E s \in {"safe", "refused"} : chip' = [chip EXCEPT ![ch] = s]
  /\ UNCHANGED <<unitVars, serveVars, file, lockVars, post, toolVars, missed>>

\* Mutant: the first channel that fails ends the command.
FailsafeDoneOnError == todo = {} \/ \E ch \in Channels : chip[ch] = "refused"

\* Failsafe continues after errors.
FailsafeDone == todo = {}

FailsafeEnds ==
  /\ post = "safe" /\ FailsafeDone
  /\ post' = "none" /\ todo' = {}
  /\ Released("failsafe")
  /\ UNCHANGED <<unitVars, serveVars, file, toolVars, chipVars>>

-----------------------------------------------------------------------------
(***************************************************************************)
(* test, validate.                                                         *)
(***************************************************************************)
\* unitRunning, daemonRunning: refused while the unit is up or on its way.
ToolChecks ==
  /\ tool = "none" /\ tools < MaxTools
  /\ Forced \/ unit \in {"inactive", "failed"}
  /\ tool' = "checked" /\ tools' = tools + 1
  /\ UNCHANGED <<unitVars, serveVars, file, lockVars, postVars, touched,
                 chipVars>>

\* Mutant: the lock is not asked.
ToolMayRunAlways == TRUE

ToolMayRun == lock = "free"

ToolLocks ==
  /\ tool = "checked" /\ ToolMayRun
  /\ tool' = "running" /\ lock' = "tool"
  /\ UNCHANGED <<unitVars, serveVars, file, unlocked, postVars, touched,
                 tools, chipVars>>

\* Busy, or any other lock error: nothing is written.
ToolRefused ==
  /\ tool = "checked" /\ (lock # "free" \/ LockErrors)
  /\ tool' = "none"
  /\ UNCHANGED <<unitVars, serveVars, file, lockVars, postVars, touched,
                 tools, chipVars>>

ToolWrites(ch) ==
  /\ tool = "running"
  /\ chip' = [chip EXCEPT ![ch] = "test"]
  /\ touched' = touched \cup {ch}
  /\ UNCHANGED <<unitVars, serveVars, file, lockVars, postVars, tool, tools,
                 missed>>

\* The end of the run, a limit, a signal or a panic: the deferred restore.
ToolStops ==
  /\ tool = "running"
  /\ tool' = "restoring"
  /\ UNCHANGED <<unitVars, serveVars, file, lockVars, postVars, touched,
                 tools, chipVars>>

ToolRestores(ch) ==
  /\ tool = "restoring" /\ ch \in touched
  /\ touched' = touched \ {ch}
  /\ \E s \in {"safe", "refused"} : chip' = [chip EXCEPT ![ch] = s]
  /\ UNCHANGED <<unitVars, serveVars, file, lockVars, postVars, tool, tools,
                 missed>>

ToolEnds ==
  /\ tool = "restoring" /\ touched = {}
  /\ tool' = "none"
  /\ Released("tool")
  /\ UNCHANGED <<unitVars, serveVars, file, postVars, touched, tools,
                 chipVars>>

ToolKilled ==
  /\ tool # "none"
  /\ tool' = "none" /\ touched' = {}
  /\ Released("tool")
  /\ UNCHANGED <<unitVars, serveVars, file, postVars, tools, chipVars>>

-----------------------------------------------------------------------------
Systemd == CheckPasses \/ CheckFails \/ StartPost \/ EndPost \/ Restart
Serve ==
  \/ ServeConfig \/ ServeWriterLock \/ ServeDevice \/ ServeEnds
  \/ \E ch \in Channels : SafeStop(ch)
FailsafeCmd ==
  \/ FailsafeBusy \/ FailsafeLocks \/ FailsafeNoDevice \/ FailsafeEnds
  \/ \E ch \in Channels : FailsafeChannel(ch)
Tool ==
  \/ ToolChecks \/ ToolLocks \/ ToolRefused \/ ToolStops \/ ToolEnds
  \/ ToolKilled
  \/ \E ch \in Channels : ToolWrites(ch) \/ ToolRestores(ch)

Next ==
  \/ Systemd \/ Serve \/ FailsafeCmd \/ Tool
  \/ OperatorStarts \/ OperatorStops \/ LimitForgets \/ EditFile
  \/ Hangs \/ ServeStops \/ Killed \/ WatchdogKills
  \/ \E ch \in Channels : Regulate(ch)

Spec == Init /\ [][Next]_vars

(***************************************************************************)
(* Fairness: systemd does its work, the daemon gets through its start and  *)
(* its stop, the failsafe command runs, the watchdog of a hung daemon      *)
(* expires.  Nothing is assumed of operators, tools, hangs or kills.       *)
(***************************************************************************)
FairSpec ==
  /\ Spec
  /\ WF_vars(Systemd) /\ WF_vars(Serve) /\ WF_vars(FailsafeCmd)
  /\ WF_vars(WatchdogKills)

-----------------------------------------------------------------------------
TypeOK ==
  /\ unit \in {"inactive", "starting", "running", "post", "waiting", "failed"}
  /\ stopping \in BOOLEAN /\ starts \in 0..MaxStarts
  /\ serve \in Stages /\ clean \in BOOLEAN
  /\ managed \subseteq Channels /\ left \subseteq Channels
  /\ file \subseteq Channels
  /\ lock \in {"free", "serve", "failsafe", "tool"}
  /\ unlocked \subseteq {"serve", "failsafe"}
  /\ post \in {"none", "lock", "safe"} /\ todo \subseteq Channels
  /\ tool \in {"none", "checked", "running", "restoring"}
  /\ touched \subseteq Channels /\ tools \in 0..MaxTools
  /\ chip \in [Channels -> {"safe", "driven", "test", "refused"}]
  /\ missed \subseteq Channels

\* The processes that may write pwm files.
Writers ==
  {w \in {"serve", "failsafe", "tool"} :
     \/ w = "serve" /\ serve \in {"regulating", "hung", "stopping"}
     \/ w = "failsafe" /\ post = "safe"
     \/ w = "tool" /\ tool \in {"running", "restoring"}}

\* Two processes write pwm files at the same time only when one of them could
\* not take the lock for another reason than "busy" and goes on without it;
\* the daemon and its own failsafe never do (serveWriterLock, cmdFailsafe,
\* cmdTest, acquireWriterLock, ExecStopPost).
OneWriter ==
  /\ Cardinality(Writers \ unlocked) <= 1
  /\ ~ {"serve", "failsafe"} \subseteq Writers

Settled == unit \in {"inactive", "failed"} /\ tool = "none"

\* After stops, crashes and kills at any stage of start, regulation and stop, a
\* unit at rest leaves a channel at a duty of the daemon only if its failsafe
\* did not have it: because config.toml had lost it by then, or because a tool
\* had the writer lock (cmdFailsafe, control.Failsafe, safeStopLocked).
EndsSafe ==
  Settled => \A ch \in Channels : chip[ch] = "driven" => ch \in missed

\* As the configuration manual has it: on stop every channel goes to its stop
\* value, and ExecStopPost repeats this after crashes and kills.  The failsafe
\* reads config.toml as it is then, not as the daemon had read it.
AllAtStop == Settled => \A ch \in Channels : chip[ch] # "driven"

\* A daemon that ended regulates again, unless an operator stopped the unit,
\* the start limit is reached, or a tool has the lock (Restart=always; the
\* exit code does not matter).  One that hangs is ended by the watchdog first
\* (watchdogAlive, WatchdogSec).
BackToWork ==
  unit = "running" /\ serve \in {"none", "hung"} ~>
    \/ serve = "regulating" \/ stopping \/ unit = "failed" \/ tool # "none"
=============================================================================
