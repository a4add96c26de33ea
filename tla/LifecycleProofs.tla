--------------------------- MODULE LifecycleProofs ---------------------------
(***************************************************************************)
(* Proofs about module Lifecycle, for every device, channel set and bound. *)
(*                                                                         *)
(* OneWriter needs who holds writer.lock in which stage (LockInv).         *)
(* EndsSafe needs in addition where a driven channel can still be: with    *)
(* the daemon, on its way to the failsafe, in the failsafe's list, or      *)
(* missed (EndInv).  When config.toml keeps its channel set and no tool    *)
(* runs nothing is ever missed (KeepInv), and the manual's AllAtStop       *)
(* follows; the run crash_after_edit shows that it fails without the first *)
(* of the two conditions.                                                  *)
(***************************************************************************)
EXTENDS Lifecycle, FiniteSetTheorems, TLAPS

\* The stages of serve after serveWriterLock.
Held == {"device", "regulating", "hung", "stopping"}

\* A process past its lock step has the lock or is known to go on without it,
\* and nobody else holds it; processes of the unit follow the unit's state.
LockInv ==
  /\ serve \in Held => lock = "serve" \/ "serve" \in unlocked
  /\ lock = "serve" => serve \in Held
  /\ post = "safe" => lock = "failsafe" \/ "failsafe" \in unlocked
  /\ lock = "failsafe" => post = "safe"
  /\ tool \in {"running", "restoring"} <=> lock = "tool"
  /\ serve # "none" => unit = "running"
  /\ post # "none" => unit = "post"

\* A restart is only scheduled below the start limit.
LimitInv == unit = "waiting" => starts < MaxStarts

\* The daemon or the failsafe that follows it still has its channels.
Underway ==
  \/ serve \in {"regulating", "hung", "stopping"}
  \/ unit = "running" /\ serve = "none"
  \/ post = "lock"

\* Where a channel at a duty of the daemon can be.
EndInv ==
  \A ch \in Channels :
    chip[ch] = "driven" =>
      \/ ch \in missed
      \/ post = "safe" /\ ch \in todo
      \/ ch \in managed /\ Underway

\* Without edits and tools the failsafe's list covers the daemon's channels.
KeepInv ==
  /\ file = InitialFile /\ tool = "none"
  /\ managed \subseteq Configured(InitialFile)
  /\ missed = {}

-----------------------------------------------------------------------------
\* Every action keeps the variables in their sets and the starts in their limit.
LEMMA TypeStep == TypeOK /\ LimitInv /\ [Next]_vars => (TypeOK /\ LimitInv)'
  <1> SUFFICES ASSUME TypeOK, LimitInv, [Next]_vars
               PROVE  (TypeOK /\ LimitInv)'
      OBVIOUS
  <1> USE ChannelsAssumption, BoundAssumption DEF ChannelsAssumption,
          BoundAssumption, LimitInv
  <1>0. 0 \in 0..MaxStarts /\ 1 \in 0..MaxStarts
      OBVIOUS
  <1> USE DEF TypeOK, Stages, unitVars, serveVars,
          lockVars, postVars, toolVars, chipVars
  <1>1. CASE CheckPasses
      BY <1>1 DEF CheckPasses
  <1>2. CASE CheckFails
      BY <1>2 DEF CheckFails
  <1>3. CASE StartPost
      BY <1>3 DEF StartPost
  <1>4. CASE EndPost
      BY <1>4 DEF EndPost, Restarts
  <1>5. CASE Restart
      BY <1>5 DEF Restart
  <1>6. CASE ServeConfig
    <2>1. unlocked' \subseteq {"serve", "failsafe"}
        BY <1>6 DEF ServeConfig, Exits, Released
    <2>2. lock' \in {"free", "serve", "failsafe", "tool"}
        BY <1>6 DEF ServeConfig, Exits, Released
    <2>3. /\ serve' \in Stages /\ clean' \in BOOLEAN
          /\ managed' \subseteq Channels /\ left' \subseteq Channels
        BY <1>6 DEF ServeConfig, Exits, Configured
    <2>4. UNCHANGED <<unitVars, file, postVars, toolVars, chipVars>>
        BY <1>6 DEF ServeConfig, Exits
    <2>5. QED
        BY <2>1, <2>2, <2>3, <2>4
  <1>7. CASE ServeWriterLock
    <2>1. unlocked' \subseteq {"serve", "failsafe"}
        BY <1>7 DEF ServeWriterLock, Exits, Released
    <2>2. lock' \in {"free", "serve", "failsafe", "tool"}
        BY <1>7 DEF ServeWriterLock, Exits, Released
    <2>3. /\ serve' \in {"none", "device"} /\ clean' \in BOOLEAN
          /\ left' \subseteq Channels
        BY <1>7 DEF ServeWriterLock, Exits
    <2>4. UNCHANGED <<unitVars, managed, file, postVars, toolVars, chipVars>>
        BY <1>7 DEF ServeWriterLock, Exits
    <2>5. QED
        BY <2>1, <2>2, <2>3, <2>4
  <1>8. CASE ServeDevice
    <2>1. unlocked' \subseteq {"serve", "failsafe"}
        BY <1>8 DEF ServeDevice, Exits, Released
    <2>2. lock' \in {"free", "serve", "failsafe", "tool"}
        BY <1>8 DEF ServeDevice, Exits, Released
    <2>3. /\ serve' \in Stages /\ clean' \in BOOLEAN
          /\ managed' \subseteq Channels /\ left' \subseteq Channels
        BY <1>8 DEF ServeDevice, Exits
    <2>4. UNCHANGED <<unitVars, file, postVars, toolVars, chipVars>>
        BY <1>8 DEF ServeDevice, Exits
    <2>5. QED
        BY <2>1, <2>2, <2>3, <2>4
  <1>9. CASE ServeEnds
      BY <1>9 DEF ServeEnds, Exits, Released
  <1>10. CASE \E ch \in Channels : SafeStop(ch)
      BY <1>10 DEF SafeStop
  <1>11. CASE FailsafeBusy
      BY <1>11 DEF FailsafeBusy
  <1>12. CASE FailsafeLocks
    <2>1. unlocked' \subseteq {"serve", "failsafe"}
        BY <1>12 DEF FailsafeLocks
    <2>2. lock' \in {"free", "serve", "failsafe", "tool"}
        BY <1>12 DEF FailsafeLocks
    <2>3. /\ post' = "safe" /\ todo' \subseteq Channels
          /\ missed' \subseteq Channels
        BY <1>12 DEF FailsafeLocks, Configured
    <2>4. UNCHANGED <<unitVars, serveVars, file, toolVars, chip>>
        BY <1>12 DEF FailsafeLocks
    <2>5. QED
        BY <2>1, <2>2, <2>3, <2>4
  <1>13. CASE FailsafeNoDevice
      BY <1>13 DEF FailsafeNoDevice, Released
  <1>14. CASE FailsafeEnds
      BY <1>14 DEF FailsafeEnds, Released, FailsafeDone
  <1>15. CASE \E ch \in Channels : FailsafeChannel(ch)
      BY <1>15 DEF FailsafeChannel
  <1>16. CASE ToolChecks
      BY <1>16 DEF ToolChecks
  <1>17. CASE ToolLocks
      BY <1>17 DEF ToolLocks, ToolMayRun
  <1>18. CASE ToolRefused
      BY <1>18 DEF ToolRefused
  <1>19. CASE ToolStops
      BY <1>19 DEF ToolStops
  <1>20. CASE ToolEnds
      BY <1>20 DEF ToolEnds, Released
  <1>21. CASE ToolKilled
      BY <1>21 DEF ToolKilled, Released
  <1>22. CASE \E ch \in Channels : ToolWrites(ch)
      BY <1>22 DEF ToolWrites
  <1>23. CASE \E ch \in Channels : ToolRestores(ch)
      BY <1>23 DEF ToolRestores
  <1>24. CASE OperatorStarts
      BY <1>0, <1>24 DEF OperatorStarts
  <1>25. CASE OperatorStops
      BY <1>25 DEF OperatorStops
  <1>26. CASE LimitForgets
      BY <1>26 DEF LimitForgets
  <1>27. CASE EditFile
      BY <1>27 DEF EditFile
  <1>28. CASE Hangs
      BY <1>28 DEF Hangs
  <1>29. CASE ServeStops
      BY <1>29 DEF ServeStops
  <1>30. CASE Killed
      BY <1>30 DEF Killed, Exits, Released
  <1>31. CASE WatchdogKills
      BY <1>31 DEF WatchdogKills, Exits, Released, WatchdogAlive
  <1>32. CASE \E ch \in Channels : Regulate(ch)
      BY <1>32 DEF Regulate
  <1>33. CASE UNCHANGED vars
      BY <1>33 DEF vars
  <1>34. QED
      BY <1>1, <1>2, <1>3, <1>4, <1>5, <1>6, <1>7, <1>8, <1>9, <1>10, <1>11,
        <1>12, <1>13, <1>14, <1>15, <1>16, <1>17, <1>18, <1>19, <1>20, <1>21,
        <1>22, <1>23, <1>24, <1>25, <1>26, <1>27, <1>28, <1>29, <1>30, <1>31,
        <1>32, <1>33 DEF Next, Systemd, Serve, FailsafeCmd, Tool

\* Every action keeps the lock with the process that took it.
LEMMA LockStep == TypeOK /\ LockInv /\ [Next]_vars => LockInv'
  <1> SUFFICES ASSUME TypeOK, LockInv, [Next]_vars PROVE LockInv'
      OBVIOUS
  <1> USE DEF TypeOK, Stages, LockInv, Held, unitVars, serveVars,
          lockVars, postVars, toolVars, chipVars
  <1>1. CASE CheckPasses
      BY <1>1 DEF CheckPasses
  <1>2. CASE CheckFails
      BY <1>2 DEF CheckFails
  <1>3. CASE StartPost
      BY <1>3 DEF StartPost
  <1>4. CASE EndPost
      BY <1>4 DEF EndPost, Restarts
  <1>5. CASE Restart
      BY <1>5 DEF Restart
  <1>6. CASE ServeConfig
      BY <1>6 DEF ServeConfig, Exits, Released, Configured
  <1>7. CASE ServeWriterLock
      BY <1>7 DEF ServeWriterLock, Exits, Released
  <1>8. CASE ServeDevice
      BY <1>8 DEF ServeDevice, Exits, Released
  <1>9. CASE ServeEnds
      BY <1>9 DEF ServeEnds, Exits, Released
  <1>10. CASE \E ch \in Channels : SafeStop(ch)
      BY <1>10 DEF SafeStop
  <1>11. CASE FailsafeBusy
      BY <1>11 DEF FailsafeBusy
  <1>12. CASE FailsafeLocks
      BY <1>12 DEF FailsafeLocks, Configured
  <1>13. CASE FailsafeNoDevice
      BY <1>13 DEF FailsafeNoDevice, Released
  <1>14. CASE FailsafeEnds
      BY <1>14 DEF FailsafeEnds, Released, FailsafeDone
  <1>15. CASE \E ch \in Channels : FailsafeChannel(ch)
      BY <1>15 DEF FailsafeChannel
  <1>16. CASE ToolChecks
      BY <1>16 DEF ToolChecks
  <1>17. CASE ToolLocks
      BY <1>17 DEF ToolLocks, ToolMayRun
  <1>18. CASE ToolRefused
      BY <1>18 DEF ToolRefused
  <1>19. CASE ToolStops
      BY <1>19 DEF ToolStops
  <1>20. CASE ToolEnds
      BY <1>20 DEF ToolEnds, Released
  <1>21. CASE ToolKilled
      BY <1>21 DEF ToolKilled, Released
  <1>22. CASE \E ch \in Channels : ToolWrites(ch)
      BY <1>22 DEF ToolWrites
  <1>23. CASE \E ch \in Channels : ToolRestores(ch)
      BY <1>23 DEF ToolRestores
  <1>24. CASE OperatorStarts
      BY <1>24 DEF OperatorStarts
  <1>25. CASE OperatorStops
      BY <1>25 DEF OperatorStops
  <1>26. CASE LimitForgets
      BY <1>26 DEF LimitForgets
  <1>27. CASE EditFile
      BY <1>27 DEF EditFile
  <1>28. CASE Hangs
      BY <1>28 DEF Hangs
  <1>29. CASE ServeStops
      BY <1>29 DEF ServeStops
  <1>30. CASE Killed
      BY <1>30 DEF Killed, Exits, Released
  <1>31. CASE WatchdogKills
      BY <1>31 DEF WatchdogKills, Exits, Released, WatchdogAlive
  <1>32. CASE \E ch \in Channels : Regulate(ch)
      BY <1>32 DEF Regulate
  <1>33. CASE UNCHANGED vars
      BY <1>33 DEF vars
  <1>34. QED
      BY <1>1, <1>2, <1>3, <1>4, <1>5, <1>6, <1>7, <1>8, <1>9, <1>10, <1>11,
        <1>12, <1>13, <1>14, <1>15, <1>16, <1>17, <1>18, <1>19, <1>20, <1>21,
        <1>22, <1>23, <1>24, <1>25, <1>26, <1>27, <1>28, <1>29, <1>30, <1>31,
        <1>32, <1>33 DEF Next, Systemd, Serve, FailsafeCmd, Tool

\* Type and lock invariant hold in every reachable state.
LEMMA LockHolds == Spec => [](TypeOK /\ LimitInv /\ LockInv)
  <1>1. Init => TypeOK /\ LimitInv /\ LockInv
    <2>1. /\ InitialFile \subseteq Channels
          /\ 0 \in 0..MaxStarts /\ 0 \in 0..MaxTools
        BY ChannelsAssumption, BoundAssumption
        DEF ChannelsAssumption, BoundAssumption
    <2>2. QED
        BY <2>1 DEF Init, TypeOK, Stages, LimitInv, LockInv, Held
  <1>2. TypeOK /\ LimitInv /\ LockInv /\ [Next]_vars
          => (TypeOK /\ LimitInv /\ LockInv)'
      BY TypeStep, LockStep
  <1>3. QED
      BY <1>1, <1>2, PTL DEF Spec

\* At most one process that has its lock writes pwm files, and the daemon and
\* its own failsafe never write at the same time, for every number of channels,
\* starts and tools and with every lock error.
THEOREM OneWriterHolds == Spec => []OneWriter
  <1>1. TypeOK /\ LockInv => OneWriter
    <2> SUFFICES ASSUME TypeOK, LockInv PROVE OneWriter
        OBVIOUS
    <2>1. Writers \ unlocked \subseteq {lock}
        BY DEF TypeOK, LockInv, Held, Writers
    <2>2. Writers \ unlocked = {} \/ Writers \ unlocked = {lock}
        BY <2>1
    <2>3. Cardinality({}) = 0 /\ Cardinality({lock}) = 1
        BY FS_EmptySet, FS_Singleton
    <2>4. Cardinality(Writers \ unlocked) <= 1
        BY <2>2, <2>3
    <2>5. ~ {"serve", "failsafe"} \subseteq Writers
        BY DEF LockInv, Writers
    <2>6. QED
        BY <2>4, <2>5 DEF OneWriter
  <1>2. QED
      BY <1>1, LockHolds, PTL

-----------------------------------------------------------------------------
\* No action loses track of a driven channel.
LEMMA EndStep == TypeOK /\ LockInv /\ EndInv /\ [Next]_vars => EndInv'
  <1> SUFFICES ASSUME TypeOK, LockInv, EndInv, [Next]_vars PROVE EndInv'
      OBVIOUS
  <1> USE DEF TypeOK, Stages, LockInv, Held, EndInv, Underway, unitVars, serveVars,
          lockVars, postVars, toolVars, chipVars
  <1>1. CASE CheckPasses
      BY <1>1 DEF CheckPasses
  <1>2. CASE CheckFails
      BY <1>2 DEF CheckFails
  <1>3. CASE StartPost
      BY <1>3 DEF StartPost
  <1>4. CASE EndPost
      BY <1>4 DEF EndPost, Restarts
  <1>5. CASE Restart
      BY <1>5 DEF Restart
  <1>6. CASE ServeConfig
      BY <1>6 DEF ServeConfig, Exits, Released, Configured
  <1>7. CASE ServeWriterLock
      BY <1>7 DEF ServeWriterLock, Exits, Released
  <1>8. CASE ServeDevice
      BY <1>8 DEF ServeDevice, Exits, Released
  <1>9. CASE ServeEnds
      BY <1>9 DEF ServeEnds, Exits, Released
  <1>10. CASE \E ch \in Channels : SafeStop(ch)
      BY <1>10 DEF SafeStop
  <1>11. CASE FailsafeBusy
      BY <1>11 DEF FailsafeBusy
  <1>12. CASE FailsafeLocks
      BY <1>12 DEF FailsafeLocks, Configured
  <1>13. CASE FailsafeNoDevice
      BY <1>13 DEF FailsafeNoDevice, Released
  <1>14. CASE FailsafeEnds
      BY <1>14 DEF FailsafeEnds, Released, FailsafeDone
  <1>15. CASE \E ch \in Channels : FailsafeChannel(ch)
      BY <1>15 DEF FailsafeChannel
  <1>16. CASE ToolChecks
      BY <1>16 DEF ToolChecks
  <1>17. CASE ToolLocks
      BY <1>17 DEF ToolLocks, ToolMayRun
  <1>18. CASE ToolRefused
      BY <1>18 DEF ToolRefused
  <1>19. CASE ToolStops
      BY <1>19 DEF ToolStops
  <1>20. CASE ToolEnds
      BY <1>20 DEF ToolEnds, Released
  <1>21. CASE ToolKilled
      BY <1>21 DEF ToolKilled, Released
  <1>22. CASE \E ch \in Channels : ToolWrites(ch)
      BY <1>22 DEF ToolWrites
  <1>23. CASE \E ch \in Channels : ToolRestores(ch)
      BY <1>23 DEF ToolRestores
  <1>24. CASE OperatorStarts
      BY <1>24 DEF OperatorStarts
  <1>25. CASE OperatorStops
      BY <1>25 DEF OperatorStops
  <1>26. CASE LimitForgets
      BY <1>26 DEF LimitForgets
  <1>27. CASE EditFile
      BY <1>27 DEF EditFile
  <1>28. CASE Hangs
      BY <1>28 DEF Hangs
  <1>29. CASE ServeStops
      BY <1>29 DEF ServeStops
  <1>30. CASE Killed
      BY <1>30 DEF Killed, Exits, Released
  <1>31. CASE WatchdogKills
      BY <1>31 DEF WatchdogKills, Exits, Released, WatchdogAlive
  <1>32. CASE \E ch \in Channels : Regulate(ch)
      BY <1>32 DEF Regulate
  <1>33. CASE UNCHANGED vars
      BY <1>33 DEF vars
  <1>34. QED
      BY <1>1, <1>2, <1>3, <1>4, <1>5, <1>6, <1>7, <1>8, <1>9, <1>10, <1>11,
        <1>12, <1>13, <1>14, <1>15, <1>16, <1>17, <1>18, <1>19, <1>20, <1>21,
        <1>22, <1>23, <1>24, <1>25, <1>26, <1>27, <1>28, <1>29, <1>30, <1>31,
        <1>32, <1>33 DEF Next, Systemd, Serve, FailsafeCmd, Tool

\* EndInv holds in every reachable state.
LEMMA EndHolds == Spec => []EndInv
  <1>1. Init => EndInv
      BY DEF Init, EndInv
  <1>2. TypeOK /\ LockInv /\ EndInv /\ [Next]_vars => EndInv'
      BY EndStep
  <1>3. QED
      BY <1>1, <1>2, LockHolds, PTL DEF Spec

\* Wherever in its start, regulation or stop the daemon was killed, however
\* often it was restarted, whatever was edited and whoever had the lock: a unit
\* at rest has a channel at a duty of the daemon only if the failsafe did not
\* have that channel.
THEOREM EndsSafeHolds == Spec => []EndsSafe
  <1>1. LockInv /\ EndInv => EndsSafe
      BY DEF LockInv, EndInv, Underway, EndsSafe, Settled
  <1>2. QED
      BY <1>1, LockHolds, EndHolds, PTL

-----------------------------------------------------------------------------
\* Without edits and tools no action misses a channel.
LEMMA KeepStep ==
  ASSUME Edits = {}, MaxTools = 0
  PROVE  TypeOK /\ LockInv /\ KeepInv /\ [Next]_vars => KeepInv'
  <1> SUFFICES ASSUME TypeOK, LockInv, KeepInv, [Next]_vars PROVE KeepInv'
      OBVIOUS
  <1> USE Edits = {}, MaxTools = 0
      DEF TypeOK, Stages, LockInv, Held, KeepInv, unitVars, serveVars,
          lockVars, postVars, toolVars, chipVars
  <1>1. CASE CheckPasses
      BY <1>1 DEF CheckPasses
  <1>2. CASE CheckFails
      BY <1>2 DEF CheckFails
  <1>3. CASE StartPost
      BY <1>3 DEF StartPost
  <1>4. CASE EndPost
      BY <1>4 DEF EndPost, Restarts
  <1>5. CASE Restart
      BY <1>5 DEF Restart
  <1>6. CASE ServeConfig
      BY <1>6 DEF ServeConfig, Exits, Released, Configured
  <1>7. CASE ServeWriterLock
      BY <1>7 DEF ServeWriterLock, Exits, Released
  <1>8. CASE ServeDevice
      BY <1>8 DEF ServeDevice, Exits, Released
  <1>9. CASE ServeEnds
      BY <1>9 DEF ServeEnds, Exits, Released
  <1>10. CASE \E ch \in Channels : SafeStop(ch)
      BY <1>10 DEF SafeStop
  <1>11. CASE FailsafeBusy
      BY <1>11 DEF FailsafeBusy
  <1>12. CASE FailsafeLocks
      BY <1>12 DEF FailsafeLocks, Configured
  <1>13. CASE FailsafeNoDevice
      BY <1>13 DEF FailsafeNoDevice, Released
  <1>14. CASE FailsafeEnds
      BY <1>14 DEF FailsafeEnds, Released, FailsafeDone
  <1>15. CASE \E ch \in Channels : FailsafeChannel(ch)
      BY <1>15 DEF FailsafeChannel
  <1>16. CASE ToolChecks
      BY <1>16 DEF ToolChecks
  <1>17. CASE ToolLocks
      BY <1>17 DEF ToolLocks, ToolMayRun
  <1>18. CASE ToolRefused
      BY <1>18 DEF ToolRefused
  <1>19. CASE ToolStops
      BY <1>19 DEF ToolStops
  <1>20. CASE ToolEnds
      BY <1>20 DEF ToolEnds, Released
  <1>21. CASE ToolKilled
      BY <1>21 DEF ToolKilled, Released
  <1>22. CASE \E ch \in Channels : ToolWrites(ch)
      BY <1>22 DEF ToolWrites
  <1>23. CASE \E ch \in Channels : ToolRestores(ch)
      BY <1>23 DEF ToolRestores
  <1>24. CASE OperatorStarts
      BY <1>24 DEF OperatorStarts
  <1>25. CASE OperatorStops
      BY <1>25 DEF OperatorStops
  <1>26. CASE LimitForgets
      BY <1>26 DEF LimitForgets
  <1>27. CASE EditFile
      BY <1>27 DEF EditFile
  <1>28. CASE Hangs
      BY <1>28 DEF Hangs
  <1>29. CASE ServeStops
      BY <1>29 DEF ServeStops
  <1>30. CASE Killed
      BY <1>30 DEF Killed, Exits, Released
  <1>31. CASE WatchdogKills
      BY <1>31 DEF WatchdogKills, Exits, Released, WatchdogAlive
  <1>32. CASE \E ch \in Channels : Regulate(ch)
      BY <1>32 DEF Regulate
  <1>33. CASE UNCHANGED vars
      BY <1>33 DEF vars
  <1>34. QED
      BY <1>1, <1>2, <1>3, <1>4, <1>5, <1>6, <1>7, <1>8, <1>9, <1>10, <1>11,
        <1>12, <1>13, <1>14, <1>15, <1>16, <1>17, <1>18, <1>19, <1>20, <1>21,
        <1>22, <1>23, <1>24, <1>25, <1>26, <1>27, <1>28, <1>29, <1>30, <1>31,
        <1>32, <1>33 DEF Next, Systemd, Serve, FailsafeCmd, Tool

\* While config.toml keeps its channel set and no tool runs, the promise of the
\* configuration manual holds: after every stop, crash or kill no channel of a
\* unit at rest is at a duty of the daemon.
THEOREM AllAtStopHolds ==
  ASSUME Edits = {}, MaxTools = 0
  PROVE  Spec => []AllAtStop
  <1>1. Init => KeepInv
      BY DEF Init, KeepInv
  <1>2. TypeOK /\ LockInv /\ KeepInv /\ [Next]_vars => KeepInv'
      BY KeepStep
  <1>3. KeepInv /\ EndsSafe => AllAtStop
      BY DEF KeepInv, EndsSafe, AllAtStop
  <1>4. QED
      BY <1>1, <1>2, <1>3, LockHolds, EndsSafeHolds, PTL DEF Spec
=============================================================================
