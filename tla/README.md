# n5-fangov: specification and proofs

n5-fangov regulates the fans of a small NAS (Minisforum N5 Pro and generic
hwmon devices) from user space. A wrong duty overheats drives, so the program
is built around a few promises: a hot or blind channel runs at a safe speed,
a failed write is never forgotten, the chip is handed back in a safe state
however the daemon ends, and nobody else writes the pwm files meanwhile. This
directory models the parts of the program that carry these promises, checks
them with TLC on small instances and proves with TLAPS, for every instance, all
the safety properties that hold in the runs.

## Inventory

| part | state | operations | interacts with |
|---|---|---|---|
| Regulation loop (`internal/control/controller.go`) | per channel: duty on record, target, mode, stall / ceiling / emergency counters, written flag; write-error and failsafe counters; active and pending configuration; overrides | `cycle` (apply pending, read sensors, compute targets, check stall, write, failsafe, publish), `SetOverride`, `ClearOverride`, `Apply`, `Stop` | device, sensors, alerts, history, web API |
| Goroutines and locks (`controller.go`, `cmd/n5-fangov/serve.go`) | `c.mu`, `hwMu`, `stopped`, `stopOnce`, the context, the loop's and main's position | lock, swap, write pass, stop, panic recovery, select, join, 15 s limit | loop, API handlers, main |
| Process life cycle (`serve.go`, `failsafe.go`, `writerlock_unix.go`, the unit file) | unit state, start counter, writer lock, the failsafe's list | start stages, restart, watchdog, `ExecStopPost`, kill | systemd, `test`, `validate`, config.toml |
| `test`, `validate` (`testrun.go`, `validate.go`, `internal/validate`) | touched channels, run marker, gates | run, limit, restore | writer lock, device |
| Device and hwmon (`internal/profile`, `internal/hwmon`) | pwm and enable nodes | `EnterManual`, `WriteDuty`, `SafeStop`, detect | driver |
| Sensors (`internal/sensor`, `watched.go`, `readerr.go`) | resolved paths, stale counter, error text | read, resolve again, composite | sysfs |
| Curve (`controller.go`: `heldTemp`, `minOnHold`, `Interpolate`) | held temperature, min_on timer | duty of a temperature | loop |
| Preset schedules (`scheduler.go`, `internal/schedule`) | entries, baseline entry | tick, reload, apply | presets, clock |
| Presets and configuration file (`internal/config`, `wiring*.go`, `bundle.go`) | config.toml, preset files, `configFileMu`, what is in effect in the loop, the alert manager, the scheduler and the web layer | read, edit, pin, save, reload, import, restart | web API, scheduler, loop, certificates |
| Alerts (`internal/alert`, `wiring_alerts.go`, `controller.raise`) | per-kind stamps in memory and on disk, ring, webhook queue | raise, cooldown, deliver, list | loop, clock, restarts |
| History (`internal/history`) | tiers of buckets, file | add, save, load, query | loop, restarts |
| Log file (`internal/logfile`) | size, rotated files | write, rotate, truncate | disk |
| Web authentication (`session.go`, `token.go`, `ratelimit.go`) | sessions, tokens, limiter table | login, touch, expire, revoke, evict | clock, handlers |
| Certificates (`tlsmgr.go`, `internal/tlscert`) | pair in memory, pair on disk | generate, renew, upload, reset, roll back | config.toml, clock, disk |
| Handlers, dashboard, CLI, checks, hardware identification | none that outlives a call | decode, render, print | all of the above |
| Version order (`internal/debver`) | none | compare | update check |

What is hard in it:

* **Concurrency.** The loop, the API handlers, the stop of main and the stop of
  the loop's own `defer` share `c.mu` and `hwMu`; a panic inside a `c.mu`
  section leaves it locked for ever. Two processes of the unit and two tools
  share one flock. Seven kinds of handlers rewrite config.toml as a whole.
* **Partial failure.** A write is several file operations; each may fail, for
  one channel or for all, and come back.
* **Crash and restart.** SIGKILL, watchdog and OOM hit at any stage; what comes
  after is another process with the file as it is *then*.
* **Ordering and episodes.** Critical reading, ceiling episode, stall, sensor
  loss, override, reload and slew limit compete for one duty.
* **Time.** Watchdog, join limit, start limit, cooldowns, schedules, expiry.

`PROJECT.json` lists these places one by one under `hazards`, each with the
properties that cover it.

## Modules

| module | what it is |
|---|---|
| `Regulation` | one cycle of the loop, step by step, with the device and the sensors as environment |
| `MCRegulation` | small configurations, channels and parts for its runs |
| `RegulationProofs` | its theorems |
| `SafeShutdown` | abstract: what the daemon promises about its end |
| `ControllerSync` | goroutines, locks, stop and main; implements `SafeShutdown` |
| `ControllerSyncProofs` | its theorems, the refinement included |
| `Lifecycle` | unit, daemon process, writer lock, failsafe command, tools |
| `LifecycleProofs` | its theorems |
| `ConfigStore` | everybody who rewrites config.toml inside the daemon, and the certificate manager |
| `MCConfigStore` | symmetry of its requests |
| `ConfigStoreProofs` | its theorems |
| `Scheduler` | active schedule entry, next switch, the ticker that applies presets |
| `MCScheduler` | the schedules and zones of its instances |
| `AlertCooldown` | the cooldown of each alert kind over restarts and clock steps |
| `AlertHistory` | the alert ring, its file, acknowledgements, the `alert` and `check` commands |
| `WebSessions` | credentials in file and in effect, sessions and their mirror file |
| `WebTokens` | API tokens, their mirror file and the rate limit of each |
| `AuthLimiter` | the throttle of failed sign-ins |
| `LogFile` | writing, rotating and clearing the log |
| `HistoryStore` | raw points, tiers of buckets, save and load |
| `CertFiles` | the files of both certificate pairs, the daemon and the `cert` command |
| `ValidateRun` | runs of `validate`: gates, sequence, limits, restore, state file |
| `Verdicts` | the verdicts T1, T2, T3 over the recorded samples |
| `CurveHold` | curve, hysteresis, min_on, frozen sensor, what a reload does to them |
| `SensorPath` | from a sensor id to the files and ceilings in use, and when they are looked up again |
| `MCStores` | small instances of the thirteen above, for one run |
| `FileProofs` | theorems about `CertFiles`, `ValidateRun`, `LogFile`, `Verdicts` |
| `WebProofs` | theorems about `WebSessions`, `WebTokens`, `AuthLimiter` |
| `AlertProofs` | theorems about `AlertCooldown`, `AlertHistory` |
| `ControlProofs` | theorems about `Scheduler`, `SensorPath`, `CurveHold`, `HistoryStore` |

The first three models meet at the chip. `Regulation` says which duty a cycle leaves
on it, `ControllerSync` who may touch it while the daemon ends (a write is just
"driven"), `Lifecycle` what is left on it when the process is gone (the whole of
`ControllerSync`'s stop is `ServeStops`, `SafeStop`, `ServeEnds`). `ConfigStore`
meets `Regulation` at the pending configuration: its `Reload` is `Apply` there.
`CurveHold` and `SensorPath` open up what `Regulation` takes as given (any duty
of a curve, any reading), `ValidateRun` what `Lifecycle` has as one tool, and
`CertFiles` the files that `ConfigStore` has as one pair.

### Regulation

`pc` walks through the steps of `Controller.cycle`; every step is one action:
`ApplyPending` (`applyPendingLocked`, `swapChannelConfig`), `ReadSensors`,
`ComputeTargets` (with `applyCeiling` and `emergency`), `CheckStall`,
`WritePhase`, and one of `FinishClean`, `FinishFirstError`, `Failsafe`
(`writeAndFinish`, `failsafeAll`, `noteFailsafe`). `SetOverride`,
`ClearOverride` and `Apply` are actions of the waiting loop: the code copies
the overrides and swaps a reload at the start of a cycle, so a call in the
middle of one has the effect of a call before the next. `Stop` ends it.
`ReachChanges` makes a node refuse or accept writes, `Tamper` is another
program writing the pwm file. A failing write leaves the node as it was, in
manual mode at 255, or at the new duty with a verification that failed
(`AfterFailure`).

Abstractions: a temperature is one of `Temps`; what the curve asks for is any
duty of `CurveDuties`, so the theorems hold for every curve, hysteresis and
min_on; a fan spins or does not; the cycle number is kept modulo `RewriteEvery`,
`wrErr` saturates at the failsafe threshold and `ceilCycles` at `CeilCap` (the
code only compares them with smaller constants). Duties are real duties, 0..255.

### ControllerSync

One variable for the position of the loop, of main and of the body of
`stopOnce`. Sections under `c.mu` that do nothing but assign are single steps;
sections under `hwMu` are walked channel by channel (`SwapChannel`,
`WriteChannel`, `SafeStop`), so a stop can fall between any two of them. `Panic`
unwinds from every step outside the wait: deferred unlocks (`hwMu`) run, `c.mu`
stays locked as in the code. A configuration is its generation number.

`SafeShutdown` has two variables; the mapping is in `ControllerSync`
(`Shutdown == INSTANCE SafeShutdown WITH ...`), and the run checks
`ShutdownSpec` as a property.

### Lifecycle

`unit` is the systemd unit (`Restart=always`, start limit, `ExecStartPre`,
`ExecStopPost`), `serve` the stage of `cmdServe`, `post` the `failsafe`
command, `tool` a `test` or `validate`. `Killed` may happen at every stage.
A channel of the chip is `driven`, under `test`, `safe` or `refused` (the node
did not accept its safe state). `missed` is a history variable: the channels the
ended daemon had that no failsafe has handled since, because config.toml had
lost them or because a tool had the lock. The second case is the documented
choice of `cmdFailsafe` ("that writer restores its own channels").

Left out: `--dry-run` (takes no lock, writes nothing), a daemon started by hand
beside the unit, the run marker of `validate`, and two ends of the failsafe
command itself that leave what they have not reached: its own `recover`, which
exits with 1 (`failsafe.go`), and systemd's kill of an `ExecStopPost` that takes
longer than its timeout. Where no device is detected (`FailsafeNoDevice`) every
channel counts as refused. The start counter forgets only
while the daemon regulates.

### ConfigStore

A request is one handler that runs once: the account, alert or dashboard store,
a preset apply (from the API or the scheduler), PUT /api/config, a settings
import, an upload or a reset of the certificate. It walks through its store's own
mutex (`StoreLocks`: `s.mu` of the account, alert and dashboard stores, held until
the answer), reading (`EditConfig`, `PutConfig` and `SaveLocks`, `Import`),
`PinConfig`, `Save`, and what it then puts in effect: `ApplyAccount`,
`ApplyAlerts`, `SetWatched`, or `Reload`, `HookAlerts`, `HookSchedule`.
`configFileMu` and the read under it are one step, as no other writer that
honours the lock can come between; a read without the lock is a step of its own
(the hash of `PutConfig`, `WriteModeReads`).
`Refused`, `RenameFails`, `WriteModeFails` and `RollbackFails` are the error
paths. `Restart` ends the daemon at any point and starts it from the disk.

A text is one value per section of the file, and a value is the request that
wrote it, so "whose change is in the file" can be read off the state. `set`
stands for names and pwm numbers of the channels (what a reload cannot change),
`curves` for the rest of them, `transport` and `mail` for two keys of `[alert]`
that can be configured apart.

Four history variables: `latest` is the last value written to a key on purpose,
`seen` what a request had read without the lock, `crossed` the keys a write
outside `configFileMu` took back, `adrift` the keys written without being put
in effect in order. The last two are exact: they hold a key only from the step
at which the other write can be shown to have fallen in between.

Left out: `--listen` (the manager then does not own the tls keys and does not
pin them), mode `off`, a body that brings a hash of its own, the files of the
preset directory.

### Scheduler

An instant is a number of UTC minutes; hours, days and weeks have any length.
`Active` is `schedule.Active`, `Candidates` and `NextSwitch` are `schedule.Next`,
`Date` is Go's `time.Date` with its choice in a skipped or repeated hour.
`Evaluate` is `evaluate` up to the unlock (the baseline moves there),
`ApplyEntry` the apply outside the lock, `Set` a reload of the entries.
`WindowHonoured` is the promise of the ticker, `NextIsFirst` compares the
candidate search with a search minute by minute, over skipped and repeated hours.
What it excepts is what the code does not list. Of two instants with the same
wall time `time.Date` gives one (`Named`); the other, and what follows a zone
change before the first full hour that is named, is `Unlisted`. An instant on a
day that is not among the listed ones is `OutOfSight`: the clock went back over
midnight, or a skip moved the end of the lookahead past the last day; the latter
is seen all the same, a week before, unless that was unlisted.

The comment of `Next` and DESIGN.md promise more: a change caused by a DST
transition "is found at the hour mark". `FoundAtHourMark` states that, and the
run `repeated_hour` shows it violated west of Greenwich. Only the preview of the
next switch is affected: the ticker does not use it.

### AlertCooldown, AlertHistory

`AlertCooldown` has real time beside the wall clock, because `raise` compares
monotonic times for what this process delivered and wall-clock stamps for what
an earlier one did (`loadAlertStamps`); `stampAlert` of serve has the file only.
`excused` and `silent` are history: when the stamp cannot tell, and since when a
kind has been suppressed.

`AlertHistory` is the delivery (`async`, `SetSink`, the synchronous test), the
ring with its identifiers and its file, `Ack` and `AckUpTo` with the list the
page had loaded, and the two commands that open a ring of their own on the same
file. `spoilt` are the alerts whose save failed.

### WebSessions, WebTokens, AuthLimiter

An account change is `Account.Update`, `auth.Store`, `SetEpoch`,
`RevokeAllRename`, in steps of its own and under no common lock; the upgrade of
a legacy hash takes the same path under `upgradeMu`, from a sign-in
(`FinishLogin`) or from a request with Basic credentials, which makes no session
(`FinishBasic`). Secrets are numbers.
`WebTokens` has `Create`, `Revoke`, `Lookup` and the bucket of each token with
its bounded table; `surplus` counts what came through above the sustained rate.
In `AuthLimiter` an attempt passes `busy` (`Arrive`), takes a slot for the hash
(`Acquire`; without one it is refused), gives it back (`Release`), and only then
fails or succeeds, sleeps and wakes, each in a step of its own, as `limiter.mu`
covers each of them alone; `entry` stands for the `*sleepers` pointer.

### LogFile, HistoryStore, CertFiles

What is on disk after every step of several, any of which may fail or be the
last one. `LogFile` walks through the renames of a rotation; the write itself can fail, and
`Close` refuses what comes after it (a line is written or not: a torn last line
is left out). `HistoryStore`
keeps a mean as the set of the points it was formed from, so "counted once" can
be read off, and lets the loop and `Stop` save concurrently. That a tier has
every raw point in its bucket is said of the points within its span: the raw
list is bounded by a count, a tier by time, so after a long pause the raw list
reaches back further. `CertFiles` writes
key and certificate, the uploaded pair and `[web] tls` one after the other, in
the daemon and in the `cert` command that starts when the daemon does not
answer. A certificate is valid in the era it was made in; the clock goes on and is
set back, and a file that is there may be unreadable for once. `EnsureAuto` keeps
the key only of a pair that it could read, that belongs together and that is
valid now: expiry, a clock before `NotBefore` (set back by more than an hour) and
a read error all cost the key, and `newKey` records them next to the requests for
a new one. What is left for `TrustKept` is that nothing else does.

### ValidateRun, Verdicts

A run of `validate` is a list of operations (manual mode, write, hold,
hand-back, restore) that any sample can cut short: a limit of any channel, a
lost sensor, another writer, a signal, a panic, a kill. The history variable
`named` is what the run reports as not restored. `Verdicts` are the functions of
`eval.go`; the records grow by a sample or a sub-run, and the property compares a
record with a longer one. The runner adds a rule of its own on top: after an
abort T2 and T3 are INCONCLUSIVE and T1 is not evaluated. All registers share one
table step in the model, where pwm1 has several. A list that `eval.go` filters out
of the samples is the set of their indices here, in the order of their times; the
mean of the own tach alone is still taken over a list.

### CurveHold, SensorPath

`CurveHold` is the memory of the first channel in `readSensors`,
`computeTargets`, `heldTemp`, `minOnHold`, `swapChannelConfig` and
`retimeHolds`. `SensorPath` has the device tree as environment, which changes
between any two steps: `Parse` (the directory name in `hwmon:<name>:tempN` and
the test for its file included), `PartCeilings`, `reresolve` every `ResolveEvery`
cycles, the retry on an unresolved or failing source, watched sensors.
`SourceFollowsTree` excepts what the code keeps on purpose: an id that names no
device any more keeps its files, a watched id that resolved once is not looked
up again.

## Runs

| run | what it asks | states |
|---|---|---|
| `loop_single` | One channel in two scenarios: tachometer, overrides and a reload that changes sensor and stop; and two parts that come and go next to another writer: `TypeOK`, `ProtectedFull`, `HookOncePerEpisode`, `EmergencyFires`, `StallDetected`, `TamperUndone` | 820 000 |
| `loop_pair` | Two channels whose nodes fail and recover independently: `CurMatchesHw`, `OpenErrorsMarked`, `PartialFailureStays`, `DeviceLostExits` | 100 000 |
| `hdd_floor` | *violated*: `HddFloor` | |
| `stop_races` | Loop, API, stop and main in every order, with hangs and panics: `NoWriteAfterStop`, `SafeStateOfOneConfig`, `ShutdownSpec`, `StopServed` | |
| `state_file` | *violated*: `StateFileGone` | |
| `lifecycle` | Unit, forced tool, lock errors, edits, kills, hangs: `OneWriter`, `EndsSafe`, `BackToWork` | 112 000 |
| `crash_after_edit` | *violated*: `AllAtStop` | |
| `config_store` | Three handlers of any kinds, refusals, failures and a restart: `NoEditDropped`, `TlsKept`, `EffectFollowsFile`, `NoLockout`, `CertificateSurvives` | 2 000 000 |
| `reload_order` | *violated*: `FileIsTruth` | |
| `stores` | Thirteen components that share no state, one at a time, each with its own faults (list below) | 1 000 000 |
| `alert_history` | *violated*: `HistoryKept` | |
| `repeated_hour` | *violated*: `FoundAtHourMark` | |

`stores` checks, by component:

| component | property | in short |
|---|---|---|
| `Scheduler` | `WindowHonoured` | the curves in effect are those of the active entry, unless a manual choice or a failed apply came later |
| | `NextIsFirst` | the previewed switch is the first change that is listed and in sight |
| `AlertCooldown` | `NotRepeated` | no alert twice within its cooldown, over restarts |
| | `NotSilenced` | no kind silent longer than its cooldown, wherever the clock goes |
| `AlertHistory` | `AckedWasShown` | "all" acknowledges only what the page had shown |
| `WebSessions` | `SignedOutStaysOut` | a session that ended never comes back |
| | `SessionsSurvive` | a restart loads exactly the live sessions |
| `WebTokens` | `RateHonoured` | rate and burst of a token, also when idle buckets are dropped |
| `AuthLimiter` | `SleepersCounted` | an address is busy exactly while its attempts sleep |
| | `OldestGoes` | a full table drops the count that has been quiet longest |
| `LogFile` | `LogInOrder` | no line is lost, doubled or out of order by a rotation that fails or is cut short |
| `HistoryStore` | `EachPointOnce` | buckets ascend, every point counts once, also after a load inside a bucket |
| `CertFiles` | `TrustKept` | the key changes only when asked for, outside the validity of the certificate, or when the pair is unreadable or broken |
| `ValidateRun` | `LeftSafe` | nothing but the stop state is left behind without a state file |
| `CurveHold` | `FrozenNoticed` | frozen exactly after the configured equal readings of this sensor |
| | `HoldHonoured` | a rise is kept for min_on over rises, falls and reloads |
| `SensorPath` | `SourceFollowsTree` | when the tree is still, files and ceilings are those of the present devices |
| `Verdicts` | `NoTurnaround` | a further sample or sub-run never turns PASS into FAIL or back |

Deadlock checking is off: each system stops (daemon stopped or lost, process
exited, unit at rest, every handler has answered).

**Bounds.** Two channels are enough for "one fails, the other answers" and for
"swapped / not yet swapped"; `stop_races` has three so that a pass has a channel
before, at and behind every point. `RewriteEvery = 2` (6 in the code) keeps both
kinds of cycle. Steps of 100 up and 70 down need two cycles between 80 and 255,
so intermediate duties occur. The two scenarios of `loop_single` are told apart by
the configuration the daemon starts with (`Scenario`): the program that writes the
pwm file and the callers would multiply each other's states; 63 °C lies between a ceiling and its recovery;
the stall threshold coincides with a duty in use (80, or 140 in `EdgeConfig`).
Two starts reach the limit and a restart below it; one tool is all the lock can
be contested by beside the unit's own processes. `config_store` has three
requests: two that race and a third whose change is lost or whose reload is
overtaken; they may be permuted (symmetry), since a request is known only by its
kind, which is a variable. The theorems do not depend on
any of these values.

In `stores` a behaviour takes the steps of one component (`focus`) and leaves the
others in an initial state. They have no variable in common, so every behaviour
of a component is one of the run, and the states add up instead of multiplying.
Each has the smallest numbers at which its case occurs: a week of two days of
eight quarters with a zone change inside it; cooldowns of one and two ticks and
a clock step longer than either; a ring of two for three alerts; two requests,
three sessions of one tick with room for two, two credential sets; a token burst of two and a
table of one; three attempts from three addresses with a table of two, so that
the eviction has a choice; two rotated files of two
lines and seven lines written; three points in a tier of buckets of two with a
step back; two keys, two eras between which the clock goes both ways
and one change of the hosts; four kinds of operation in two runs; three
temperatures with a hysteresis between their distances and a configuration that
replaces the sensor; two class directories and a block device with two changes
of the tree; three samples, three results.

**Fairness.** `Regulation!FairSpec` has weak fairness of `Cycle` only: the
loop's goroutine is scheduled and no step waits for another party; callers,
sensors and the driver owe nothing. `ControllerSync!FairSpec` has it for main,
for the body of `Stop` and for a chip write that has begun, *not* for the rest
of the loop: a sensor read may hang for ever, which is what the 15 s limit is
for. `Lifecycle!FairSpec` has it for systemd, for the start and stop of the
daemon, for the failsafe command and for the watchdog of a hung daemon; nothing
makes an operator, a tool or a kill happen.

### What the violated runs show

* `hdd_floor`: an override is checked against the HDD minimum when it is set; a
  reload that turns the channel into one that is not handed back to the chip
  leaves a lower override in effect.
* `state_file`: `writeState` looks at `stopped` and then writes the file without
  a lock; a forced stop in between removes the file first, and it comes back.
* `crash_after_edit`: the failsafe command walks the channels of config.toml as
  it is then. When the file lost a channel and the daemon dies before the
  restart that change needs, that channel stays at the last duty. (pwm1..3 of
  the N5 Pro are added to every configuration and are not affected.)
* `reload_order`: a preset apply, a PUT and an import save under `configFileMu`
  and reload after it is given back. A preset apply that saved first and reloads
  last puts its older `[alert]` and `[[schedule]]` sections in effect, against
  the comment of `hookedService` and DESIGN.md.
* `alert_history`: `check --after-update` and the `alert` command record in a
  ring of their own, read from alerts.json when they start. A running daemon
  has its ring in memory and writes it over the file with its next record or
  acknowledgement: the command's record is gone, against the comment of
  `newAlerter`. (The delivery itself is not affected.)
* `repeated_hour`: west of Greenwich `time.Date` gives the first of the two
  instants of a repeated hour. The hour mark at which the clocks go back is then
  no candidate of `Next`, nor is a boundary on the second pass: with a window
  that begins inside that hour, the switch at the transition and the one back
  are both passed over, against the comment of `Next` and DESIGN.md.

`config_store` passes with two exceptions that are part of its properties
(`crossed`): `writeMode` of the certificate manager saves outside
`configFileMu`, as the comment of the mutex says, and can take back an edit that
falls between its read and its save; and PUT reads the password hash for the
placeholder before it has the lock, so a password changed in between is
reverted in the file. `NoEditDropped` says that nothing else can.

A ceiling episode ends when the parts that still read are below their ceilings,
also if the part that was hot no longer reads; DESIGN.md says so, and the model
has it (`AllBelow`).

## Proofs

All proofs are checked to the last leaf by TLAPS; the only assumptions are the
named `ASSUME`s on the constants, which TLC evaluates on every run. Most say that a
bound is a natural number or a set finite. Some say more: `RateAssumption` has
`RateIdle * Rate >= Burst` (ten minutes at 20 a second against a burst of 40),
without which a bucket could be dropped before it is full again;
`CurveTimeAssumption` makes the history of readings longer than every
`staleCycles`, so that the property can see as far back as the counter;
`NeverAssumption` sets "never" apart from the times; `CountsAssumption` has
`LeaveWithin <= Observe` (60 s against 900 s), without which a register could
leave its value in time after T2 has failed; `ClockAssumption` makes a day a
whole number of hours, `ListsAssumption` has the windows of entries within a day
(the configuration refuses others), and `ZoneAssumption` has no zone skip more
than a day. Constants such as `MaxLines`
or `MaxKeys` that only bound TLC's search are arbitrary in the theorems.

**RegulationProofs.** `TypeCorrect` is inductive with `FsBound` (a running loop
is below the device-lost count). `CurMatchesHwHolds`: the property is itself
inductive once the types are known. `ProtectedFullHolds` needs `FullSpeedInv`:
what each step between the reading and the end of the cycle has already
established (after `compute` a hot channel has target 255 and a mode other than
auto, after `stall` a stalled one too, after `write` the duty is 255 or unknown)
and `StalledHasTach`. `OpenErrorsMarkedHolds` needs `MarkInv`, the same fact at
the steps inside the cycle. `HookOncePerEpisodeHolds` is an action property
proved by one case per action. `PartialFailureStaysHolds` has a temporal
hypothesis: under `[]reach[ch]` for one channel the count of failsafes in which
every write failed stays 0 (`NotLost`).

**ControllerSyncProofs.** `Inv` joins four parts: `LockInv` (who is where when;
the flag is up before the stop goes for `hwMu`), `PassInv` (a pass that still
has channels to write began before the stop secured anything), `ConfigInv`
(outside a swap all channels have one configuration) and `ChipInv` (which
channel is driven, refused or at whose stop value). From it follow
`NoWriteAfterStopHolds`, `SafeStateOfOneConfigHolds` and the refinement of
`SafeShutdown`.

**LifecycleProofs.** `LockInv` says who holds the lock in which stage, which
gives `OneWriterHolds`. `EndInv` says where a driven channel can be: with the
daemon, on its way to the failsafe, in the failsafe's list, or missed; with
`LockInv` it is inductive and gives `EndsSafeHolds`. Under the two conditions
`Edits = {}` and `MaxTools = 0` nothing is ever missed (`KeepInv`), so the
manual's promise holds: `AllAtStopHolds`.

**ConfigStoreProofs.** `LockInv` says which mutexes a request holds at which
step; mutual exclusion follows, and `NeverLockedOut`: of the requests that have
begun, the owner of the manager's mutex waits for nobody; if nobody owns it the
owner of `configFileMu` can go on, and if that is free too, whoever holds or
wants a store's mutex. `FreshInv` says that the text of a
request that holds `configFileMu` has, outside its own edits, the values written
last, but for the keys in `crossed` and for the hash of a PUT, and that it was
pinned to the mode in `seen`. Joined with `NoEditDropped` and `TlsKept` it is
inductive (`Contents`) and gives `EditsKept` and `TlsKeysKept`, for any number of
requests and restarts.

`CertificateKept` needs `KindInv` (which kind of handler is at which step, and
what `writeMode` is about to write) and `CertInv`: what is served is what the
disk would give, except during an upload, which then still has the previous
pair to roll back to. `EffectFollows` needs `EffectInv`: for every key that is
neither `crossed` nor `adrift`, whoever has still to put it in effect holds the
value of the file, and when nobody has, the pending configuration or the one in
effect holds it. That is the property with the handlers still under way, and
the only form in which a step can be followed: `EffectFollowsFile` alone says
nothing until all have answered.

**FileProofs.** `TrustKept` speaks of one step, but the step that replaces the
key may come long after the decision: `KeyInv` says that, while no new key is
due (`newKey`), the pair is whole and whoever is on the way to write has its key.
`LeftSafe` speaks of the state between runs; `UntouchedSafe` (a channel outside
`touched` is safe), `HotInv` (a limit ends the tests, its channel ends at 255 or
among those not restored) and `MarkerInv` (no state file, nothing left to
restore) carry it through a run and through a kill at any of its steps.
`LogInOrder` is inductive with the types; the work is in `ShiftedIs`, what `k` of
the renames of a rotation have done, from which a rotation cut short anywhere
keeps the order (`ShiftKeepsOrder`) and loses at most the oldest file.
`NoTurnaround` compares the verdicts before and after a step; `VerdictInv` says
that the samples of a sub-run stand at their slots of the grid, so that a further
one comes after the end of every window that was complete. Such a window stays
as it was, and an earlier one cannot become steady later (`SteadyStays`), hence
what T2 and T3 have decided stays decided (`T2Stays`, `T3Stays`). Over sub-runs
it is `HalfRun`: a repetition with one sub-run is undecided and leaves the
channel undecided, so a channel never turns round without a step in between.

**WebProofs.** `SessionInv`: `OutIsOut` extends the property to the mirror file,
from which a restart would bring a session back; `MirrorTrue` says what the
mirror holds between the steps of an account change (the live sessions under the
epoch in effect, or nothing that would load); `OneChange` how far epoch and
credentials may be apart, as long as two changes do not overlap. Both session
theorems follow. `Paid` says that what a token had above its rate is still
missing in its bucket, so a bucket that counts as idle owes nothing
(`IdlePaid`), which is why `pruneLocked` may drop it. `SleepersCounted` is
inductive once a fresh entry is known not to be one that an attempt still
remembers; the model takes the least unused number, and that there is one is a
counting argument over the attempts (`FreshIsFree`). `OldestGoes` is an action
property; it needs the tables finite and their times not in the future
(`TablesRight`), and what `pruneLocked` removes (`PrunedIsOldest`).

**AlertProofs.** Two memories and two clocks: `StampsAgree` relates the time in
the process to the stamp on disk, `SilentSince` says that a silent kind is
suppressed by a delivery before its silence began, by the clock it was noted
with (`SentBy`), and `Remembered` that a delivery that is not excused is known
exactly. The first two give `NotSilencedHolds`, the last `NotRepeatedHolds`.
`AckedWasShown` needs that ring and file agree and identifiers ascend
(`RingKept`), so a restart counts on from the last one (`LargestIsLast`), and
that every record the page knows by its identifier was shown (`ShownKept`).

**ControlProofs.** `WindowHonoured` needs that the entry between the unlock of
`evaluate` and its apply is the baseline. `SensorInv` compares the age of what is
in use with the cycle counter. `HoldHonoured` speaks of the start of a cycle:
`RiseHeld` says that the hold covers every rise that counts, over re-timing by
reloads, and `AutoAbove` that the last automatic duty covers target and hold, so
that `minOnHold` sees every rise. The proof rests on `InterpolateRange`: for every
curve and temperature the rounded duty is in 0..255. `HotterNotSlower` says more
of a curve that `ValidateCurve` accepts: a hotter reading never gets a lower
duty. The two neighbour conditions of the check are first carried to any two
points (`PointsAscend`); on one segment the rounding is a quotient of growing
numerators, and two segments are compared by the duties at their ends
(`BetweenMonotone`). `FrozenNoticed` needs the
counter against the readings themselves (`CountRight`: the last k are equal
exactly when k is at most one more than the counter) and the verdict of the
present cycle (`VerdictRight`).

`NextIsFirst` has no invariant but the types: it is a fact about `Next` at any
instant. Division and remainder are taken apart once (`DivMod`, `DivModUnique`,
`DivMono`), then only inequalities are left. The active entry changes only at the
boundary of a window, at an hour mark or at the change of the zone
(`ChangePoint`). After the latter the first named full hour speaks for what came
before it (`InSightSoon`); in sight the named instants are candidates (`IsCandidate`), and an
entry that is active beyond the listed days was active at an instant in sight a
week before (`SeenBefore`), so the least candidate with another entry is the first listed change.

`EachPointOnce` needs `StoreInv`: the memory, every copy a save has taken and the
file satisfy one and the same predicate, which says that the buckets of a tier
ascend, that no point is in two of them or twice in one, that a raw point is in
no bucket before its own (a step back of the clock puts it in a later one), and,
while the clock has only gone forward, that a raw point within the span is in the
bucket of its time. It is preserved by one point (`AddedGood`, `OpenedGood`),
hence by the pushes of `load` (`PushAllGood`), and `LoadGood` shows that the raw
points which `load` pushes are those the buckets of the file do not have. A save
then only hands on a copy that satisfies it.

Where a theorem needs what a recursive function computes (`Since`, `PushAll`),
the induction is a least counterexample: the set of places where the claim fails
has a least member (`LeastExists`), and the place before it refutes that one.

The inductive invariants have also been checked with TLC on the instances of the
runs, except `NotLost`, which holds only under the hypothesis of its theorem.

Only model-checked: every liveness property (`DeviceLostExits`,
`EmergencyFires`, `StallDetected`, `TamperUndone`, `StopServed`,
`BackToWork`), since the prover has neither fairness nor `ENABLED`. The theorems
`AllAtStopHolds` and `HotterNotSlower` have no run of their own: the first is
about the instances without edits and tools, the second about one operator.

## Plan

Done: `Regulation`, `ControllerSync` with `SafeShutdown`, `Lifecycle` and
`ConfigStore` in the order of what a fault would cost, then the components driven
by time, disk and devices.

Proved, in this order: the core modules, then `ConfigStore`'s effects and
certificate, the components of `stores`, and last the three whose properties rest
on folds, counts and calendar arithmetic (`HistoryStore`, `Verdicts`,
`Scheduler`).

To follow: abstract specifications for the session and alert stores, with the
refinements.

## Not modelled

* Request decoding, rendering, the event stream, the OpenAPI description, the
  CSV export of the history: they read state and write none.
* Parsing, clamping and editing of TOML (`internal/config`): data without
  control; what a rejected file does is in `ConfigStore` and `Lifecycle`.
* The CLI, set-up, `check`, and hardware identification (`sysinfo`, profile
  detection): sequential programs that read the system and print.
* The order of Debian versions (`internal/debver`): a recursion over characters.
* The log of read errors (`readerr.go`), the sensor list of the dashboard
  (`sensor.Known`) and the gates' own measurements (`EvalG4`): results that are
  shown or are outcomes in the models.
* The kernel driver, systemd and the disk, except as the environment of the
  models.
