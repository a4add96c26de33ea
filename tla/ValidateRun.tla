---------------------------- MODULE ValidateRun ------------------------------
(***************************************************************************)
(* One writing run of `validate` after another: the refusals, the gates,   *)
(* the tests T1 and T2/T3 on one channel, the limits that are checked at   *)
(* every sample, the restore on every exit path, and the state file that   *)
(* outlives a run which did not confirm it.                                *)
(*                                                                         *)
(* A run carries out a list of operations on the channel under test.  What *)
(* matters of a channel is who set it: "found" (not touched by the run),   *)
(* "full" (255), "test" (a duty of the test), "auto" (the EC), "stop" (its *)
(* stop value).  What the tests conclude from their samples is left out.   *)
(***************************************************************************)
EXTENDS Naturals, Sequences, FiniteSets

CONSTANTS
  PwmChannels,       \* pwm1..pwm4
  LimitChannels,     \* channels of the sensors with a temperature limit
  Steps, Subs,       \* duties of T1; sub-runs of T2 over all repetitions
  MaxRuns            \* bound: runs

ASSUME RunAssumption ==
  /\ LimitChannels \subseteq PwmChannels /\ 0 \notin PwmChannels
  /\ {Steps, Subs, MaxRuns} \subseteq Nat

VARIABLES
  vat,       \* "idle", "gates", "tests", "abort", "end", "marker", "close"
  todo,      \* operations to come, those of T1 before those of T2
  under,     \* the channel under test
  vch,       \* who set each channel
  touched, restoreErr, wrote, hot, aborted,  \* fields of Runner; hot is 0 for none
  marker,    \* validate-restore.json exists
  named,     \* history: the channels the run reported as not restored
  runs

runnerVars == <<touched, restoreErr, wrote, hot, aborted>>
validateVars == <<vat, todo, under, vch, runnerVars, marker, named, runs>>

Op(test, op) == [test |-> test, op |-> op]

Times(n, ops) == [i \in 1..n * Len(ops) |-> ops[((i - 1) % Len(ops)) + 1]]

\* RunT1: rest reference, manual mode, the steps, restore.
T1Ops == <<Op("T1", "hold"), Op("T1", "manual")>>
         \o Times(Steps, <<Op("T1", "write"), Op("T1", "hold")>>) \o <<Op("T1", "restore")>>

\* RunHandback: the auto value, then per sub-run the duty and the hand-back.
T2Ops == <<Op("pre", "auto"), Op("pre", "hold")>>
         \o Times(Subs, <<Op("T2", "manual"), Op("T2", "write"), Op("T2", "hold"),
                          Op("T2", "auto"), Op("T2", "hold")>>) \o <<Op("T2", "restore")>>

\* The tests a run may select; the PCIe fan has no EC automatic, so no T2/T3.
PCIeChannel == 4

Selections(c) == {T1Ops} \cup (IF c = PCIeChannel THEN {} ELSE {T2Ops, T1Ops \o T2Ops})

ValidateInit ==
  /\ vat = "idle" /\ todo = <<>> /\ under = 0
  /\ vch = [c \in PwmChannels |-> "found"]
  /\ touched = {} /\ restoreErr = {} /\ wrote = FALSE /\ hot = 0 /\ aborted = FALSE
  /\ marker = FALSE /\ named = {} /\ runs = 0

\* openRestoreState.
Refused == marker

\* cmdValidate up to the confirmation: an open state file refuses the run; the
\* state file is written before anything else is.
StartRun(c, ops) ==
  /\ vat = "idle" /\ ~Refused /\ runs < MaxRuns
  /\ vat' = "gates" /\ todo' = ops /\ under' = c
  /\ vch' = [x \in PwmChannels |-> "found"]
  /\ touched' = {} /\ restoreErr' = {} /\ wrote' = FALSE /\ hot' = 0 /\ aborted' = FALSE
  /\ marker' = TRUE /\ named' = {} /\ runs' = runs + 1

\* Runner.stop.
Ends == vat' = "abort" /\ aborted' = TRUE

\* Cfg.Guard: another program has changed a pwm attribute, holds one open or is
\* a known fan daemon.
OtherWriter == Ends /\ hot' = hot

\* Runner.sample: the run goes on, the limit of a channel ends it, or something
\* else does: another writer, a lost sensor, a fan that stands still, a signal.
Sampled(next) ==
  \/ vat' = next /\ UNCHANGED <<hot, aborted>>
  \/ OtherWriter
  \/ Ends /\ hot' \in LimitChannels \cup {0}

GateFails == vat' = "end" /\ todo' = <<>> /\ UNCHANGED <<hot, aborted>>

\* The first sample, the gates and the gate window: nothing is written.
Gates ==
  /\ vat = "gates"
  /\ (Sampled("tests") /\ UNCHANGED todo) \/ GateFails
  /\ UNCHANGED <<under, vch, touched, restoreErr, wrote, marker, named, runs>>

Doing(op) == vat = "tests" /\ todo # <<>> /\ Head(todo).op = op

NextOp == vat' = "tests" /\ todo' = Tail(todo)
Stops == vat' = "abort" /\ todo' = todo

\* hold and observe: without a sample of the register the test before the sub-runs
\* gives no auto value, and T2 ends there.
Hold ==
  /\ Doing("hold") /\ Sampled("tests")
  /\ \/ todo' = IF vat' = "tests" THEN Tail(todo) ELSE todo
     \/ Head(todo).test = "pre" /\ vat' = "tests" /\ todo' = <<>>
  /\ UNCHANGED <<under, vch, touched, restoreErr, wrote, marker, named, runs>>

\* manual: T1 gives up without an abort, T2 then still runs.
Manual ==
  /\ Doing("manual")
  /\ touched' = touched \cup {under} /\ wrote' = TRUE
  /\ \/ vch' = [vch EXCEPT ![under] = "full"] /\ NextOp /\ UNCHANGED aborted
     \/ /\ UNCHANGED vch /\ Head(todo).test = "T1" /\ UNCHANGED aborted
        /\ vat' = "tests" /\ todo' = SelectSeq(todo, LAMBDA o : o.test # "T1")
     \/ UNCHANGED vch /\ Head(todo).test # "T1" /\ Stops /\ aborted' = TRUE
  /\ UNCHANGED <<under, restoreErr, hot, marker, named, runs>>

\* write and auto: an error ends the run.
Command(op, by, writes) ==
  /\ Doing(op)
  /\ touched' = touched \cup {under} /\ wrote' = (wrote \/ writes)
  /\ \/ vch' = [vch EXCEPT ![under] = by] /\ NextOp /\ UNCHANGED aborted
     \/ UNCHANGED vch /\ Stops /\ aborted' = TRUE
  /\ UNCHANGED <<under, restoreErr, hot, marker, named, runs>>

HotChannel == IF wrote THEN hot ELSE 0

\* Who has set channel c after Env.Restore, which enters manual mode (255) before
\* it writes a stop value and can fail in between.
Restored(c, ok, half) ==
  IF c \in ok THEN IF c = HotChannel THEN "full" ELSE "stop"
  ELSE IF c \in half THEN "full" ELSE vch[c]

\* restore of the channels C: 255 for the channel whose limit tripped, else the
\* stop value.
Restore(C) ==
  \E ok \in SUBSET C :
    /\ \E half \in SUBSET (C \ ok) : vch' = [c \in PwmChannels |-> Restored(c, ok, half)]
    /\ touched' = (touched \cup C) \ ok
    /\ restoreErr' = (restoreErr \cup C) \ ok

\* The restore at the end of a test.
RestoreUnder ==
  /\ Doing("restore") /\ Restore({under}) /\ NextOp
  /\ UNCHANGED <<under, wrote, hot, aborted, marker, named, runs>>

\* Mutant: only the channels the tests have written are restored.
CloseTargetsTouched == touched

\* Close: also the channel of a temperature abort.
CloseTargets == touched \cup (IF HotChannel = 0 THEN {} ELSE {HotChannel})

Close(from, to) ==
  /\ vat = from /\ Restore(CloseTargets) /\ vat' = to /\ todo' = <<>>
  /\ UNCHANGED <<under, wrote, hot, aborted, marker, named, runs>>

\* An abort among the sub-runs of T2 restores the channel and then closes;
\* elsewhere closeOnAbort does.
Abort ==
  /\ vat = "abort" /\ todo # <<>> /\ Head(todo).test = "T2"
  /\ Restore({under}) /\ todo' = <<>>
  /\ UNCHANGED <<vat, under, wrote, hot, aborted, marker, named, runs>>

CloseOnAbort ==
  /\ todo # <<>> => Head(todo).test # "T2"
  /\ Close("abort", "end")

\* A signal between two tests.
SignalBetween ==
  /\ vat = "tests" /\ todo # <<>> /\ Head(todo).test = "pre"
  /\ vat' = "abort" /\ todo' = <<>>
  /\ UNCHANGED <<under, vch, runnerVars, marker, named, runs>>

TestsDone ==
  /\ vat = "tests" /\ todo = <<>> /\ vat' = "end"
  /\ UNCHANGED <<todo, under, vch, runnerVars, marker, named, runs>>

\* Mutant: the state file goes whatever could not be restored.
UnrestoredNone == {}

Unrestored == touched

\* The state file goes when every channel is restored and it can be removed.
RemoveMarker ==
  /\ vat = "marker" /\ vat' = "close" /\ named' = Unrestored
  /\ marker' \in (IF Unrestored = {} THEN {TRUE, FALSE} ELSE {TRUE})
  /\ UNCHANGED <<todo, under, vch, runnerVars, runs>>

\* A panic: the deferred Close, and the state file stays.
Panic ==
  /\ vat \in {"gates", "tests"}
  /\ Restore(CloseTargets) /\ vat' = "idle" /\ todo' = <<>> /\ named' = touched'
  /\ UNCHANGED <<under, wrote, hot, aborted, marker, runs>>

KilledRun ==
  /\ vat # "idle" /\ vat' = "idle" /\ todo' = <<>>
  /\ named' = touched
  /\ UNCHANGED <<under, vch, runnerVars, marker, runs>>

\* The operator starts the daemon or runs failsafe, then removes the state file.
CleanUp ==
  /\ vat = "idle" /\ marker /\ marker' = FALSE
  /\ vch' = [c \in PwmChannels |-> "stop"] /\ touched' = {} /\ restoreErr' = {}
  /\ hot' = 0 /\ named' = {}
  /\ UNCHANGED <<vat, todo, under, wrote, aborted, runs>>

ValidateNext ==
  \/ \E c \in PwmChannels : \E ops \in Selections(c) : StartRun(c, ops)
  \/ Gates \/ Hold \/ Manual
  \/ Command("write", "test", TRUE) \/ Command("auto", "auto", FALSE)
  \/ RestoreUnder \/ Abort \/ CloseOnAbort \/ SignalBetween \/ TestsDone
  \/ Close("end", "marker") \/ RemoveMarker \/ Close("close", "idle")
  \/ Panic \/ KilledRun \/ CleanUp

ValidateSpec == ValidateInit /\ [][ValidateNext]_validateVars

-----------------------------------------------------------------------------
\* "Every channel it touches is put back into its stop state at the end, on abort
\* and on a signal", and the third refusal: when no run is under way and no state
\* file refuses the next one, every channel is as it was found or at its stop
\* value, except that the channel whose temperature limit tripped in a run that
\* wrote is at 255, whichever channel was under test.  What a run that ended
\* reports as not restored is what it tried in vain.
LeftSafe ==
  vat = "idle" /\ ~marker =>
    /\ named = {}
    /\ \A c \in PwmChannels :
         IF c = HotChannel THEN vch[c] = "full" ELSE vch[c] \in {"found", "stop"}
=============================================================================
