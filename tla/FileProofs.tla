----------------------------- MODULE FileProofs -----------------------------
(***************************************************************************)
(* Proofs about what is left on disk and on the chip by steps that can     *)
(* fail or be the last one, and about the verdicts on records that are cut *)
(* short: CertFiles, ValidateRun, LogFile and Verdicts, for every          *)
(* instance.                                                               *)
(*                                                                         *)
(* TrustKept needs that whoever is about to write a key or a certificate   *)
(* has the key of the pair (KeyInv).  LeftSafe needs that a channel        *)
(* outside the list of touched ones is safe at every step of a run, and    *)
(* that the state file is missing only when the list is empty              *)
(* (UntouchedSafe, MarkerInv). LogInOrder is inductive once a rotation     *)
(* that ends after any number of its renames is understood (ShiftedIs).    *)
(* NoTurnaround needs that a further sample comes after the end of every   *)
(* window that was complete (SteadyStays).                                 *)
(***************************************************************************)
EXTENDS CertFiles, ValidateRun, LogFile, Verdicts, TLAPS

-----------------------------------------------------------------------------
\* CertFiles.

\* The fields of a job; what they may be is not needed.
JobShape(j) == j = [at |-> j.at, kind |-> j.kind, key |-> j.key, born |-> j.born,
                    prevKey |-> j.prevKey, prev |-> j.prev]

\* The shape of the state the argument needs.
CertShape ==
  /\ newKey \in BOOLEAN
  /\ job = [p \in Procs |-> job[p]] /\ \A p \in Procs : JobShape(job[p])

\* While no new key is due the pair is whole, and whoever is about to write a key or
\* a certificate has that key.
KeyInv ==
  ~newKey => /\ Loads(certKey, cert)
             /\ \A p \in Procs : job[p].at \in {"key", "cert"} => job[p].key = certKey

\* The inductive invariant of CertFiles.
CertInv == CertShape /\ KeyInv

\* Do moves one process and leaves the other where it is.
LEMMA JobMoves ==
  ASSUME CertShape, NEW p \in Procs, NEW j, JobShape(j), Do(p, j)
  PROVE  /\ job' = [q \in Procs |-> job'[q]] /\ \A q \in Procs : JobShape(job'[q])
         /\ job'[p] = j /\ \A q \in Procs \ {p} : job'[q] = job[q]
  BY DEF CertShape, Do

\* A job that goes on to another step keeps its key and its kind.
LEMMA JobStep ==
  ASSUME NEW j, JobShape(j), NEW s
  PROVE  LET i == [j EXCEPT !.at = s]
         IN  JobShape(i) /\ i.at = s /\ i.key = j.key /\ i.kind = j.kind
  BY DEF JobShape

\* A job with another field set stays where it is.
LEMMA JobEdit ==
  ASSUME NEW j, JobShape(j), NEW v
  PROVE  /\ LET i == [j EXCEPT !.key = v] IN JobShape(i) /\ i.at = j.at /\ i.key = v
         /\ LET i == [j EXCEPT !.born = v] IN JobShape(i) /\ i.at = j.at /\ i.key = j.key
  BY DEF JobShape

\* The job that an operation which generates a certificate takes up.
LEMMA GeneratesJob ==
  ASSUME NEW p \in Procs, NEW j, JobShape(j), NEW k, Generates(p, j, k)
  PROVE  \E i : JobShape(i) /\ Do(p, i) /\ i.at = "key" /\ (k # 0 => i.key = k)
  <1> DEFINE x == IF k # 0 THEN k ELSE certKeys'
             i1 == [j EXCEPT !.at = "key"]
             i2 == [i1 EXCEPT !.key = x]
             i3 == [i2 EXCEPT !.born = era]
  <1>1. Do(p, i3)
      BY DEF Generates
  <1>2. JobShape(i1) /\ i1.at = "key"
      BY JobStep
  <1> HIDE DEF i1, x
  <1>3. JobShape(i2) /\ i2.at = "key" /\ i2.key = x
      BY <1>2, JobEdit
  <1> HIDE DEF i2
  <1>4. JobShape(i3) /\ i3.at = "key" /\ i3.key = x
      BY <1>3, JobEdit
  <1>5. QED
      BY <1>1, <1>4 DEF x

\* It has a key of its own only when a new one is due.
LEMMA GeneratesStep ==
  ASSUME CertInv, NEW p \in Procs, NEW j, JobShape(j), NEW k,
         Generates(p, j, k), ~newKey' => ~newKey /\ k = certKey,
         newKey' \in BOOLEAN, UNCHANGED <<certKey, cert, era>>
  PROVE  CertInv'
  <1>1. PICK i : JobShape(i) /\ Do(p, i) /\ i.at = "key" /\ (k # 0 => i.key = k)
      BY GeneratesJob
  <1>2. ~newKey' => ~newKey /\ k # 0 /\ i.key = certKey
      BY <1>1 DEF CertInv, KeyInv, Loads
  <1>3. QED
      BY <1>1, <1>2, JobMoves DEF CertInv, CertShape, KeyInv, Loads

\* A step that neither generates nor writes the automatic pair.
LEMMA OtherJobStep ==
  ASSUME CertInv, NEW p \in Procs, NEW j, JobShape(j), Do(p, j),
         j.at \notin {"key", "cert"}, newKey' = newKey,
         UNCHANGED <<certKey, cert, era>>
  PROVE  CertInv'
  BY JobMoves DEF CertInv, CertShape, KeyInv, Loads

\* Every step of the daemon, of the cert command and of the clock keeps the
\* invariant, a write that fails and a crash between key and certificate included.
LEMMA CertStep == CertInv /\ [CertNext]_certVars => CertInv'
  <1> SUFFICES ASSUME CertInv, [CertNext]_certVars PROVE CertInv'
      OBVIOUS
  <1>s. /\ JobShape(NoJob) /\ NoJob.at = "none"
        /\ \A k : JobShape([NoJob EXCEPT !.kind = k])
        /\ \A p \in Procs : JobShape(job[p])
      BY DEF NoJob, JobShape, CertInv, CertShape
  <1>t. \A p \in Procs : \A s :
        /\ JobShape([job[p] EXCEPT !.at = s])
        /\ [job[p] EXCEPT !.at = s].at = s
        /\ [job[p] EXCEPT !.at = s].key = job[p].key
      BY <1>s, JobStep
  <1>1. CASE StartDaemon
    <2> DEFINE j == [NoJob EXCEPT !.kind = "start"]
    <2>1. UNCHANGED <<certKey, cert, era>> /\ "daemon" \in Procs
        BY <1>1 DEF StartDaemon, fileVars, Procs
    <2>2. CASE UNCHANGED <<job, newKey>>
        BY <2>1, <2>2 DEF CertInv, CertShape, KeyInv, Loads
    <2>3. ASSUME NEW readable \in BOOLEAN, Generates("daemon", j, KeepKey(readable)),
                 newKey' = (newKey \/ ~Sound(readable))
          PROVE  CertInv'
      <3>1. ~newKey' => ~newKey /\ KeepKey(readable) = certKey
          BY <2>3 DEF KeepKey
      <3>2. newKey' \in BOOLEAN
          BY <2>3 DEF CertInv, CertShape
      <3>3. QED
          BY <2>1, <2>3, <3>1, <3>2, <1>s, GeneratesStep
    <2>4. QED
        BY <1>1, <2>2, <2>3 DEF StartDaemon
  <1>2. ASSUME NEW e \in 0..MaxEra, SetClock(e) PROVE CertInv'
      BY <1>2 DEF SetClock, fileVars, CertInv, CertShape, KeyInv, Loads
  <1>3. ASSUME NEW p \in Procs, ResetAuto(p) PROVE CertInv'
    <2> DEFINE j == [NoJob EXCEPT !.kind = "reset"]
    <2>1. UNCHANGED <<certKey, cert, era>>
        BY <1>3 DEF ResetAuto, fileVars
    <2>2. CASE Do(p, [j EXCEPT !.at = "mode"]) /\ UNCHANGED newKey
        BY <2>1, <2>2, <1>s, JobStep, OtherJobStep
    <2>3. ASSUME NEW readable \in BOOLEAN, Generates(p, j, KeepKey(readable)),
                 newKey' = (newKey \/ ~Sound(readable))
          PROVE  CertInv'
      <3>1. ~newKey' => ~newKey /\ KeepKey(readable) = certKey
          BY <2>3 DEF KeepKey
      <3>2. newKey' \in BOOLEAN
          BY <2>3 DEF CertInv, CertShape
      <3>3. QED
          BY <2>1, <2>3, <3>1, <3>2, <1>s, GeneratesStep
    <2>4. QED
        BY <1>3, <2>2, <2>3 DEF ResetAuto, ResetGoesOn
  <1>4. ASSUME NEW p \in Procs, Upload(p) PROVE CertInv'
    <2>1. PICK k, x, c : Do(p, [at |-> "customKey", kind |-> "upload", key |-> k,
                                born |-> 0, prevKey |-> x, prev |-> c])
        BY <1>4 DEF Upload
    <2>2. UNCHANGED <<certKey, cert, era, newKey>>
        BY <1>4 DEF Upload, fileVars
    <2>3. QED
        BY <2>1, <2>2, OtherJobStep DEF JobShape
  <1>5. ASSUME NEW p \in Procs, NEW keep \in BOOLEAN, RegenerateCert(p, keep)
        PROVE CertInv'
    <2> DEFINE j == [NoJob EXCEPT !.kind = "regenerate"]
    <2>1. UNCHANGED <<certKey, cert, era>>
        BY <1>5 DEF RegenerateCert, fileVars
    <2>2. PICK readable \in BOOLEAN :
            /\ Generates(p, j, ReissueKey(keep, readable))
            /\ newKey' = (newKey \/ ~(keep /\ readable))
        BY <1>5 DEF RegenerateCert
    <2>3. ~newKey' => ~newKey /\ ReissueKey(keep, readable) = certKey
        BY <2>2 DEF ReissueKey
    <2>4. newKey' \in BOOLEAN
        BY <2>2 DEF CertInv, CertShape
    <2>5. QED
        BY <2>1, <2>2, <2>3, <2>4, <1>s, GeneratesStep
  <1>6. ASSUME NEW h \in HostSets, ChangeHosts(h) PROVE CertInv'
      BY <1>6 DEF ChangeHosts, fileVars, CertInv, CertShape, KeyInv, Loads
  <1>7. ASSUME NEW p \in Procs, WriteKey(p) PROVE CertInv'
    <2>1. UNCHANGED <<cert, era, newKey>> /\ job[p].at = "key"
        BY <1>7 DEF WriteKey, JobAt
    <2>2. CASE certKey' = job[p].key /\ JobTo(p, "cert")
      <3> DEFINE i == [job[p] EXCEPT !.at = "cert"]
      <3>1. JobShape(i) /\ Do(p, i) /\ i.key = job[p].key
          BY <2>2, <1>t DEF JobTo
      <3> HIDE DEF i
      <3>2. QED
          BY <2>1, <2>2, <3>1, JobMoves DEF CertInv, CertShape, KeyInv, Loads
    <2>3. CASE certKey' = certKey /\ Done(p)
        BY <2>1, <2>3, <1>s, OtherJobStep DEF Done, OperationEnds
    <2>4. QED
        BY <1>7, <2>2, <2>3 DEF WriteKey
  <1>8. ASSUME NEW p \in Procs, WriteCert(p) PROVE CertInv'
    <2> DEFINE c == [key |-> job[p].key, hosts |-> mgr[p].hosts, born |-> job[p].born]
    <2>1. UNCHANGED <<certKey, era>> /\ job[p].at = "cert"
        BY <1>8 DEF WriteCert, JobAt
    <2>2. PICK i : JobShape(i) /\ Do(p, i) /\ i.at \notin {"key", "cert"}
      <3>1. CASE Do(p, NoJob)
          BY <3>1, <1>s
      <3> DEFINE j == [NoJob EXCEPT !.kind = "reset"]
      <3>2. CASE ResetGoesOn(p)
        <4> DEFINE r == [j EXCEPT !.at = "mode"]
        <4>1. JobShape(j)
            BY <1>s
        <4>2. JobShape(r) /\ r.at = "mode"
          <5> HIDE DEF j
          <5>1. QED
              BY <4>1, JobStep
        <4>3. Do(p, r)
            BY <3>2 DEF ResetGoesOn
        <4>4. QED
          <5> HIDE DEF r
          <5>1. QED
              BY <4>2, <4>3
      <3>3. QED
          BY <3>1, <3>2, <1>8 DEF WriteCert, Done, OperationEnds
    <2>3. CASE cert' = c /\ newKey' = (newKey /\ ~Whole(p, certKey, c))
      <3>2. Whole(p, certKey, c) \/ ~newKey => job[p].key = certKey /\ certKey # 0
          BY <2>1 DEF Whole, Loads, CertInv, KeyInv
      <3>3. Whole(p, certKey, c) =>
              \A q \in Procs \ {p} : job[q].at \notin {"key", "cert"}
          BY DEF Whole, JobAt
      <3>4. QED
        <4>1. /\ CertShape' /\ cert'.key = job[p].key
              /\ job'[p] = i /\ \A q \in Procs \ {p} : job'[q] = job[q]
            BY <2>1, <2>2, <2>3, JobMoves DEF CertInv, CertShape
        <4>2. ~newKey' => Whole(p, certKey, c) \/ ~newKey
            BY <2>3
        <4>3. ~newKey' => Loads(certKey, cert)'
            BY <2>1, <2>3, <3>2, <4>1, <4>2 DEF Loads
        <4>4. ~newKey' => \A q \in Procs :
                 job'[q].at \in {"key", "cert"} => job'[q].key = certKey'
            BY <2>1, <2>2, <3>3, <4>1, <4>2 DEF CertInv, KeyInv
        <4>5. QED
            BY <4>1, <4>3, <4>4 DEF CertInv, KeyInv
    <2>4. CASE cert' = cert /\ newKey' = newKey
        BY <2>1, <2>2, <2>4, OtherJobStep
    <2>5. QED
        BY <1>8, <2>3, <2>4 DEF WriteCert
  <1>9. ASSUME NEW p \in Procs,
               \/ WriteCustomKey(p) \/ WriteCustom(p) \/ WriteMode(p) \/ UndoKey(p)
               \/ UndoCustom(p) \/ RemoveCustom(p) \/ RemoveCustomKey(p) \/ Killed(p)
        PROVE CertInv'
    <2>1. PICK i : JobShape(i) /\ Do(p, i) /\ i.at \notin {"key", "cert"}
      <3>1. \/ Do(p, NoJob)
            \/ \E s \in {"custom", "undoKey", "undo", "mode", "removeCustom",
                        "removeCustomKey"} : JobTo(p, s)
          BY <1>9
          DEF WriteCustomKey, WriteCustom, WriteMode, ModeRefused, UndoKey, UndoCustom,
              RemoveCustom, RemoveCustomKey, Killed, Done, OperationEnds
      <3>2. QED
          BY <3>1, <1>s, <1>t DEF JobTo
    <2>2. UNCHANGED <<certKey, cert, era, newKey>>
        BY <1>9
        DEF WriteCustomKey, WriteCustom, WriteMode, UndoKey, UndoCustom, RemoveCustom,
            RemoveCustomKey, Killed, fileVars
    <2>3. QED
        BY <2>1, <2>2, OtherJobStep
  <1>17. CASE UNCHANGED certVars
      BY <1>17 DEF certVars, fileVars, CertInv, CertShape, KeyInv, Loads
  <1>18. QED
      BY <1>1, <1>2, <1>3, <1>4, <1>5, <1>6, <1>7, <1>8, <1>9, <1>17
      DEF CertNext, TlsRequest, CertCommand, Requested, Procs

\* TrustKept: for every number of keys, settings of the clock, read errors, crashes
\* and failed writes, the key of the automatic certificate changes only when a new
\* one was asked for or the pair was found missing, unreadable, broken or outside
\* its validity (EnsureAuto, Reissue); it is never broken otherwise.
THEOREM TrustKeptHolds == CertSpec => TrustKept
  <1>1. CertInit => CertInv
      BY DEF CertInit, CertInv, CertShape, KeyInv, NoJob, JobShape
  <1>2. CertInv /\ [CertNext]_certVars
          => [certKey # 0 /\ certKey' # certKey => newKey]_certVars
    <2> SUFFICES ASSUME CertInv, CertNext, certKey' # certKey PROVE newKey
        BY DEF certVars, fileVars
    <2>1. PICK p \in Procs : WriteKey(p)
        BY DEF CertNext, TlsRequest, CertCommand, Requested, StartDaemon, SetClock,
               ResetAuto, Upload, RegenerateCert, ChangeHosts, WriteCert, WriteCustomKey,
               WriteCustom, WriteMode, UndoKey, UndoCustom, RemoveCustom,
               RemoveCustomKey, Killed, fileVars
    <2>2. QED
        BY <2>1 DEF WriteKey, JobAt, CertInv, KeyInv
  <1>3. QED
      BY <1>1, <1>2, CertStep, PTL DEF CertSpec, TrustKept

-----------------------------------------------------------------------------
\* ValidateRun.

\* The shape of the state the argument needs.
RunTypes ==
  /\ vch = [c \in PwmChannels |-> vch[c]]
  /\ hot \in LimitChannels \cup {0} /\ touched \subseteq PwmChannels
  /\ vat # "idle" => under \in PwmChannels
  /\ wrote \in BOOLEAN /\ marker \in BOOLEAN

\* A channel outside touched is as it was found or restored.
UntouchedSafe ==
  \A c \in PwmChannels \ touched :
    vch[c] \in {"found", "stop"} \/ (c = HotChannel /\ vch[c] = "full")

\* A limit ends the tests; once the run is closed, the channel of the limit is at
\* 255 or among the channels that could not be restored.
HotInv ==
  /\ hot # 0 => vat \notin {"gates", "tests"}
  /\ vat \in {"marker", "close"} =>
       HotChannel = 0 \/ HotChannel \in touched \/ vch[HotChannel] = "full"

\* The state file is missing only between its removal, after which nothing is left
\* to restore, and the next run.
MarkerInv ==
  ~marker => \/ vat = "close" /\ touched = {} /\ named = {}
             \/ vat = "idle" /\ LeftSafe

\* The inductive invariant of ValidateRun.
RunInv == RunTypes /\ UntouchedSafe /\ HotInv /\ MarkerInv

\* A restore, whichever channels it fails for.
LEMMA RestoreKeeps ==
  ASSUME RunInv, NEW C \in SUBSET PwmChannels, Restore(C), UNCHANGED <<hot, wrote>>
  PROVE  /\ vch' = [c \in PwmChannels |-> vch'[c]]
         /\ HotChannel' = HotChannel /\ touched' \subseteq PwmChannels
         /\ UntouchedSafe'
         /\ \A c \in PwmChannels \ C : vch'[c] = vch[c]
         /\ HotChannel \in C => HotChannel \in touched' \/ vch'[HotChannel] = "full"
         /\ HotChannel \in PwmChannels /\ vch[HotChannel] = "full"
              => vch'[HotChannel] = "full"
  <1>1. PICK ok \in SUBSET C :
          /\ \E half \in SUBSET (C \ ok) :
               vch' = [c \in PwmChannels |-> Restored(c, ok, half)]
          /\ touched' = (touched \cup C) \ ok
      BY DEF Restore
  <1>2. HotChannel' = HotChannel
      BY DEF HotChannel
  <1> HIDE DEF HotChannel
  <1>3. touched' \subseteq PwmChannels
      BY <1>1 DEF RunInv, RunTypes
  <1>4. QED
      BY <1>1, <1>2, <1>3 DEF Restored, RunInv, UntouchedSafe

\* Every step of a run keeps the invariant: a gate, an operation, a limit, a
\* signal, a panic or a kill, and a restore that fails for any of the channels.
LEMMA RunStep == RunInv /\ [ValidateNext]_validateVars => RunInv'
  <1> SUFFICES ASSUME RunInv, [ValidateNext]_validateVars PROVE RunInv'
      OBVIOUS
  <1> USE RunAssumption DEF RunAssumption, runnerVars
  <1>h. /\ HotChannel \in PwmChannels \cup {0} /\ CloseTargets \subseteq PwmChannels
        /\ hot = 0 => HotChannel = 0
      BY DEF HotChannel, CloseTargets, RunInv, RunTypes
  <1>1. ASSUME NEW c \in PwmChannels, NEW ops \in Selections(c), StartRun(c, ops)
        PROVE  RunInv'
      BY <1>1 DEF StartRun, RunInv, RunTypes, UntouchedSafe, HotInv, MarkerInv, HotChannel
  <1>2. CASE Gates
      BY <1>2 DEF Gates, GateFails, Sampled, OtherWriter, Ends,
                  RunInv, RunTypes, UntouchedSafe, HotInv, MarkerInv, HotChannel
  <1>3. CASE Hold
      BY <1>3 DEF Hold, Doing, Sampled, OtherWriter, Ends,
                  RunInv, RunTypes, UntouchedSafe, HotInv, MarkerInv, HotChannel
  <1>4. CASE Manual
      BY <1>4 DEF Manual, Doing, NextOp, Stops,
                  RunInv, RunTypes, UntouchedSafe, HotInv, MarkerInv, HotChannel
  <1>5. ASSUME NEW op, NEW by, NEW writes \in BOOLEAN, Command(op, by, writes)
        PROVE  RunInv'
      BY <1>5 DEF Command, Doing, NextOp, Stops,
                  RunInv, RunTypes, UntouchedSafe, HotInv, MarkerInv, HotChannel
  <1>6. ASSUME NEW C \in SUBSET PwmChannels, Restore(C),
               UNCHANGED <<hot, wrote, under, marker>>, marker, vat # "idle",
               vat' \notin {"marker", "close"} \/ HotChannel \in C \/ HotChannel = 0,
               hot = 0 \/ vat' \notin {"gates", "tests"}
        PROVE  RunInv'
    <2>1. RunTypes' /\ UntouchedSafe' /\ MarkerInv'
        BY <1>6, RestoreKeeps DEF RunInv, RunTypes, MarkerInv
    <2>2. HotInv'
        BY <1>6, RestoreKeeps DEF HotInv
    <2>3. QED
        BY <2>1, <2>2 DEF RunInv
  <1>m. marker \/ vat \in {"idle", "close"}
      BY DEF RunInv, MarkerInv
  <1>7. CASE RestoreUnder
    <2>1. {under} \in SUBSET PwmChannels /\ hot = 0
        BY <1>7 DEF RestoreUnder, Doing, RunInv, RunTypes, HotInv
    <2>2. QED
        BY <1>6, <1>7, <1>m, <2>1 DEF RestoreUnder, Doing, NextOp
  <1>8. CASE Abort
    <2>1. {under} \in SUBSET PwmChannels
        BY <1>8 DEF Abort, RunInv, RunTypes
    <2>2. QED
        BY <1>6, <1>8, <1>m, <2>1 DEF Abort
  <1>c. HotChannel \in CloseTargets \/ HotChannel = 0
      BY DEF CloseTargets
  <1>9. CASE CloseOnAbort
      BY <1>6, <1>9, <1>m, <1>h DEF CloseOnAbort, Close
  <1>10. CASE Close("end", "marker")
      BY <1>6, <1>10, <1>m, <1>h, <1>c DEF Close
  <1>11. CASE SignalBetween
      BY <1>11 DEF SignalBetween, RunInv, RunTypes, UntouchedSafe, HotInv, MarkerInv,
                   HotChannel
  <1>12. CASE TestsDone
      BY <1>12 DEF TestsDone, RunInv, RunTypes, UntouchedSafe, HotInv, MarkerInv,
                   HotChannel
  <1>13. CASE RemoveMarker
      BY <1>13 DEF RemoveMarker, Unrestored, RunInv, RunTypes, UntouchedSafe, HotInv,
                   MarkerInv, HotChannel
  <1>14. CASE Close("close", "idle")
    <2>1. CASE marker
        BY <1>6, <1>14, <1>h, <2>1 DEF Close
    <2>2. CASE ~marker
      <3>1. /\ Restore(CloseTargets) /\ vat' = "idle"
            /\ UNCHANGED <<under, hot, wrote, marker, named>> /\ vat = "close"
          BY <1>14 DEF Close
      <3>2. touched = {} /\ named = {}
          BY <2>2, <3>1 DEF RunInv, MarkerInv
      <3>3. HotChannel = 0 \/ vch[HotChannel] = "full"
          BY <3>1, <3>2 DEF RunInv, HotInv
      <3>4. CloseTargets \subseteq {HotChannel}
          BY <3>2 DEF CloseTargets
      <3>5. LeftSafe'
          BY <1>h, <3>1, <3>2, <3>3, <3>4, RestoreKeeps
          DEF LeftSafe, RunInv, UntouchedSafe
      <3>6. RunTypes' /\ UntouchedSafe' /\ HotInv'
          BY <1>h, <3>1, RestoreKeeps DEF RunInv, RunTypes, HotInv
      <3>7. QED
          BY <3>1, <3>5, <3>6 DEF RunInv, MarkerInv
    <2>3. QED
        BY <2>1, <2>2
  <1>15. CASE Panic
      BY <1>6, <1>15, <1>m, <1>h DEF Panic
  <1>16. CASE KilledRun
    <2>1. CASE marker
      BY <1>16, <2>1
      DEF KilledRun, RunInv, RunTypes, UntouchedSafe, HotInv, MarkerInv, HotChannel
    <2>2. CASE ~marker
      <3>1. /\ vat = "close" /\ touched = {} /\ named' = {} /\ vat' = "idle"
            /\ UNCHANGED <<under, vch, touched, hot, wrote, marker>>
          BY <1>16, <2>2 DEF KilledRun, RunInv, MarkerInv
      <3>2. HotChannel' = HotChannel
          BY <3>1 DEF HotChannel
      <3>3. LeftSafe'
          BY <1>h, <3>1, <3>2 DEF LeftSafe, RunInv, UntouchedSafe, HotInv
      <3>4. QED
          BY <3>1, <3>2, <3>3 DEF RunInv, RunTypes, UntouchedSafe, HotInv, MarkerInv
    <2>3. QED
        BY <2>1, <2>2
  <1>17. CASE CleanUp
      BY <1>17 DEF CleanUp, RunInv, RunTypes, UntouchedSafe, HotInv, MarkerInv,
                   HotChannel, LeftSafe
  <1>18. CASE UNCHANGED validateVars
      BY <1>18 DEF validateVars, RunInv, RunTypes, UntouchedSafe, HotInv, MarkerInv,
                   HotChannel, LeftSafe
  <1>19. QED
      BY <1>1, <1>2, <1>3, <1>4, <1>5, <1>7, <1>8, <1>9, <1>10, <1>11, <1>12, <1>13,
         <1>14, <1>15, <1>16, <1>17, <1>18 DEF ValidateNext

\* LeftSafe: for every set of channels and every sequence of runs, when no run is
\* under way and no state file is left, each channel is as it was found, at its
\* stop value or, if its limit tripped, at 255 (Runner.Close, openRestoreState).
THEOREM LeftSafeHolds == ValidateSpec => []LeftSafe
  <1>1. ValidateInit => RunInv
      BY RunAssumption
      DEF RunAssumption, ValidateInit, RunInv, RunTypes, UntouchedSafe, HotInv, MarkerInv,
          HotChannel, LeftSafe
  <1>2. RunInv => LeftSafe
      BY DEF RunInv, MarkerInv, LeftSafe
  <1>3. QED
      BY <1>1, <1>2, RunStep, PTL DEF ValidateSpec

-----------------------------------------------------------------------------
\* LogFile.

\* Read from the oldest file to the current one, the lines ascend.
Ordered(fs) ==
  \A p, q \in Positions : \A i \in DOMAIN fs[p], j \in DOMAIN fs[q] :
    (p > q \/ (p = q /\ i < j)) => fs[p][i] < fs[q][j]

\* The lines that some file has.
Held(fs) == UNION {Content(fs[p]) : p \in Positions}

\* Files in order that hold lines up to n.
WellFormed(fs, n) ==
  /\ fs \in [Positions -> Seq(Nat)]
  /\ \A p \in Positions : \A i \in DOMAIN fs[p] : fs[p][i] <= n
  /\ Ordered(fs)

\* The inductive invariant of LogFile.
LogInv ==
  /\ lines \in Nat /\ WellFormed(files, lines)
  /\ 1..lines \subseteq Held(files) \cup lost

\* LogInOrder in these terms.
LEMMA InOrderIs ==
  LogInOrder <=> Ordered(files) /\ 1..lines \subseteq Held(files) \cup lost
BY DEF LogInOrder, Ordered, Held, AllLines

\* The positions are 0, the current file, to MaxFiles, the oldest.
LEMMA PositionsAre ==
  /\ MaxFiles \in Nat \ {0}
  /\ \A p \in Positions : p \in Nat /\ p <= MaxFiles
  /\ 0 \in Positions /\ MaxFiles \in Positions
BY LogAssumption DEF Positions

\* What k renames of a rotation have done to the file at p: it is the gap they
\* leave, not reached yet, or its younger neighbour.
LEMMA ShiftedIs ==
  ASSUME NEW k \in 0..Full, NEW p \in Positions
  PROVE  /\ (k # 0 /\ p = (MaxFiles - k) + 1) => Shifted(k)[p] = <<>>
         /\ ~(k # 0 /\ p = (MaxFiles - k) + 1) =>
              /\ (k = 0 \/ p < (MaxFiles - k) + 1) => Shifted(k)[p] = files[p]
              /\ ~(k = 0 \/ p < (MaxFiles - k) + 1) =>
                    p - 1 \in Positions /\ Shifted(k)[p] = files[p - 1]
BY PositionsAre DEF Shifted, Full, Positions

\* An empty file has no lines.
LEMMA EmptyRow == DOMAIN <<>> = {} /\ <<>> \in Seq(Nat)
OBVIOUS

\* A rotation that ends after any number of its renames keeps the order: it
\* moves no file past another (rotateLocked).
LEMMA ShiftKeepsOrder ==
  ASSUME NEW n, WellFormed(files, n), NEW k \in 0..Full
  PROVE  WellFormed(Shifted(k), n)
<1> DEFINE src(p) == IF k = 0 \/ p < (MaxFiles - k) + 1 THEN p ELSE p - 1
<1>1. ASSUME NEW p \in Positions, NEW q \in Positions, p >= q
      PROVE  src(p) >= src(q)
  BY <1>1, PositionsAre DEF Full
<1>2. ASSUME NEW p \in Positions, NEW q \in Positions, p > q,
             ~(k # 0 /\ p = (MaxFiles - k) + 1), ~(k # 0 /\ q = (MaxFiles - k) + 1)
      PROVE  src(p) > src(q)
  BY <1>2, PositionsAre DEF Full
<1>3. ASSUME NEW p \in Positions, NEW i \in DOMAIN Shifted(k)[p]
      PROVE  /\ src(p) \in Positions /\ Shifted(k)[p] = files[src(p)]
             /\ ~(k # 0 /\ p = (MaxFiles - k) + 1)
  BY <1>3, ShiftedIs, EmptyRow
<1> HIDE DEF src
<1>4. Ordered(Shifted(k))
  <2> SUFFICES ASSUME NEW p \in Positions, NEW q \in Positions,
                      NEW i \in DOMAIN Shifted(k)[p], NEW j \in DOMAIN Shifted(k)[q],
                      p > q \/ (p = q /\ i < j)
               PROVE  Shifted(k)[p][i] < Shifted(k)[q][j]
    BY DEF Ordered
  <2>1. /\ src(p) \in Positions /\ Shifted(k)[p] = files[src(p)]
        /\ src(q) \in Positions /\ Shifted(k)[q] = files[src(q)]
    BY <1>3
  <2>2. src(p) > src(q) \/ (src(p) = src(q) /\ i < j)
    BY <1>2, <1>3
  <2> QED
    BY <2>1, <2>2 DEF WellFormed, Ordered
<1>5. ASSUME NEW p \in Positions, NEW i \in DOMAIN Shifted(k)[p]
      PROVE  Shifted(k)[p][i] <= n
  BY <1>3, <1>5 DEF WellFormed
<1>6. Shifted(k) \in [Positions -> Seq(Nat)]
  <2>1. ASSUME NEW p \in Positions PROVE Shifted(k)[p] \in Seq(Nat)
    BY ShiftedIs, EmptyRow DEF WellFormed
  <2>2. Shifted(k) = [p \in Positions |-> Shifted(k)[p]]
    BY DEF Shifted
  <2> QED
    BY <2>1, <2>2
<1> QED
  BY <1>4, <1>5, <1>6 DEF WellFormed

\* It loses at most the oldest file.
LEMMA ShiftLosesOldest ==
  ASSUME NEW k \in 0..Full
  PROVE  Held(files) \subseteq Held(Shifted(k)) \cup OldestLines(k)
<1>1. ASSUME NEW s \in Positions
      PROVE  \/ \E p \in Positions : Shifted(k)[p] = files[s]
             \/ k # 0 /\ s = MaxFiles
  <2>1. CASE k = 0 \/ s < (MaxFiles - k) + 1
    BY <2>1, ShiftedIs, PositionsAre DEF Full
  <2>2. CASE ~(k = 0 \/ s < (MaxFiles - k) + 1) /\ s # MaxFiles
    <3>1. s + 1 \in Positions /\ s + 1 > (MaxFiles - k) + 1 /\ (s + 1) - 1 = s
      BY <2>2, PositionsAre DEF Positions, Full
    <3>2. Shifted(k)[s + 1] = files[(s + 1) - 1]
      BY <2>2, <3>1, ShiftedIs, PositionsAre DEF Full
    <3> QED
      BY <3>1, <3>2
  <2> QED
    BY <2>1, <2>2
<1>2. ASSUME NEW l \in Held(files) PROVE l \in Held(Shifted(k)) \cup OldestLines(k)
  <2>1. PICK s \in Positions : l \in Content(files[s])
    BY DEF Held
  <2>2. CASE \E p \in Positions : Shifted(k)[p] = files[s]
    BY <2>1, <2>2 DEF Held
  <2>3. CASE k # 0 /\ s = MaxFiles
    BY <2>1, <2>3 DEF OldestLines
  <2> QED
    BY <1>1, <2>2, <2>3
<1> QED
  BY <1>2

\* A new line at the end of the current file keeps the order.
LEMMA AppendKeepsOrder ==
  ASSUME NEW fs, NEW n \in Nat, WellFormed(fs, n)
  PROVE  LET gs == [fs EXCEPT ![0] = Append(@, n + 1)]
         IN  /\ WellFormed(gs, n + 1)
             /\ Held(fs) \cup {n + 1} \subseteq Held(gs)
<1> DEFINE gs == [fs EXCEPT ![0] = Append(@, n + 1)]
           c == fs[0]
<1>1. c \in Seq(Nat) /\ 0 \in Positions /\ gs[0] = Append(c, n + 1)
  BY PositionsAre DEF WellFormed
<1>2. \A p \in Positions \ {0} : gs[p] = fs[p]
  BY DEF WellFormed
<1>3. /\ DOMAIN c = 1..Len(c) /\ Len(c) \in Nat
      /\ DOMAIN Append(c, n + 1) = 1..Len(c)+1
      /\ Append(c, n + 1)[Len(c) + 1] = n + 1
      /\ \A i \in DOMAIN c : Append(c, n + 1)[i] = c[i]
      /\ Append(c, n + 1) \in Seq(Nat)
  BY <1>1
<1>4. gs \in [Positions -> Seq(Nat)]
  BY <1>1, <1>3 DEF WellFormed
<1>5. ASSUME NEW p \in Positions, NEW i \in DOMAIN gs[p]
      PROVE  \/ p = 0 /\ i = Len(c) + 1 /\ gs[p][i] = n + 1
             \/ i \in DOMAIN fs[p] /\ gs[p][i] = fs[p][i]
  BY <1>1, <1>2, <1>3, <1>5
<1>6. \A p \in Positions : \A i \in DOMAIN fs[p] : fs[p][i] \in Nat /\ fs[p][i] <= n
          /\ i \in Nat
  BY DEF WellFormed
<1>7. \A i \in DOMAIN c : i <= Len(c)
  BY <1>3
<1> HIDE DEF gs
<1>8. \A p \in Positions : \A i \in DOMAIN gs[p] : gs[p][i] <= n + 1
  BY <1>5, <1>6
<1>9. Ordered(gs)
  <2> SUFFICES ASSUME NEW p \in Positions, NEW q \in Positions,
                      NEW i \in DOMAIN gs[p], NEW j \in DOMAIN gs[q],
                      p > q \/ (p = q /\ i < j)
               PROVE  gs[p][i] < gs[q][j]
    BY DEF Ordered
  <2>1. CASE p = 0 /\ i = Len(c) + 1
    <3>0. q \in Nat
      BY PositionsAre
    <3>1. q = 0 /\ i < j
      BY <2>1, <3>0
    <3>2. j \in 1..Len(c)+1
      BY <3>1, <1>1, <1>3
    <3> QED
      BY <2>1, <3>1, <3>2, <1>3
  <2>2. CASE i \in DOMAIN fs[p] /\ gs[p][i] = fs[p][i] /\ q = 0 /\ gs[q][j] = n + 1
    <3>1. fs[p][i] \in Nat /\ fs[p][i] <= n
      BY <2>2, <1>6
    <3> QED
      BY <2>2, <3>1
  <2>3. CASE i \in DOMAIN fs[p] /\ gs[p][i] = fs[p][i] /\ j \in DOMAIN fs[q]
            /\ gs[q][j] = fs[q][j]
    BY <2>3 DEF WellFormed, Ordered
  <2> QED
    BY <1>5, <2>1, <2>2, <2>3
<1>10. ASSUME NEW l \in Held(fs) PROVE l \in Held(gs)
  <2>1. PICK p \in Positions : l \in Content(fs[p])
    BY DEF Held
  <2>2. PICK i \in DOMAIN fs[p] : l = fs[p][i]
    BY <2>1 DEF Content
  <2>3. i \in DOMAIN gs[p] /\ gs[p][i] = l
    <3>1. CASE p = 0
      <4>1. i \in DOMAIN c /\ l = c[i]
        BY <2>2, <3>1
      <4>2. i \in DOMAIN Append(c, n + 1) /\ Append(c, n + 1)[i] = l
        BY <1>3, <4>1
      <4> QED
        BY <1>1, <3>1, <4>2
    <3>2. CASE p # 0
      BY <1>2, <2>2, <3>2
    <3> QED
      BY <3>1, <3>2
  <2> QED
    <3>1. l \in Content(gs[p])
      BY <2>3 DEF Content
    <3> QED
      BY <3>1 DEF Held
<1>11. n + 1 \in Held(gs)
  <2>1. Len(c) + 1 \in DOMAIN gs[0] /\ gs[0][Len(c) + 1] = n + 1
    BY <1>1, <1>3
  <2> QED
    BY <1>1, <2>1 DEF Held, Content
<1>12. WellFormed(gs, n + 1) /\ Held(fs) \cup {n + 1} \subseteq Held(gs)
  BY <1>4, <1>8, <1>9, <1>10, <1>11 DEF WellFormed
<1> QED
  BY <1>12 DEF gs

\* A line is appended to files fs that hold all but the lines in gone.
LEMMA Append1Keeps ==
  ASSUME LogInv, NEW fs, WellFormed(fs, lines), NEW gone, NEW d,
         Held(files) \subseteq Held(fs) \cup gone,
         lines' = lines + 1, Append1(fs, d, lines', gone)
  PROVE  LogInv'
<1>1. lines \in Nat /\ lines' \in Nat /\ 1..lines' = 1..lines \cup {lines'}
  BY DEF LogInv
<1>2. 1..lines \subseteq Held(files) \cup lost
  BY DEF LogInv
<1>3. CASE d = "open"
  <2>1. files' = [fs EXCEPT ![0] = Append(@, lines + 1)] /\ lost' = lost \cup gone
    BY <1>3 DEF Append1
  <2>2. WellFormed(files', lines + 1) /\ Held(fs) \cup {lines + 1} \subseteq Held(files')
    BY <1>1, <2>1, AppendKeepsOrder
  <2>3. 1..lines' \subseteq Held(files') \cup lost'
    BY <1>1, <1>2, <2>1, <2>2
  <2> QED
    BY <1>1, <2>2, <2>3 DEF LogInv, Held
<1>4. CASE d # "open"
  <2>1. files' = fs /\ lost' = lost \cup gone \cup {lines'}
    BY <1>4 DEF Append1
  <2>2. WellFormed(files', lines')
    BY <1>1, <2>1 DEF WellFormed
  <2>3. 1..lines' \subseteq Held(files') \cup lost'
    BY <1>1, <1>2, <2>1
  <2> QED
    BY <1>1, <2>2, <2>3 DEF LogInv, Held
<1> QED
  BY <1>3, <1>4

\* Write: with a rotation or without, whole, failed or refused.
LEMMA WriteKeeps ==
  ASSUME LogInv, Write
  PROVE  LogInv'
<1>1. lines \in Nat /\ lines' = lines + 1 /\ WellFormed(files, lines)
  BY DEF Write, LogInv
<1>2. 1..lines' = 1..lines \cup {lines'} /\ lines' \in Nat
  BY <1>1
<1>3. ASSUME NEW d, Append1(files, d, lines', {}) PROVE LogInv'
  BY <1>1, <1>3, Append1Keeps
<1>4. ASSUME NEW k \in 0..Full, Append1(Shifted(k), "open", lines', OldestLines(k))
      PROVE  LogInv'
  BY <1>1, <1>4, ShiftKeepsOrder, ShiftLosesOldest, Append1Keeps
<1>5. ASSUME NEW k \in 0..Full, files' = Shifted(k),
             lost' = lost \cup OldestLines(k) \cup {lines'}
      PROVE  LogInv'
  <2>1. WellFormed(files', lines) /\ Held(files) \subseteq Held(files') \cup OldestLines(k)
    BY <1>1, <1>5, ShiftKeepsOrder, ShiftLosesOldest
  <2>2. WellFormed(files', lines')
    BY <1>1, <2>1 DEF WellFormed
  <2>3. 1..lines' \subseteq Held(files') \cup lost'
    BY <1>2, <1>5, <2>1 DEF LogInv
  <2> QED
    BY <1>2, <2>2, <2>3 DEF LogInv, Held
<1>6. ASSUME files' = files, lost' = lost \cup {lines'} PROVE LogInv'
  <2>1. WellFormed(files', lines')
    BY <1>1, <1>6 DEF WellFormed
  <2>2. 1..lines' \subseteq Held(files') \cup lost'
    BY <1>2, <1>6 DEF LogInv
  <2> QED
    BY <1>2, <2>1, <2>2 DEF LogInv, Held
<1> QED
  BY <1>3, <1>4, <1>5, <1>6 DEF Write

\* Clear: whatever it removes is counted as lost.
LEMMA ClearKeeps ==
  ASSUME LogInv, Clear
  PROVE  LogInv'
<1>1. /\ lines' = lines /\ lines \in Nat /\ WellFormed(files, lines)
      /\ files' = [files EXCEPT ![0] = IF desc = "ghost" THEN @ ELSE <<>>]
      /\ lost' = lost \cup (Content(files[0]) \ Content(files'[0]))
  BY DEF Clear, LogInv
<1>2. \A p \in Positions : files'[p] = files[p] \/ (p = 0 /\ files'[p] = <<>>)
  BY <1>1 DEF WellFormed
<1>3. files' \in [Positions -> Seq(Nat)]
  BY <1>1, EmptyRow DEF WellFormed
<1>4. \A p \in Positions : \A i \in DOMAIN files'[p] : files'[p] = files[p]
  BY <1>2, EmptyRow
<1>5. WellFormed(files', lines')
  BY <1>1, <1>3, <1>4 DEF WellFormed, Ordered
<1>6. ASSUME NEW l \in Held(files) PROVE l \in Held(files') \cup lost'
  <2>1. PICK p \in Positions : l \in Content(files[p])
    BY DEF Held
  <2>2. CASE files'[p] = files[p]
    BY <2>1, <2>2 DEF Held
  <2>3. CASE p = 0 /\ files'[p] = <<>>
    <3>1. Content(files'[0]) = {}
      BY <2>3, EmptyRow DEF Content
    <3> QED
      BY <1>1, <2>1, <2>3, <3>1
  <2> QED
    BY <1>2, <2>2, <2>3
<1>7. 1..lines' \subseteq Held(files') \cup lost'
  BY <1>1, <1>6 DEF LogInv
<1> QED
  BY <1>1, <1>5, <1>7 DEF LogInv, Held

\* Every step keeps the invariant, a crash between two renames included.
LEMMA LogStep ==
  ASSUME LogInv, [LogNext]_logVars
  PROVE  LogInv'
<1>1. CASE RemoveDir
  <2>1. /\ lines' = lines /\ files' = [p \in Positions |-> <<>>]
        /\ lost' = lost \cup Held(files)
    BY <1>1 DEF RemoveDir, AllLines, Held
  <2>2. WellFormed(files', lines')
    BY <2>1, EmptyRow DEF WellFormed, Ordered
  <2>3. 1..lines' \subseteq Held(files') \cup lost'
    BY <2>1 DEF LogInv
  <2> QED
    BY <2>1, <2>2, <2>3 DEF LogInv, Held
<1>2. CASE LogCrash
  <2>1. PICK k \in 0..Full : files' = Shifted(k) /\ lost' = lost \cup OldestLines(k)
    BY <1>2 DEF LogCrash
  <2>2. lines' = lines /\ WellFormed(files, lines)
    BY <1>2 DEF LogCrash, LogInv
  <2>3. WellFormed(files', lines') /\ Held(files) \subseteq Held(files') \cup OldestLines(k)
    BY <2>1, <2>2, ShiftKeepsOrder, ShiftLosesOldest
  <2>4. 1..lines' \subseteq Held(files') \cup lost'
    BY <2>1, <2>2, <2>3 DEF LogInv
  <2> QED
    BY <2>2, <2>3, <2>4 DEF LogInv, Held
<1>3. CASE UNCHANGED logVars \/ CloseLog
  BY <1>3 DEF logVars, CloseLog, LogInv, WellFormed, Ordered, Held
<1> QED
  BY <1>1, <1>2, <1>3, WriteKeeps, ClearKeeps DEF LogNext

\* LogInOrder: for every number of files and lines, a rotation that fails
\* half-way or is cut short loses, doubles and reorders nothing (logfile.Writer).
THEOREM LogInOrderHolds == LogSpec => []LogInOrder
<1>1. LogInit => LogInv
  <2> SUFFICES ASSUME LogInit PROVE LogInv
    OBVIOUS
  <2>1. WellFormed(files, lines) /\ lines = 0
    BY EmptyRow DEF LogInit, WellFormed, Ordered
  <2>2. 1..lines = {}
    BY <2>1
  <2> QED
    BY <2>1, <2>2 DEF LogInv
<1>2. LogInv /\ [LogNext]_logVars => LogInv'
  BY LogStep
<1>3. LogInv => LogInOrder
  BY InOrderIs DEF LogInv, WellFormed
<1> QED
  BY <1>1, <1>2, <1>3, PTL DEF LogSpec

-----------------------------------------------------------------------------
\* Verdicts.

\* The records: the samples of a sub-run stand at their slots of the grid; a
\* channel has results once no sub-run is looked at.
SlotSamples == [t : Nat, dcr : [Registers -> DcrValues \cup {NoValue}], input : InputValues]
VerdictInv ==
  /\ sub \in [auto : Autos, timed : BOOLEAN, ref : InputValues \cup {NoValue},
              samples : Seq(SlotSamples)]
  /\ \A i \in DOMAIN sub.samples : sub.samples[i].t = i
  /\ sub # NoSub => results = <<>>
  /\ results \in Seq(Seq(SubResults))
  /\ mapping \in [tach : BOOLEAN, noisy : BOOLEAN, ref : InputValues \cup {NoValue}, samples : Seq(MapSamples)]

\* One sample more: those before it stay where they are.
Longer(s, u) ==
  /\ Len(s) \in Nat /\ DOMAIN s = 1..Len(s) /\ DOMAIN u = 1..(Len(s) + 1)
  /\ \A i \in 1..Len(s) : u[i] = s[i]

\* h and g are one sub-run before and after a sample.
Extended(h, g) ==
  /\ g.auto = h.auto /\ g.timed = h.timed /\ g.ref = h.ref
  /\ Longer(h.samples, g.samples)
  /\ \A i \in DOMAIN g.samples : g.samples[i].t = i

\* The first known value stays the first one, so a crossing stays one.
LEMMA CrossingStays ==
  ASSUME NEW s, NEW u, Longer(s, u), NEW ref,
         Crossing(ref, [i \in DOMAIN s |-> s[i].input])
  PROVE  Crossing(ref, [i \in DOMAIN u |-> u[i].input])
<1> DEFINE v == [i \in DOMAIN s |-> s[i].input]
           w == [i \in DOMAIN u |-> u[i].input]
           n == Len(s)
           Beyond(r, x) == IF r >= TableStep THEN x <= TableStep - CrossMargin
                           ELSE x >= TableStep + CrossMargin
<1>1. /\ n \in Nat /\ DOMAIN v = 1..n /\ DOMAIN w = 1..(n + 1)
      /\ \A i \in 1..n : w[i] = v[i] /\ i \in 1..(n + 1)
  BY DEF Longer
<1>2. PICK f \in DOMAIN v, i \in DOMAIN v :
        /\ v[f] # NoValue /\ v[i] # NoValue
        /\ \A j \in DOMAIN v : v[j] # NoValue => f <= j
        /\ Beyond(IF ref # NoValue THEN ref ELSE v[f], v[i])
  BY DEF Crossing
<1> HIDE DEF v, w, n
<1>3. /\ f \in DOMAIN w /\ i \in DOMAIN w /\ w[f] = v[f] /\ w[i] = v[i]
  BY <1>1, <1>2
<1>4. \A j \in DOMAIN w : w[j] # NoValue => f <= j
  <2> SUFFICES ASSUME NEW j \in DOMAIN w, w[j] # NoValue PROVE f <= j
    OBVIOUS
  <2>1. CASE j \in 1..n
    BY <2>1, <1>1, <1>2
  <2>2. CASE j = n + 1
    BY <2>2, <1>1, <1>2
  <2> QED
    BY <2>1, <2>2, <1>1
<1>5. Crossing(ref, w)
  BY <1>2, <1>3, <1>4 DEF Crossing
<1> QED
  BY <1>5 DEF w

\* The readable samples: those before, and perhaps the new one, which is the latest.
LEMMA SampledIs ==
  ASSUME NEW h, NEW g, Extended(h, g), NEW reg
  PROVE  LET n == Len(h.samples)
         IN  /\ n \in Nat
             /\ Samples(h, reg) \subseteq 1..n
             /\ Samples(g, reg) \subseteq 1..(n + 1)
             /\ \A i \in 1..n : /\ i \in Samples(g, reg) <=> i \in Samples(h, reg)
                                /\ g.samples[i] = h.samples[i]
                                /\ h.samples[i].t = i
             /\ \A i \in 1..(n + 1) : g.samples[i].t = i
             /\ InputCrossed(h) => InputCrossed(g)
             /\ TooClose(h, reg) <=> TooClose(g, reg)
<1> DEFINE n == Len(h.samples)
<1>1. /\ n \in Nat /\ DOMAIN h.samples = 1..n /\ DOMAIN g.samples = 1..(n + 1)
      /\ \A i \in 1..n : g.samples[i] = h.samples[i]
      /\ \A i \in 1..(n + 1) : g.samples[i].t = i
  BY DEF Extended, Longer
<1> HIDE DEF n
<1>2. \A i \in 1..n : i \in 1..(n + 1)
  BY <1>1
<1>3. \A i \in 1..n : h.samples[i].t = i
  BY <1>1, <1>2
<1>4. Samples(h, reg) \subseteq 1..n /\ Samples(g, reg) \subseteq 1..(n + 1)
      /\ \A i \in 1..n : i \in Samples(g, reg) <=> i \in Samples(h, reg)
  BY <1>1, <1>2 DEF Samples
<1>5. InputCrossed(h) => InputCrossed(g)
  BY CrossingStays DEF Extended, InputCrossed
<1>6. TooClose(h, reg) <=> TooClose(g, reg)
  BY DEF Extended, TooClose
<1> QED
  BY <1>1, <1>3, <1>4, <1>5, <1>6 DEF n

\* T2: a PASS stays one until the table input crosses; no FAIL becomes a PASS.
LEMMA T2Stays ==
  ASSUME NEW h, NEW g, Extended(h, g), NEW reg
  PROVE  /\ EvalT2(h, reg) = Passed /\ ~InputCrossed(g) => EvalT2(g, reg) = Passed
         /\ ~(EvalT2(h, reg) = Failed /\ EvalT2(g, reg) = Passed)
<1> DEFINE n == Len(h.samples)
           H == Samples(h, reg)
           G == Samples(g, reg)
<1>1. /\ n \in Nat /\ H \subseteq 1..n /\ G \subseteq 1..(n + 1)
      /\ \A i \in 1..n : /\ i \in G <=> i \in H
                         /\ g.samples[i] = h.samples[i] /\ h.samples[i].t = i
      /\ \A i \in 1..(n + 1) : g.samples[i].t = i
      /\ TooClose(h, reg) <=> TooClose(g, reg)
  BY SampledIs
<1>2. g.timed = h.timed
  BY DEF Extended
<1>3. Passed # Failed /\ Passed # Inconclusive /\ Failed # Inconclusive
  BY DEF Passed, Failed, Inconclusive
<1>4. \A i \in 1..n : Deviation(g, reg, i) = Deviation(h, reg, i)
  BY <1>1 DEF Deviation
<1> HIDE DEF n
\* What left first stays what left first, and the new sample can only be the last.
<1>5. \A i \in 1..n : i \in LeftAt(g, reg) <=> i \in LeftAt(h, reg)
  <2> SUFFICES ASSUME NEW i \in 1..n
               PROVE  i \in LeftAt(g, reg) <=> i \in LeftAt(h, reg)
    OBVIOUS
  <2>1. \A j : j \in G /\ j < i <=> j \in H /\ j < i
    <3> SUFFICES ASSUME NEW j, j < i PROVE j \in G <=> j \in H
      OBVIOUS
    <3>1. \A k \in 1..(n + 1) : k < i => k \in 1..n
      BY <1>1
    <3> QED
      BY <3>1, <1>1
  <2>2. \A j : j \in H => j \in 1..n
    BY <1>1
  <2> QED
    BY <2>1, <2>2, <1>1, <1>4 DEF LeftAt
<1>6. ASSUME EvalT2(h, reg) = Passed, ~InputCrossed(g) PROVE EvalT2(g, reg) = Passed
  <2>1. /\ H # {} /\ h.timed /\ ~TooClose(h, reg)
        /\ \E i \in LeftAt(h, reg) : h.samples[i].t <= LeaveWithin
    BY <1>3, <1>6 DEF EvalT2
  <2>2. PICK i \in LeftAt(h, reg) : h.samples[i].t <= LeaveWithin
    BY <2>1
  <2>3. i \in 1..n
    BY <1>1 DEF LeftAt
  <2>4. i \in LeftAt(g, reg) /\ g.samples[i].t <= LeaveWithin
    BY <2>2, <2>3, <1>1, <1>5
  <2>5. G # {}
    BY <2>4 DEF LeftAt
  <2> QED
    BY <2>1, <2>4, <2>5, <1>1, <1>2, <1>6 DEF EvalT2
<1>7. ASSUME EvalT2(h, reg) = Failed, EvalT2(g, reg) = Passed PROVE FALSE
  <2>1. /\ ~\E i \in LeftAt(h, reg) : h.samples[i].t <= LeaveWithin
        /\ Reaches(h, reg, Observe + SettleHold)
    BY <1>3, <1>7 DEF EvalT2
  <2>2. PICK i \in LeftAt(g, reg) : g.samples[i].t <= LeaveWithin
    BY <1>3, <1>7 DEF EvalT2
  <2>3. i \in 1..(n + 1)
    BY <1>1 DEF LeftAt
  <2>4. PICK j \in H : h.samples[j].t >= Observe + SettleHold
    BY <2>1 DEF Reaches
  <2>5. j \in 1..n /\ j >= Observe + SettleHold
    BY <2>4, <1>1
  <2>6. i <= LeaveWithin
    BY <2>2, <2>3, <1>1
  <2>7. i \in 1..n
    BY <2>3, <2>5, <2>6, <1>1, CountsAssumption
  <2> QED
    BY <2>1, <2>2, <2>7, <1>1, <1>5
<1> QED
  BY <1>6, <1>7

\* T3: windows that were complete stay as they were, an earlier one cannot become
\* steady later.
LEMMA SteadyStays ==
  ASSUME NEW h, NEW g, Extended(h, g), NEW reg, NEW i \in 1..Len(h.samples),
         Reaches(h, reg, i + SettleHold)
  PROVE  i \in Steady(g, reg) <=> i \in Steady(h, reg)
<1> DEFINE n == Len(h.samples)
           H == Samples(h, reg)
           G == Samples(g, reg)
<1>1. /\ n \in Nat /\ H \subseteq 1..n /\ G \subseteq 1..(n + 1)
      /\ \A k \in 1..n : /\ k \in G <=> k \in H
                         /\ g.samples[k] = h.samples[k] /\ h.samples[k].t = k
      /\ \A k \in 1..(n + 1) : g.samples[k].t = k
  BY SampledIs
<1> HIDE DEF n
<1>2. i \in 1..n /\ n + 1 \in 1..(n + 1)
  BY <1>1 DEF n
<1>3. PICK l \in H : h.samples[l].t >= i + SettleHold
  BY DEF Reaches
<1>4. l \in 1..n /\ l >= i + SettleHold
  BY <1>1, <1>3
<1>5. Reaches(g, reg, i + SettleHold)
  BY <1>1, <1>3, <1>4 DEF Reaches
<1>6. ~(n + 1 <= i + SettleHold)
  BY <1>1, <1>2, <1>4, CountsAssumption
<1>7. h.samples[i].t = i /\ g.samples[i].t = i /\ g.samples[i] = h.samples[i]
  BY <1>1, <1>2
<1>8. ASSUME NEW j
      PROVE  (j \in G /\ j >= i /\ g.samples[j].t <= i + SettleHold)
             <=> (j \in H /\ j >= i /\ h.samples[j].t <= i + SettleHold)
  <2>1. CASE j \in 1..n
    BY <2>1, <1>1
  <2>2. CASE j = n + 1
    <3>1. g.samples[j].t = n + 1 /\ ~(j \in 1..n)
      BY <2>2, <1>1, <1>2
    <3> QED
      BY <3>1, <1>1, <1>6
  <2>3. CASE ~(j \in 1..(n + 1))
    <3>1. ~(j \in 1..n)
      BY <2>3, <1>1
    <3> QED
      BY <3>1, <2>3, <1>1
  <2>4. j \in 1..(n + 1) => j \in 1..n \/ j = n + 1
    BY <1>1
  <2> QED
    BY <2>1, <2>2, <2>3, <2>4
<1>9. \A j : j \in H => g.samples[j] = h.samples[j]
  BY <1>1
<1>10. i \in G <=> i \in H
  BY <1>1, <1>2
<1>11. i \in Steady(g, reg) <=>
         /\ i \in G
         /\ \A j : (j \in G /\ j >= i /\ g.samples[j].t <= i + SettleHold) =>
              Gap(g.samples[j].dcr[reg], g.samples[i].dcr[reg]) <= SettleBand
  BY <1>5, <1>7 DEF Steady
<1>12. i \in Steady(h, reg) <=>
         /\ i \in H
         /\ \A j : (j \in H /\ j >= i /\ h.samples[j].t <= i + SettleHold) =>
              Gap(h.samples[j].dcr[reg], h.samples[i].dcr[reg]) <= SettleBand
  BY <1>7 DEF Steady
<1> QED
  BY <1>7, <1>8, <1>9, <1>10, <1>11, <1>12

\* T3: what is decided stays decided until the table input crosses.
LEMMA T3Stays ==
  ASSUME NEW h, NEW g, Extended(h, g), NEW reg, EvalT3(h, reg) # Inconclusive, ~InputCrossed(g)
  PROVE  EvalT3(g, reg) = EvalT3(h, reg)
<1> DEFINE n == Len(h.samples)
           H == Samples(h, reg)
           G == Samples(g, reg)
<1>1. /\ n \in Nat /\ H \subseteq 1..n /\ G \subseteq 1..(n + 1)
      /\ \A k \in 1..n : /\ k \in G <=> k \in H
                         /\ g.samples[k] = h.samples[k] /\ h.samples[k].t = k
      /\ \A k \in 1..(n + 1) : g.samples[k].t = k
  BY SampledIs
<1>2. g.timed = h.timed
  BY DEF Extended
<1>3. Passed # Failed /\ Passed # Inconclusive /\ Failed # Inconclusive
  BY DEF Passed, Failed, Inconclusive
<1>4. H # {} /\ h.timed /\ ~InputCrossed(h)
  BY DEF EvalT3
<1>5. G # {}
  BY <1>1, <1>4
<1>6. \A i \in Steady(h, reg) : i \in 1..n /\ Reaches(h, reg, i + SettleHold)
  BY <1>1 DEF Steady
<1>7. ASSUME NEW i \in 1..n, Reaches(h, reg, i + SettleHold)
      PROVE  i \in Steady(g, reg) <=> i \in Steady(h, reg)
  BY <1>7, SteadyStays
<1> HIDE DEF n
<1>8. \A i \in Steady(g, reg) : i \in 1..(n + 1)
  BY <1>1 DEF Steady
\* An earlier start than a steady one was seen to its end as well.
<1>9. ASSUME NEW i \in Steady(h, reg), NEW k \in 1..n, k <= i
      PROVE  Reaches(h, reg, k + SettleHold)
  <2>1. PICK l \in H : h.samples[l].t >= i + SettleHold
    BY <1>6 DEF Reaches
  <2>2. h.samples[l].t = l /\ l \in 1..n
    BY <1>1
  <2>3. h.samples[l].t >= k + SettleHold
    BY <2>1, <2>2, <1>1, <1>6, <1>9, CountsAssumption
  <2> QED
    BY <2>3 DEF Reaches
<1>10. \A i \in Steady(h, reg) : i \in Steady(g, reg)
  BY <1>6, <1>7
<1>11. ASSUME NEW i \in Steady(h, reg), NEW k \in Steady(g, reg), k <= i
       PROVE  k \in Steady(h, reg)
  <2>1. k \in 1..n
    BY <1>1, <1>6, <1>8, <1>11
  <2> QED
    BY <2>1, <1>7, <1>9, <1>11
<1>12. ASSUME NEW i \in SettledAt(h, reg) PROVE i \in SettledAt(g, reg)
  <2>1. i \in Steady(h, reg) /\ \A j \in Steady(h, reg) : i <= j
    BY DEF SettledAt
  <2>2. ASSUME NEW j \in Steady(g, reg) PROVE i <= j
    <3>1. CASE j <= i
      BY <3>1, <2>1, <1>11
    <3> QED
      BY <3>1, <2>1, <1>1, <1>6, <1>8
  <2> QED
    BY <2>1, <2>2, <1>10 DEF SettledAt
<1>13. ASSUME NEW i \in SettledAt(g, reg), Steady(h, reg) # {} PROVE i \in SettledAt(h, reg)
  <2>1. PICK s \in Steady(h, reg) : TRUE
    BY <1>13
  <2>2. i \in Steady(g, reg) /\ \A j \in Steady(g, reg) : i <= j
    BY DEF SettledAt
  <2>3. i \in Steady(h, reg)
    BY <2>1, <2>2, <1>10, <1>11
  <2> QED
    BY <2>2, <2>3, <1>10 DEF SettledAt
<1>14. CASE \E i \in SettledAt(h, reg) : h.samples[i].t <= Observe
  <2>1. PICK i \in SettledAt(h, reg) : h.samples[i].t <= Observe
    BY <1>14
  <2>2. i \in SettledAt(g, reg) /\ g.samples[i].t <= Observe
    BY <2>1, <1>1, <1>6, <1>12 DEF SettledAt
  <2> QED
    BY <2>2, <1>2, <1>4, <1>5, <1>14 DEF EvalT3
<1>15. CASE ~\E i \in SettledAt(h, reg) : h.samples[i].t <= Observe
  <2>1. EvalT3(h, reg) = Failed /\ (Steady(h, reg) # {} \/ Reaches(h, reg, Observe + SettleHold))
    BY <1>15 DEF EvalT3
  <2>2. Steady(g, reg) # {} \/ Reaches(g, reg, Observe + SettleHold)
    <3>1. CASE Steady(h, reg) # {}
      BY <3>1, <1>10
    <3>2. CASE Reaches(h, reg, Observe + SettleHold)
      BY <3>2, <1>1 DEF Reaches
    <3> QED
      BY <3>1, <3>2, <2>1
  <2>3. ASSUME NEW i \in SettledAt(g, reg), g.samples[i].t <= Observe PROVE FALSE
    <3>1. i \in Steady(g, reg) /\ i \in 1..(n + 1) /\ i <= Observe
      BY <2>3, <1>1, <1>8 DEF SettledAt
    <3>2. CASE Steady(h, reg) # {}
      <4>1. i \in SettledAt(h, reg) /\ i \in 1..n
        BY <3>2, <1>6, <1>13 DEF SettledAt
      <4> QED
        BY <4>1, <2>3, <1>1, <1>15
    <3>3. CASE Reaches(h, reg, Observe + SettleHold)
      <4>1. PICK l \in H : h.samples[l].t >= Observe + SettleHold
        BY <3>3 DEF Reaches
      <4>2. h.samples[l].t = l /\ l \in 1..n
        BY <1>1
      <4>3. i \in 1..n /\ h.samples[l].t >= i + SettleHold
        BY <4>1, <4>2, <3>1, <1>1, CountsAssumption
      <4>4. i \in Steady(h, reg)
        BY <4>3, <3>1, <1>7 DEF Reaches
      <4> QED
        BY <4>4, <3>2
    <3> QED
      BY <3>2, <3>3, <2>1
  <2> QED
    BY <2>1, <2>2, <2>3, <1>2, <1>4, <1>5 DEF EvalT3
<1> QED
  BY <1>14, <1>15

\* A slot makes the sub-run one sample longer.
LEMMA SlotIs ==
  ASSUME VerdictInv, NEW dcr \in [Registers -> DcrValues \cup {NoValue}], NEW input \in InputValues,
         ObserveSlot(dcr, input)
  PROVE  /\ Extended(sub, sub')
         /\ sub' \in [auto : Autos, timed : BOOLEAN, ref : InputValues \cup {NoValue},
                      samples : Seq(SlotSamples)]
<1> DEFINE n == Len(sub.samples)
           x == [t |-> n + 1, dcr |-> dcr, input |-> input]
           s == sub.samples
           u == Append(sub.samples, x)
<1>1. s \in Seq(SlotSamples) /\ n \in Nat /\ DOMAIN s = 1..n
  BY DEF VerdictInv
<1>2. x \in SlotSamples /\ x.t = n + 1
  BY <1>1 DEF SlotSamples
<1>3. sub' = [sub EXCEPT !.samples = u]
  BY DEF ObserveSlot
<1> HIDE DEF x
<1>4. /\ u \in Seq(SlotSamples) /\ DOMAIN u = 1..(n + 1) /\ u[n + 1] = x
      /\ \A i \in 1..n : u[i] = s[i]
  BY <1>1, <1>2
<1> HIDE DEF n, u
<1>5. /\ sub'.auto = sub.auto /\ sub'.timed = sub.timed /\ sub'.ref = sub.ref /\ sub'.samples = u
      /\ sub' \in [auto : Autos, timed : BOOLEAN, ref : InputValues \cup {NoValue},
                   samples : Seq(SlotSamples)]
  BY <1>3, <1>4 DEF VerdictInv
<1>6. \A i \in 1..n : s[i].t = i
  BY <1>1 DEF VerdictInv
<1>7. \A i \in 1..(n + 1) : u[i].t = i
  <2>1. \A i \in 1..(n + 1) : i \in 1..n \/ i = n + 1
    BY <1>1
  <2> QED
    BY <2>1, <1>2, <1>4, <1>6
<1>8. Longer(s, u)
  BY <1>1, <1>4 DEF Longer, n
<1> QED
  BY <1>4, <1>5, <1>7, <1>8 DEF Extended

\* A verdict is one of three.
LEMMA CombineIs ==
  ASSUME NEW vs
  PROVE  /\ Combine(vs) \in ThreeVerdicts
         /\ Combine(vs) = Passed => vs = {Passed}
         /\ Combine(vs) = Failed => vs = {Failed}
BY DEF Combine, ThreeVerdicts, Passed, Failed, Inconclusive

\* An empty record.
LEMMA VerdictInitStep == VerdictInit => VerdictInv
<1> SUFFICES ASSUME VerdictInit PROVE VerdictInv
  OBVIOUS
<1>1. <<>> \in Seq(SlotSamples) /\ <<>> \in Seq(MapSamples) /\ <<>> \in Seq(Seq(SubResults))
      /\ DOMAIN <<>> = {}
  OBVIOUS
<1>2. NoSub.samples = <<>> /\ NoMapping.samples = <<>>
  BY DEF NoSub, NoMapping
<1>3. results = <<>> /\ sub.samples = <<>>
  BY <1>2 DEF VerdictInit
<1>4. sub \in [auto : Autos, timed : BOOLEAN, ref : InputValues \cup {NoValue},
               samples : Seq(SlotSamples)]
  <2>1. CASE sub \in [auto : Autos, timed : BOOLEAN, ref : InputValues, samples : {<<>>}]
    BY <2>1, <1>1
  <2>2. CASE sub = NoSub
    BY <2>2, <1>1 DEF NoSub, Autos
  <2> QED
    BY <2>1, <2>2 DEF VerdictInit
<1>5. mapping \in [tach : BOOLEAN, noisy : BOOLEAN, ref : InputValues \cup {NoValue}, samples : Seq(MapSamples)]
  <2>1. CASE mapping \in [tach : BOOLEAN, noisy : BOOLEAN, ref : InputValues, samples : {<<>>}]
    BY <2>1, <1>1
  <2>2. CASE mapping = NoMapping
    BY <2>2, <1>1 DEF NoMapping
  <2> QED
    BY <2>1, <2>2 DEF VerdictInit
<1> QED
  BY <1>1, <1>3, <1>4, <1>5 DEF VerdictInv

\* The results stay sequences of sub-runs.
LEMMA FurtherIs ==
  ASSUME VerdictInv, NEW r \in SubResults, FurtherSub(r)
  PROVE  LET n == Len(results)
         IN  /\ n \in Nat \ {0} /\ results' \in Seq(Seq(SubResults))
             /\ r.label = "H" => Len(results') = n + 1 /\ results'[n + 1] = <<r>>
             /\ r.label = "M" => Len(results[n]) = 1
<1> DEFINE n == Len(results)
<1>1. results \in Seq(Seq(SubResults)) /\ results # <<>> /\ n \in Nat \ {0} /\ n \in DOMAIN results
      /\ DOMAIN results = 1..n
  BY DEF VerdictInv, FurtherSub
<1>2. r.label = "H" \/ r.label = "M"
  BY DEF SubResults
<1>3. CASE r.label = "H"
  <2> DEFINE q == <<r>>
  <2>1. q \in Seq(SubResults)
    OBVIOUS
  <2>2. results' = Append(results, q)
    BY <1>3 DEF FurtherSub
  <2> HIDE DEF q
  <2>3. results' \in Seq(Seq(SubResults)) /\ Len(results') = n + 1 /\ results'[n + 1] = q
    BY <2>1, <2>2, <1>1
  <2> QED
    BY <2>3, <1>1, <1>3 DEF q
<1>4. CASE r.label = "M"
  <2> DEFINE q == Append(results[n], r)
  <2>1. results[n] \in Seq(SubResults)
    BY <1>1
  <2>2. q \in Seq(SubResults)
    BY <2>1
  <2>3. results' = [results EXCEPT ![n] = q] /\ Len(results[n]) = 1
    BY <1>4 DEF FurtherSub
  <2> HIDE DEF q
  <2>4. results' \in Seq(Seq(SubResults))
    BY <2>2, <2>3, <1>1
  <2> QED
    BY <2>3, <2>4, <1>1, <1>4
<1> QED
  BY <1>2, <1>3, <1>4

\* VerdictInv is inductive.
LEMMA VerdictInvInductive == VerdictInv /\ [VerdictNext]_verdictVars => VerdictInv'
<1> SUFFICES ASSUME VerdictInv, [VerdictNext]_verdictVars PROVE VerdictInv'
  OBVIOUS
<1>1. CASE \E dcr \in [Registers -> DcrValues \cup {NoValue}] :
             \E input \in InputValues : ObserveSlot(dcr, input)
  <2>1. PICK dcr \in [Registers -> DcrValues \cup {NoValue}], input \in InputValues :
          ObserveSlot(dcr, input)
    BY <1>1
  <2>2. sub # NoSub /\ results' = results /\ mapping' = mapping
    BY <2>1 DEF ObserveSlot
  <2>3. \A i \in DOMAIN sub'.samples : sub'.samples[i].t = i
    BY <2>1, SlotIs DEF Extended
  <2> QED
    BY <2>1, <2>2, <2>3, SlotIs DEF VerdictInv
<1>2. CASE SubEnds
  <2> DEFINE x == [label |-> "H", t2 |-> SubT2(sub), t3 |-> SubT3(sub)]
  <2>1. sub' = NoSub /\ results' = <<<<x>>>> /\ mapping' = mapping
    BY <1>2 DEF SubEnds
  <2>2. SubT2(sub) \in ThreeVerdicts /\ SubT3(sub) \in ThreeVerdicts
    BY CombineIs DEF SubT2, SubT3
  <2>3. x \in SubResults
    BY <2>2 DEF SubResults
  <2> HIDE DEF x
  <2>4. <<<<x>>>> \in Seq(Seq(SubResults))
    BY <2>3
  <2>5. <<>> \in Seq(SlotSamples) /\ DOMAIN <<>> = {}
    OBVIOUS
  <2>6. NoSub \in [auto : Autos, timed : BOOLEAN, ref : InputValues \cup {NoValue},
                   samples : Seq(SlotSamples)] /\ NoSub.samples = <<>>
    BY <2>5 DEF NoSub, Autos
  <2> QED
    BY <2>1, <2>4, <2>5, <2>6 DEF VerdictInv
<1>3. CASE \E r \in SubResults : FurtherSub(r)
  <2>1. PICK r \in SubResults : FurtherSub(r)
    BY <1>3
  <2>2. results # <<>> /\ sub' = sub /\ mapping' = mapping
    BY <2>1 DEF FurtherSub
  <2>3. sub = NoSub
    BY <2>2 DEF VerdictInv
  <2> QED
    BY <2>1, <2>2, <2>3, FurtherIs DEF VerdictInv
<1>4. CASE Mapping /\ \E x \in MapSamples : MapSample(x)
  <2>1. PICK x \in MapSamples : MapSample(x)
    BY <1>4
  <2> DEFINE u == Append(mapping.samples, x)
  <2>2. mapping' = [mapping EXCEPT !.samples = u] /\ sub' = sub /\ results' = results
    BY <2>1 DEF MapSample
  <2>3. u \in Seq(MapSamples)
    BY DEF VerdictInv
  <2> HIDE DEF u
  <2>4. mapping' \in [tach : BOOLEAN, noisy : BOOLEAN, ref : InputValues \cup {NoValue}, samples : Seq(MapSamples)]
    BY <2>2, <2>3 DEF VerdictInv
  <2> QED
    BY <2>2, <2>4 DEF VerdictInv
<1>5. CASE UNCHANGED verdictVars
  BY <1>5 DEF VerdictInv, verdictVars
<1> QED
  BY <1>1, <1>2, <1>3, <1>4, <1>5 DEF VerdictNext

\* The judged registers together.
LEMMA SubVerdicts ==
  ASSUME NEW h, NEW g, Extended(h, g)
  PROVE  ~Opposite(SubT2(h), SubT2(g)) /\ ~Opposite(SubT3(h), SubT3(g))
<1>1. Passed # Failed /\ Passed # Inconclusive /\ Failed # Inconclusive
  BY DEF Passed, Failed, Inconclusive
<1>2. PICK reg \in Registers : TRUE
  BY CountsAssumption
<1>3. \A v, w : Opposite(v, w) => (v = Passed /\ w = Failed) \/ (v = Failed /\ w = Passed)
  BY <1>1 DEF Opposite
<1>4. /\ \A k, v : v \in {Passed, Failed} /\ SubT2(k) = v => EvalT2(k, reg) = v
      /\ \A k, v : v \in {Passed, Failed} /\ SubT3(k) = v => EvalT3(k, reg) = v
  <2>1. ASSUME NEW k, NEW v \in {Passed, Failed}, SubT2(k) = v PROVE EvalT2(k, reg) = v
    <3>1. {EvalT2(k, q) : q \in Registers} = {v}
      BY <2>1, CombineIs DEF SubT2
    <3> QED
      BY <3>1
  <2>2. ASSUME NEW k, NEW v \in {Passed, Failed}, SubT3(k) = v PROVE EvalT3(k, reg) = v
    <3>1. {EvalT3(k, q) : q \in Registers} = {v}
      BY <2>2, CombineIs DEF SubT3
    <3> QED
      BY <3>1
  <2> QED
    BY <2>1, <2>2
<1>5. ~(SubT2(h) = Passed /\ SubT2(g) = Failed) /\ ~(SubT2(h) = Failed /\ SubT2(g) = Passed)
  <2>1. EvalT2(g, reg) = Failed => ~InputCrossed(g)
    BY <1>1 DEF EvalT2
  <2>2. EvalT2(h, reg) = Passed /\ ~InputCrossed(g) => EvalT2(g, reg) = Passed
    BY T2Stays
  <2>3. ~(EvalT2(h, reg) = Failed /\ EvalT2(g, reg) = Passed)
    BY T2Stays
  <2> QED
    BY <2>1, <2>2, <2>3, <1>1, <1>4
<1>6. ~(SubT3(h) = Passed /\ SubT3(g) = Failed) /\ ~(SubT3(h) = Failed /\ SubT3(g) = Passed)
  <2>1. EvalT3(g, reg) # Inconclusive => ~InputCrossed(g)
    BY DEF EvalT3
  <2>2. EvalT3(h, reg) # Inconclusive /\ ~InputCrossed(g) => EvalT3(g, reg) = EvalT3(h, reg)
    BY T3Stays
  <2> QED
    BY <2>1, <2>2, <1>1, <1>4
<1> QED
  BY <1>3, <1>5, <1>6

\* Aggregate, for any results.
AggregateOf(rs, test) ==
  IF Len(rs) < RunsRequired THEN Inconclusive
  ELSE Combine({RunVerdict(rs[i], test) : i \in 1..Len(rs)})

\* A run of one sub-run is undecided, and one such run leaves the channel undecided.
LEMMA HalfRun ==
  ASSUME NEW rs, NEW n \in 1..Len(rs), Len(rs[n]) = 1, NEW test
  PROVE  AggregateOf(rs, test) = Inconclusive
<1>1. RunVerdict(rs[n], test) = Inconclusive
  <2>1. 1..Len(rs[n]) = {1}
    OBVIOUS
  <2>2. {rs[n][i].label : i \in 1..Len(rs[n])} = {rs[n][1].label}
    BY <2>1
  <2>3. "H" # "M"
    OBVIOUS
  <2>4. ~({"H", "M"} \subseteq {rs[n][1].label})
    BY <2>3
  <2> QED
    BY <2>2, <2>4 DEF RunVerdict
<1>2. Passed # Inconclusive /\ Failed # Inconclusive
  BY DEF Passed, Failed, Inconclusive
<1> DEFINE vs == {RunVerdict(rs[i], test) : i \in 1..Len(rs)}
<1>3. Inconclusive \in vs
  BY <1>1
<1> HIDE DEF vs
<1>4. Combine(vs) = Inconclusive
  BY <1>2, <1>3 DEF Combine
<1> QED
  BY <1>4 DEF AggregateOf, vs

\* What NoTurnaround says of a step.
NoTurn ==
  /\ Len(sub'.samples) > Len(sub.samples) =>
       /\ ~Opposite(SubT2(sub), SubT2(sub')) /\ ~Opposite(SubT3(sub), SubT3(sub'))
       /\ ~InputCrossed(sub') =>
            \A reg \in Registers :
              /\ EvalT2(sub, reg) = Passed => EvalT2(sub', reg) = Passed
              /\ EvalT3(sub, reg) # Inconclusive => EvalT3(sub', reg) = EvalT3(sub, reg)
  /\ results # <<>> =>
       \A test \in {"t2", "t3"} : ~Opposite(Aggregate(test), Aggregate(test)')
  /\ Len(mapping'.samples) > Len(mapping.samples) /\ EvalT1(mapping) = Failed
       => EvalT1(mapping') # Passed

\* Each step of the records.
LEMMA StepNoTurn == VerdictInv /\ [VerdictNext]_verdictVars => [NoTurn]_verdictVars
<1> SUFFICES ASSUME VerdictInv, VerdictNext PROVE NoTurn
  OBVIOUS
<1>1. Passed # Failed /\ Passed # Inconclusive /\ Failed # Inconclusive
  BY DEF Passed, Failed, Inconclusive
<1>2. Len(sub.samples) \in Nat /\ Len(mapping.samples) \in Nat
  BY DEF VerdictInv
<1>3. \A v : ~Opposite(v, v)
  BY <1>1 DEF Opposite
<1>4. \A test : Aggregate(test) = AggregateOf(results, test)
  BY DEF Aggregate, AggregateOf
<1>5. \A test : Aggregate(test)' = AggregateOf(results', test)
  BY DEF Aggregate, AggregateOf
<1>6. \A v : ~Opposite(Inconclusive, v) /\ ~Opposite(v, Inconclusive)
  BY <1>1 DEF Opposite
<1>7. CASE \E dcr \in [Registers -> DcrValues \cup {NoValue}] :
             \E input \in InputValues : ObserveSlot(dcr, input)
  <2>1. PICK dcr \in [Registers -> DcrValues \cup {NoValue}], input \in InputValues :
          ObserveSlot(dcr, input)
    BY <1>7
  <2>2. mapping' = mapping /\ results' = results
    BY <2>1 DEF ObserveSlot
  <2>3. Extended(sub, sub')
    BY <2>1, SlotIs
  <2>4. ~Opposite(SubT2(sub), SubT2(sub')) /\ ~Opposite(SubT3(sub), SubT3(sub'))
    BY <2>3, SubVerdicts
  <2>5. ~InputCrossed(sub') =>
            \A reg \in Registers :
              /\ EvalT2(sub, reg) = Passed => EvalT2(sub', reg) = Passed
              /\ EvalT3(sub, reg) # Inconclusive => EvalT3(sub', reg) = EvalT3(sub, reg)
    BY <2>3, T2Stays, T3Stays
  <2>6. ~(Len(mapping'.samples) > Len(mapping.samples))
    BY <2>2, <1>2
  <2>7. \A test : ~Opposite(Aggregate(test), Aggregate(test)')
    BY <2>2, <1>3, <1>4, <1>5
  <2> QED
    BY <2>4, <2>5, <2>6, <2>7 DEF NoTurn
<1>8. CASE SubEnds
  <2>1. sub' = NoSub /\ mapping' = mapping /\ results = <<>>
    BY <1>8 DEF SubEnds, VerdictInv
  <2>2. Len(sub'.samples) = 0
    BY <2>1 DEF NoSub
  <2>3. ~(Len(sub'.samples) > Len(sub.samples)) /\ ~(Len(mapping'.samples) > Len(mapping.samples))
    BY <2>1, <2>2, <1>2
  <2> QED
    BY <2>1, <2>3 DEF NoTurn
<1>9. CASE \E r \in SubResults : FurtherSub(r)
  <2>1. PICK r \in SubResults : FurtherSub(r)
    BY <1>9
  <2>2. sub' = sub /\ mapping' = mapping
    BY <2>1 DEF FurtherSub
  <2>3. ~(Len(sub'.samples) > Len(sub.samples)) /\ ~(Len(mapping'.samples) > Len(mapping.samples))
    BY <2>2, <1>2
  <2> DEFINE n == Len(results)
  <2>4. /\ n \in Nat \ {0} /\ results' \in Seq(Seq(SubResults))
        /\ r.label = "H" => Len(results') = n + 1 /\ results'[n + 1] = <<r>>
        /\ r.label = "M" => Len(results[n]) = 1
    BY <2>1, FurtherIs
  <2>5. r.label = "H" \/ r.label = "M"
    BY DEF SubResults
  <2>6. ASSUME NEW test PROVE ~Opposite(Aggregate(test), Aggregate(test)')
    <3>1. CASE r.label = "H"
      <4>1. n + 1 \in 1..Len(results')
        BY <3>1, <2>4
      <4>2. Len(results'[n + 1]) = 1
        <5>1. results'[n + 1] = <<r>>
          BY <3>1, <2>4
        <5>2. Len(<<r>>) = 1
          OBVIOUS
        <5> QED
          BY <5>1, <5>2, Zenon
      <4>3. AggregateOf(results', test) = Inconclusive
        BY <4>1, <4>2, HalfRun
      <4> QED
        BY <4>3, <1>5, <1>6
    <3>2. CASE r.label = "M"
      <4>1. n \in 1..Len(results) /\ Len(results[n]) = 1
        BY <3>2, <2>4
      <4>2. AggregateOf(results, test) = Inconclusive
        BY <4>1, HalfRun
      <4> QED
        BY <4>2, <1>4, <1>6
    <3> QED
      BY <3>1, <3>2, <2>5
  <2> QED
    BY <2>3, <2>6 DEF NoTurn
<1>10. CASE Mapping /\ \E x \in MapSamples : MapSample(x)
  <2>1. PICK x \in MapSamples : MapSample(x)
    BY <1>10
  <2> DEFINE s == mapping.samples
             u == Append(mapping.samples, x)
  <2>2. mapping' = [mapping EXCEPT !.samples = u] /\ sub' = sub /\ results' = results
    BY <2>1 DEF MapSample
  <2>3. s \in Seq(MapSamples) /\ u \in Seq(MapSamples) /\ DOMAIN s \subseteq DOMAIN u
        /\ \A i \in DOMAIN s : u[i] = s[i]
    BY DEF VerdictInv
  <2> HIDE DEF u
  <2>4. mapping'.samples = u
    BY <2>2 DEF VerdictInv
  <2>5. DcrDiffers(mapping) => DcrDiffers(mapping')
    BY <2>3, <2>4 DEF DcrDiffers, Judged
  <2>6. Follows(mapping) => Follows(mapping')
    BY <2>3, <2>4 DEF Follows
  <2>7. EvalT1(mapping) = Failed => EvalT1(mapping') # Passed
    BY <2>5, <2>6, <1>1 DEF EvalT1
  <2>8. ~(Len(sub'.samples) > Len(sub.samples))
    BY <2>2, <1>2
  <2>9. \A test : ~Opposite(Aggregate(test), Aggregate(test)')
    BY <2>2, <1>3, <1>4, <1>5
  <2> QED
    BY <2>7, <2>8, <2>9 DEF NoTurn
<1> QED
  BY <1>7, <1>8, <1>9, <1>10 DEF VerdictNext

\* NoTurnaround: for every set of registers, all limits with LeaveWithin up to
\* Observe and any number of samples, sub-runs and runs, a record that goes on does
\* not turn a verdict round (EvalHandback, EvalHandbackRegs, AggregateHandback,
\* EvalT1Inputs).
THEOREM NoTurnaroundHolds == VerdictSpec => NoTurnaround
<1>1. VerdictInit => VerdictInv
  BY VerdictInitStep
<1>2. VerdictInv /\ [VerdictNext]_verdictVars => VerdictInv'
  BY VerdictInvInductive
<1>3. VerdictInv /\ [VerdictNext]_verdictVars => [NoTurn]_verdictVars
  BY StepNoTurn
<1> QED
  BY <1>1, <1>2, <1>3, PTL DEF VerdictSpec, NoTurnaround, NoTurn
=============================================================================
