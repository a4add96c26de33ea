----------------------------- MODULE AlertProofs ----------------------------
(***************************************************************************)
(* Proofs about alerts: AlertCooldown and AlertHistory, for every set of   *)
(* kinds, every cooldown, every step of the wall clock and every size of   *)
(* the ring.                                                               *)
(*                                                                         *)
(* The cooldown rests on two memories with two clocks; the invariant says  *)
(* when they agree and which of them suppresses a kind (StampsAgree,       *)
(* SilentSince, Remembered).  AckedWasShown rests on the identifiers: they *)
(* ascend in the ring, and a restart counts on from the last one           *)
(* (RingKept).                                                             *)
(***************************************************************************)
EXTENDS AlertCooldown, AlertHistory, TLAPS

-----------------------------------------------------------------------------
\* AlertCooldown.

\* A time for each kind, or Never.
Stamps == [Kinds -> Int \cup {Never}]

\* The types the argument needs.
CoolTypes ==
  /\ real \in Nat /\ skew \in Int /\ cool \in Nat
  /\ alertAt \in Stamps /\ loaded \in Stamps /\ stamp \in Stamps
  /\ sentAt \in Stamps /\ silent \in Stamps

\* The two memories of raise: the time of this process is that of the last
\* delivery, and without one the stamp it loaded is still the one on disk.
StampsAgree ==
  \A k \in Kinds \ StartKinds :
    /\ alertAt[k] # Never => sentAt[k] = alertAt[k]
    /\ alertAt[k] = Never => loaded[k] = stamp[k]

\* The real time that suppresses a kind, by the clock it was noted with.
SentBy(k) ==
  IF k \in StartKinds THEN stamp[k] - skew
  ELSE IF alertAt[k] # Never THEN alertAt[k] ELSE loaded[k] - skew

\* A kind counted as silent is suppressed, by a time before its silence began.
SilentSince ==
  \A k \in Kinds : silent[k] # Never => Suppressed(k) /\ SentBy(k) <= silent[k]

\* Unless excused, the last delivery is remembered exactly.
Remembered ==
  \A k \in Kinds : sentAt[k] # Never /\ k \notin excused =>
    /\ sentAt[k] <= real
    /\ IF k \in StartKinds THEN stamp[k] = sentAt[k] + skew
       ELSE IF alertAt[k] # Never THEN alertAt[k] = sentAt[k]
       ELSE loaded[k] = sentAt[k] + skew

\* The inductive invariant of AlertCooldown.
CoolInv == CoolTypes /\ StampsAgree /\ SilentSince /\ Remembered

\* What suppresses a kind lies within its cooldown, never in the future.
LEMMA SuppressedSent ==
  ASSUME CoolTypes, NEW k \in Kinds, Suppressed(k)
  PROVE  SentBy(k) \in Int /\ SentBy(k) <= real /\ real - SentBy(k) < CoolOf(k)
BY CoolAssumption, NeverAssumption
DEF CoolTypes, Stamps, Suppressed, SentBy, CoolOf, Within, Wall0

\* A step after which the kinds in ks are heard and nobody else is suppressed by
\* a later time.
LEMMA SilentKept ==
  ASSUME NEW ks, CoolTypes, CoolTypes', SilentSince, silent' = SilentFrom(ks),
         \A k \in Kinds \ ks :
           silent[k] # Never /\ Suppressed(k) /\ Suppressed(k)' => SentBy(k)' <= SentBy(k)
  PROVE  SilentSince'
<1> SUFFICES ASSUME NEW k \in Kinds, silent'[k] # Never
             PROVE  Suppressed(k)' /\ SentBy(k)' <= silent'[k]
  BY DEF SilentSince
<1>1. silent'[k] = IF ~Suppressed(k)' THEN Never
                   ELSE IF silent[k] = Never \/ k \in ks THEN real' ELSE silent[k]
  BY DEF SilentFrom
<1>2. Suppressed(k)'
  BY <1>1
<1>3. SentBy(k)' \in Int /\ SentBy(k)' <= real'
  <2>1. CoolTypes' => (Suppressed(k)' => SentBy(k)' \in Int /\ SentBy(k)' <= real')
    BY CoolAssumption, NeverAssumption
    DEF CoolTypes, Stamps, Suppressed, SentBy, CoolOf, Within, Wall0
  <2> QED
    BY <1>2, <2>1
<1>4. CASE silent[k] = Never \/ k \in ks
  BY <1>1, <1>2, <1>3, <1>4
<1>5. CASE silent[k] # Never /\ k \notin ks
  <2>1. Suppressed(k) /\ SentBy(k) <= silent[k]
    BY <1>5 DEF SilentSince
  <2>2. SentBy(k)' <= SentBy(k)
    BY <2>1, <1>2, <1>5
  <2>3. SentBy(k) \in Int /\ silent[k] \in Int
    BY <2>1, <1>5, SuppressedSent DEF CoolTypes, Stamps
  <2>4. silent'[k] = silent[k]
    BY <1>1, <1>2, <1>5
  <2> QED
    BY <2>1, <2>2, <2>3, <2>4, <1>2, <1>3
<1> QED
  BY <1>4, <1>5

\* Every step keeps the types.
LEMMA CoolTyped ==
  ASSUME CoolTypes, [CoolNext]_coolVars
  PROVE  CoolTypes'
<1> USE CoolAssumption, NeverAssumption DEF CoolTypes, Stamps
<1>0. \A ks : real' \in Nat => SilentFrom(ks) \in Stamps
  BY DEF SilentFrom
<1>1. ASSUME NEW k \in Kinds, Raise(k) PROVE CoolTypes'
  BY <1>0, <1>1 DEF Raise, Deliver, Wall0
<1>2. ASSUME NEW k \in Kinds, StampAlert(k) PROVE CoolTypes'
  BY <1>0, <1>2 DEF StampAlert, Deliver, Wall0
<1>3. CASE Advance
  BY <1>0, <1>3 DEF Advance
<1>4. CASE CoolRestart
  BY <1>0, <1>4 DEF CoolRestart, LoadAlertStamps, None
<1>5. CASE Reboot
  BY <1>5 DEF Reboot, None
<1>6. ASSUME NEW s \in Skews, StepClock(s) PROVE CoolTypes'
  BY <1>0, <1>6 DEF StepClock
<1>7. ASSUME NEW c \in Cools, ReloadCool(c) PROVE CoolTypes'
  BY <1>0, <1>7 DEF ReloadCool
<1>8. CASE UNCHANGED coolVars
  BY <1>8 DEF coolVars
<1> QED
  BY <1>1, <1>2, <1>3, <1>4, <1>5, <1>6, <1>7, <1>8 DEF CoolNext

\* Every step keeps the invariant: a delivery, a stamp that is not written, a
\* step of the wall clock, a reload of the cooldown, a restart.
LEMMA CoolStep ==
  ASSUME CoolInv, [CoolNext]_coolVars
  PROVE  CoolInv'
<1> USE NeverAssumption
<1>0. CoolTypes /\ CoolTypes'
  BY CoolTyped DEF CoolInv
<1>1. ASSUME NEW k \in Kinds, Raise(k) PROVE CoolInv'
  <2>1. StampsAgree' /\ Remembered'
    BY <1>0, <1>1
    DEF Raise, Deliver, CoolInv, StampsAgree, Remembered, CoolTypes, Stamps, Wall0
  <2>2. SilentSince'
    <3>1. \A j \in Kinds \ {k} : SentBy(j)' = SentBy(j)
      BY <1>0, <1>1 DEF Raise, Deliver, SentBy, CoolTypes, Stamps
    <3>2. silent' = SilentFrom({k})
      BY <1>1 DEF Raise
    <3>3. \A j \in Kinds \ {k} : Suppressed(j) => SentBy(j)' <= SentBy(j)
      BY <1>0, <3>1, SuppressedSent
    <3> QED
      BY <1>0, <3>2, <3>3, SilentKept DEF CoolInv
  <2> QED
    BY <1>0, <2>1, <2>2 DEF CoolInv
<1>2. ASSUME NEW k \in Kinds, StampAlert(k) PROVE CoolInv'
  <2>1. StampsAgree' /\ Remembered'
    BY <1>0, <1>2
    DEF StampAlert, Deliver, CoolInv, StampsAgree, Remembered, CoolTypes, Stamps, Wall0
  <2>2. SilentSince'
    <3>1. \A j \in Kinds \ {k} : SentBy(j)' = SentBy(j)
      BY <1>0, <1>2 DEF StampAlert, Deliver, SentBy, CoolTypes, Stamps
    <3>2. silent' = SilentFrom({k})
      BY <1>2 DEF StampAlert
    <3>3. \A j \in Kinds \ {k} : Suppressed(j) => SentBy(j)' <= SentBy(j)
      BY <1>0, <3>1, SuppressedSent
    <3> QED
      BY <1>0, <3>2, <3>3, SilentKept DEF CoolInv
  <2> QED
    BY <1>0, <2>1, <2>2 DEF CoolInv
<1>3. CASE Advance
  <2>1. StampsAgree' /\ Remembered'
    BY <1>0, <1>3 DEF Advance, CoolInv, StampsAgree, Remembered, CoolTypes, Stamps
  <2>2. SilentSince'
    <3>1. \A j \in Kinds : SentBy(j)' = SentBy(j)
      BY <1>3 DEF Advance, SentBy
    <3>2. \A j \in Kinds : Suppressed(j) => SentBy(j)' <= SentBy(j)
      BY <1>0, <3>1, SuppressedSent
    <3> QED
      BY <1>0, <1>3, <3>2, SilentKept DEF CoolInv, Advance
  <2> QED
    BY <1>0, <2>1, <2>2 DEF CoolInv
<1>4. CASE CoolRestart
  <2>1. StampsAgree' /\ Remembered'
    BY <1>0, <1>4
    DEF CoolRestart, CoolInv, StampsAgree, Remembered, CoolTypes, Stamps, None,
                      LoadAlertStamps, Unstamped
  <2>2. SilentSince'
    <3>1. ASSUME NEW j \in Kinds \ Unstamped, Suppressed(j)
          PROVE  SentBy(j)' <= SentBy(j)
      <4>1. sentAt[j] = Never \/ stamp[j] = sentAt[j] + skew
        BY DEF Unstamped
      <4>2. SentBy(j)' = stamp[j] - skew
        BY <1>4 DEF CoolRestart, SentBy, None, LoadAlertStamps
      <4>3. stamp[j] - skew = SentBy(j)
        BY <1>0, <3>1, <4>1 DEF SentBy, CoolInv, StampsAgree, CoolTypes, Stamps
      <4> QED
        BY <1>0, <3>1, <4>2, <4>3, SuppressedSent
    <3> QED
      BY <1>0, <1>4, <3>1, SilentKept DEF CoolInv, CoolRestart
  <2> QED
    BY <1>0, <2>1, <2>2 DEF CoolInv
<1>5. CASE Reboot
  BY <1>0, <1>5 DEF Reboot, CoolInv, StampsAgree, SilentSince, Remembered, None
<1>6. ASSUME NEW s \in Skews, StepClock(s) PROVE CoolInv'
  <2>1. StampsAgree' /\ Remembered'
    BY <1>0, <1>6 DEF StepClock, CoolInv, StampsAgree, Remembered, CoolTypes, Stamps
  <2>2. SilentSince'
    BY <1>0, <1>6, SilentKept DEF CoolInv, StepClock
  <2> QED
    BY <1>0, <2>1, <2>2 DEF CoolInv
<1>7. ASSUME NEW c \in Cools, ReloadCool(c) PROVE CoolInv'
  <2>1. StampsAgree' /\ Remembered'
    BY <1>0, <1>7 DEF ReloadCool, CoolInv, StampsAgree, Remembered, CoolTypes, Stamps
  <2>2. SilentSince'
    BY <1>0, <1>7, SilentKept DEF CoolInv, ReloadCool
  <2> QED
    BY <1>0, <2>1, <2>2 DEF CoolInv
<1>8. CASE UNCHANGED coolVars
  BY <1>0, <1>8
  DEF coolVars, CoolInv, StampsAgree, SilentSince, Remembered, Suppressed, SentBy, Wall0
<1> QED
  BY <1>1, <1>2, <1>3, <1>4, <1>5, <1>6, <1>7, <1>8 DEF CoolNext

\* It holds throughout.
LEMMA CoolInvHolds == CoolSpec => []CoolInv
<1>1. CoolInit => CoolInv
  BY CoolAssumption, NeverAssumption
  DEF CoolInit, CoolInv, CoolTypes, Stamps, StampsAgree, SilentSince, Remembered, None
<1> QED
  BY <1>1, CoolStep, PTL DEF CoolSpec

\* NotSilenced: for every set of kinds, every cooldown and every step of the wall
\* clock, no kind is suppressed for a whole cooldown on end (raise, stampAlert).
THEOREM NotSilencedHolds == CoolSpec => []NotSilenced
<1>1. CoolInv => NotSilenced
  <2> SUFFICES ASSUME CoolInv, NEW k \in Kinds, silent[k] # Never
               PROVE  real - silent[k] < CoolOf(k)
    BY DEF NotSilenced
  <2>1. Suppressed(k) /\ SentBy(k) <= silent[k]
    BY DEF CoolInv, SilentSince
  <2>2. SentBy(k) \in Int /\ real - SentBy(k) < CoolOf(k)
    BY <2>1, SuppressedSent DEF CoolInv
  <2>3. silent[k] \in Int /\ real \in Int /\ CoolOf(k) \in Int
    BY CoolAssumption DEF CoolInv, CoolTypes, Stamps, CoolOf
  <2> QED
    BY <2>1, <2>2, <2>3
<1> QED
  BY <1>1, CoolInvHolds, PTL

\* NotRepeated: no alert is delivered twice within its cooldown, over any number
\* of restarts, unless only a stamp could have known (loadAlertStamps).
THEOREM NotRepeatedHolds == CoolSpec => NotRepeated
<1> DEFINE Apart ==
      \A k \in Kinds :
        sentAt[k] # Never /\ sentAt'[k] # Never /\ sentAt'[k] # sentAt[k]
          => k \in excused \/ sentAt'[k] - sentAt[k] >= CoolOf(k)
<1>1. CoolInv /\ [CoolNext]_coolVars => [Apart]_coolVars
  <2> SUFFICES ASSUME CoolInv, CoolNext, NEW k \in Kinds, sentAt[k] # Never,
                      sentAt'[k] # Never, sentAt'[k] # sentAt[k], k \notin excused
               PROVE  sentAt'[k] - sentAt[k] >= CoolOf(k)
    OBVIOUS
  <2>1. ~Suppressed(k) /\ sentAt'[k] = real
    <3>1. ASSUME NEW j \in Kinds, Raise(j) PROVE ~Suppressed(k) /\ sentAt'[k] = real
      BY <3>1 DEF Raise, Deliver, CoolInv, CoolTypes, Stamps
    <3>2. ASSUME NEW j \in Kinds, StampAlert(j) PROVE ~Suppressed(k) /\ sentAt'[k] = real
      BY <3>2 DEF StampAlert, Deliver, CoolInv, CoolTypes, Stamps
    <3> QED
      BY <3>1, <3>2 DEF CoolNext, Advance, CoolRestart, Reboot, None, StepClock, ReloadCool
  <2> QED
    BY <2>1, CoolAssumption, NeverAssumption
    DEF CoolInv, CoolTypes, Stamps, Remembered, Suppressed, Within, Wall0, CoolOf
<1>2. CoolSpec => [][Apart]_coolVars
  BY <1>1, CoolInvHolds, PTL DEF CoolSpec
<1> QED
  BY <1>2 DEF NotRepeated

-----------------------------------------------------------------------------
\* AlertHistory.

\* A record of the ring.
Records == [id : Nat, alert : Nat, acked : BOOLEAN]

\* The types the argument needs.
HistTypes ==
  /\ raised \in Nat /\ recorded \in Seq(Nat) /\ sent \in Nat
  /\ \A d \in flight : d.alert \in Nat

\* Ring and file agree, the newest record has the largest identifier, which is
\* the one the next record counts from.
RingKept ==
  /\ recs \in Seq(Records) /\ Len(recs) <= RingSize /\ file = recs
  /\ lastID \in Nat /\ client \in Nat /\ client <= lastID
  /\ recs = <<>> => lastID = 0
  /\ recs # <<>> => recs[Len(recs)].id = lastID
  /\ \A i \in DOMAIN recs : recs[i].id <= lastID

\* What the page has seen, by identifier, or acknowledged was shown to it.
ShownKept ==
  \A i \in DOMAIN recs :
    /\ \E j \in DOMAIN recorded : recorded[j] = recs[i].alert
    /\ recs[i].id <= client \/ recs[i].acked => recs[i].alert \in shown

\* The inductive invariant of AlertHistory.  Once a save has failed or the alert
\* command has written the file, nothing is claimed.
HistInv ==
  /\ HistTypes
  /\ spoilt = {} /\ sent = 0 => RingKept /\ ShownKept

\* A ring that is not full is kept whole.
LEMMA NewestWhole ==
  ASSUME NEW S, NEW s \in Seq(S), NEW n \in Nat, Len(s) <= n
  PROVE  Newest(s, n) = s
<1> DEFINE r == SubSeq(s, 1, Len(s))
<1>1. Newest(s, n) = r
  <2>1. ~(Len(s) > n)
    OBVIOUS
  <2> QED
    BY <2>1 DEF Newest
<1>2. r \in Seq(S) /\ Len(r) = Len(s) /\ \A i \in 1..Len(s) : r[i] = s[i]
  OBVIOUS
<1> HIDE DEF r
<1>3. r = s
  BY <1>2
<1> QED
  BY <1>1, <1>3

\* A further record goes to the end and pushes out at most the oldest.
LEMMA NewestAppend ==
  ASSUME NEW s \in Seq(Records), NEW x \in Records, Len(s) <= RingSize,
         NEW r, r = Newest(Append(s, x), RingSize)
  PROVE  /\ r \in Seq(Records) /\ Len(r) \in 1..RingSize /\ r[Len(r)] = x
         /\ \A i \in 1..(Len(r) - 1) : r[i] \in {s[j] : j \in 1..Len(s)}
<1> USE RingAssumption
<1> DEFINE a == Append(s, x)
<1>1. /\ a \in Seq(Records) /\ Len(a) = Len(s) + 1 /\ a[Len(s) + 1] = x
      /\ \A j \in 1..Len(s) : a[j] = s[j]
  OBVIOUS
<1> HIDE DEF a
<1>2. CASE Len(s) < RingSize
  <2>1. r = a
    <3>1. r = Newest(a, RingSize)
      BY DEF a
    <3>2. Len(a) <= RingSize
      BY <1>1, <1>2
    <3> QED
      BY <3>1, <3>2, <1>1, NewestWhole
  <2> QED
    BY <2>1, <1>1, <1>2
<1>3. CASE Len(s) = RingSize
  <2>1. r = SubSeq(a, 2, RingSize + 1)
    <3>1. Len(a) > RingSize /\ Len(a) - RingSize + 1 = 2 /\ Len(a) = RingSize + 1
      BY <1>1, <1>3
    <3> QED
      BY <3>1 DEF Newest, a
  <2>2. r \in Seq(Records) /\ Len(r) = RingSize /\ \A i \in 1..RingSize : r[i] = a[i + 1]
    BY <2>1, <1>1, <1>3
  <2>3. r[RingSize] = x
    <3>1. RingSize \in 1..RingSize
      OBVIOUS
    <3> QED
      BY <3>1, <2>2, <1>1, <1>3
  <2>4. ASSUME NEW i \in 1..(RingSize - 1) PROVE i + 1 \in 1..Len(s) /\ r[i] = s[i + 1]
    BY <2>2, <1>1, <1>3
  <2>5. \A i \in 1..(Len(r) - 1) : r[i] \in {s[j] : j \in 1..Len(s)}
    BY <2>2, <2>4
  <2> QED
    BY <2>2, <2>3, <2>5
<1> QED
  BY <1>2, <1>3

\* The identifier a restarted daemon counts from is that of the last record.
LEMMA LargestIsLast ==
  ASSUME RingKept
  PROVE  LargestID(recs) = lastID
<1>1. CASE recs = <<>>
  BY <1>1 DEF LargestID, RingKept
<1>2. CASE recs # <<>>
  <2> DEFINE ids == {recs[i].id : i \in DOMAIN recs}
  <2>1. Len(recs) \in DOMAIN recs /\ recs[Len(recs)].id = lastID
    BY <1>2 DEF RingKept
  <2>2. lastID \in ids /\ \A i \in DOMAIN recs : recs[i].id <= lastID
    BY <2>1 DEF RingKept
  <2>3. \A m \in ids : m \in Nat /\ m <= lastID
    <3>1. \A i \in DOMAIN recs : recs[i] \in Records
      BY DEF RingKept
    <3>2. \A i \in DOMAIN recs : recs[i].id \in Nat
      BY <3>1 DEF Records
    <3> QED
      BY <3>2, <2>2
  <2>4. ASSUME NEW m \in ids, \A i \in DOMAIN recs : recs[i].id <= m PROVE m = lastID
    <3>1. lastID <= m
      BY <2>1, <2>4
    <3>2. m \in Nat /\ m <= lastID /\ lastID \in Nat
      BY <2>3 DEF RingKept
    <3> QED
      BY <3>1, <3>2
  <2>5. LargestID(recs) = CHOOSE m \in ids : \A i \in DOMAIN recs : recs[i].id <= m
    BY <1>2 DEF LargestID
  <2> HIDE DEF ids
  <2> QED
    BY <2>2, <2>4, <2>5
<1> QED
  BY <1>1, <1>2

\* A delivery that is recorded, in whatever order deliveries end.
LEMMA RecordKeeps ==
  ASSUME HistInv, NEW d \in flight, Record(d), spoilt' = {}, sent' = 0
  PROVE  RingKept' /\ ShownKept'
<1> DEFINE x == [id |-> lastID + 1, alert |-> d.alert, acked |-> FALSE]
<1>1. RingKept /\ ShownKept
  BY DEF HistInv, Record, Save1
<1>2. recs' = Newest(Append(recs, x), RingSize) /\ file' = recs' /\ lastID' = lastID + 1
      /\ client' = client /\ shown' = shown /\ recorded' = Append(recorded, d.alert)
  BY DEF Record, Save1
<1>3. x \in Records /\ x.id = lastID + 1 /\ x.alert = d.alert /\ x.acked = FALSE
  BY <1>1 DEF HistInv, HistTypes, RingKept, Records
<1> HIDE DEF x
<1>4. /\ recs' \in Seq(Records) /\ Len(recs') \in 1..RingSize /\ recs'[Len(recs')] = x
      /\ \A i \in 1..(Len(recs') - 1) : recs'[i] \in {recs[j] : j \in 1..Len(recs)}
  <2>1. recs \in Seq(Records) /\ Len(recs) <= RingSize
    BY <1>1 DEF RingKept
  <2>2. x \in Records
    BY <1>3
  <2> QED
    BY <2>1, <2>2, <1>2, NewestAppend
<1>5. /\ DOMAIN recs' = 1..Len(recs') /\ DOMAIN recs = 1..Len(recs) /\ Len(recs') \in Nat
      /\ recs' # <<>>
  BY <1>1, <1>4, RingAssumption DEF RingKept
<1>6. /\ d.alert \in Nat /\ recorded \in Seq(Nat)
      /\ DOMAIN recorded' = 1..(Len(recorded) + 1)
      /\ recorded'[Len(recorded) + 1] = d.alert
      /\ \A j \in DOMAIN recorded : j \in DOMAIN recorded' /\ recorded'[j] = recorded[j]
  <2>1. d.alert \in Nat /\ recorded \in Seq(Nat)
    BY DEF HistInv, HistTypes
  <2> QED
    BY <2>1, <1>2
<1>7. RingKept'
  <2>1. ASSUME NEW i \in DOMAIN recs' PROVE recs'[i].id <= lastID + 1
    <3>1. CASE i = Len(recs')
      BY <3>1, <1>1, <1>3, <1>4 DEF RingKept
    <3>2. CASE i # Len(recs')
      <4>1. i \in 1..(Len(recs') - 1)
        BY <3>2, <1>5
      <4>2. PICK j \in 1..Len(recs) : recs'[i] = recs[j]
        BY <4>1, <1>4
      <4>3. recs[j] \in Records /\ recs[j].id <= lastID /\ lastID \in Nat
        BY <1>1, <1>5 DEF RingKept
      <4>4. recs[j].id \in Nat
        BY <4>3 DEF Records
      <4> QED
        BY <4>2, <4>3, <4>4
    <3> QED
      BY <3>1, <3>2
  <2>2. lastID' \in Nat /\ client' \in Nat /\ client' <= lastID' /\ Len(recs') <= RingSize
    BY <1>1, <1>2, <1>4, RingAssumption DEF RingKept
  <2> QED
    BY <2>1, <2>2, <1>2, <1>3, <1>4, <1>5 DEF RingKept
<1>8. ShownKept'
  <2> SUFFICES ASSUME NEW i \in DOMAIN recs'
               PROVE  /\ \E j \in DOMAIN recorded' : recorded'[j] = recs'[i].alert
                      /\ recs'[i].id <= client \/ recs'[i].acked => recs'[i].alert \in shown
    BY <1>2 DEF ShownKept
  <2>1. CASE i = Len(recs')
    <3>1. Len(recorded) + 1 \in DOMAIN recorded' /\ recs'[i] = x
      BY <2>1, <1>4, <1>6
    <3>2. ~(x.id <= client)
      BY <1>1, <1>3 DEF RingKept
    <3> QED
      BY <3>1, <3>2, <1>3, <1>6
  <2>2. CASE i # Len(recs')
    <3>1. i \in 1..(Len(recs') - 1)
      BY <2>2, <1>5
    <3>2. PICK j \in 1..Len(recs) : recs'[i] = recs[j]
      BY <3>1, <1>4
    <3>3. /\ \E h \in DOMAIN recorded : recorded[h] = recs[j].alert
          /\ recs[j].id <= client \/ recs[j].acked => recs[j].alert \in shown
      BY <1>1, <1>5 DEF ShownKept
    <3> QED
      BY <3>2, <3>3, <1>6
  <2> QED
    BY <2>1, <2>2
<1> QED
  BY <1>7, <1>8

\* An acknowledgement of identifiers the page has seen (Ack, AckUpTo).
LEMMA AcknowledgeKeeps ==
  ASSUME HistInv, NEW ids, \A n \in ids : n <= client, Acknowledge(ids), spoilt' = {},
         sent' = 0
  PROVE  RingKept' /\ ShownKept'
<1>1. RingKept /\ ShownKept
  BY DEF HistInv, Acknowledge, Save1
<1>2. /\ recs' = Acked(ids) /\ file' = recs' /\ lastID' = lastID /\ client' = client
      /\ shown' = shown /\ recorded' = recorded
  BY DEF Acknowledge, Save1
<1>3. DOMAIN recs = 1..Len(recs) /\ \A i \in DOMAIN recs : recs[i] \in Records
  BY <1>1 DEF RingKept
<1>4. ASSUME NEW i \in DOMAIN recs
      PROVE  /\ recs'[i] \in Records /\ recs'[i].id = recs[i].id
             /\ recs'[i].alert = recs[i].alert
             /\ recs'[i].acked => recs[i].acked \/ recs[i].id <= client
  <2> DEFINE b == recs[i].acked \/ recs[i].id \in ids
  <2>1. recs'[i] = [recs[i] EXCEPT !.acked = b]
    BY <1>2 DEF Acked
  <2>2. b \in BOOLEAN
    OBVIOUS
  <2>3. b => recs[i].acked \/ recs[i].id <= client
    OBVIOUS
  <2> HIDE DEF b
  <2> QED
    BY <2>1, <2>2, <2>3, <1>3 DEF Records
<1>5. recs' \in Seq(Records) /\ Len(recs') = Len(recs) /\ DOMAIN recs' = DOMAIN recs
  <2>1. recs' = [i \in 1..Len(recs) |-> recs'[i]]
    BY <1>2, <1>3 DEF Acked
  <2> QED
    BY <2>1, <1>1, <1>3, <1>4 DEF RingKept
<1>6. recs' = <<>> <=> recs = <<>>
  BY <1>1, <1>5 DEF RingKept
<1>7. RingKept'
  BY <1>1, <1>2, <1>4, <1>5, <1>6 DEF RingKept
<1>8. ShownKept'
  BY <1>1, <1>2, <1>4, <1>5 DEF ShownKept
<1> QED
  BY <1>7, <1>8

\* Every step keeps the invariant.
LEMMA HistStep ==
  ASSUME HistInv, [HistNext]_histVars
  PROVE  HistInv'
<1>1. HistTypes'
  <2> USE DEF HistInv, HistTypes
  <2>1. CASE Deliver1
    BY <2>1 DEF Deliver1, Begin
  <2>2. CASE Test
    BY <2>2 DEF Test, Begin
  <2>3. ASSUME NEW d \in flight, Record(d) PROVE HistTypes'
    BY <2>3 DEF Record
  <2>4. CASE CommandRecords
    BY <2>4 DEF CommandRecords
  <2>5. CASE ShowRecent \/ AckUpTo \/ HistRestart \/ CommandLoads
    BY <2>5 DEF ShowRecent, AckUpTo, Acknowledge, HistRestart, CommandLoads
  <2>6. ASSUME NEW t \in Transports, SetSink(t) PROVE HistTypes'
    BY <2>6 DEF SetSink
  <2>7. ASSUME NEW d \in flight, SinkPanics(d) PROVE HistTypes'
    BY <2>7 DEF SinkPanics
  <2>8. ASSUME NEW ids, Ack(ids) PROVE HistTypes'
    BY <2>8 DEF Ack, Acknowledge
  <2>9. CASE UNCHANGED histVars
    BY <2>9 DEF histVars
  <2> QED
    BY <2>1, <2>2, <2>3, <2>4, <2>5, <2>6, <2>7, <2>8, <2>9 DEF HistNext
<1>2. ASSUME spoilt' = {}, sent' = 0 PROVE RingKept' /\ ShownKept'
  <2>1. CASE Deliver1 \/ Test
    BY <1>2, <2>1 DEF HistInv, Deliver1, Test, Begin, ringVars, RingKept, ShownKept
  <2>2. ASSUME NEW d \in flight, Record(d) PROVE RingKept' /\ ShownKept'
    BY <1>2, <2>2, RecordKeeps
  <2>3. CASE CommandRecords
    BY <1>2, <2>3 DEF CommandRecords, HistInv, HistTypes
  <2>4. CASE ShowRecent
    <3>1. RingKept /\ ShownKept
      BY <1>2, <2>4 DEF HistInv, ShowRecent
    <3>2. client' = lastID /\ shown' = {recorded[i] : i \in DOMAIN recorded}
      BY <2>4, <3>1, LargestIsLast DEF ShowRecent
    <3>3. UNCHANGED <<recs, lastID, file, recorded>>
      BY <2>4 DEF ShowRecent, ringVars
    <3>4. RingKept'
      BY <3>1, <3>2, <3>3 DEF RingKept
    <3>5. ShownKept'
      BY <3>1, <3>2, <3>3 DEF ShownKept
    <3> QED
      BY <3>4, <3>5
  <2>5. CASE AckUpTo
    <3>1. RingKept
      BY <1>2, <2>5 DEF HistInv, AckUpTo, Acknowledge, Save1
    <3>2. \A n \in UpTo : n <= client
      BY <3>1 DEF UpTo, RingKept
    <3> QED
      BY <1>2, <2>5, <3>2, AcknowledgeKeeps DEF AckUpTo
  <2>6. CASE HistRestart
    <3>1. RingKept /\ ShownKept
      BY <1>2, <2>6 DEF HistInv, HistRestart
    <3>2. Newest(file, RingSize) = recs
      BY <3>1, NewestWhole, RingAssumption DEF RingKept
    <3>3. UNCHANGED <<recs, lastID, file, client, shown, recorded>>
      BY <2>6, <3>1, <3>2, LargestIsLast DEF HistRestart, LoadedID
    <3> QED
      BY <3>1, <3>3 DEF RingKept, ShownKept
  <2>7. CASE CommandLoads
    BY <1>2, <2>7 DEF HistInv, CommandLoads, ringVars, RingKept, ShownKept
  <2>8. ASSUME NEW t \in Transports, SetSink(t) PROVE RingKept' /\ ShownKept'
    BY <1>2, <2>8 DEF HistInv, SetSink, ringVars, RingKept, ShownKept
  <2>9. ASSUME NEW d \in flight, SinkPanics(d) PROVE RingKept' /\ ShownKept'
    BY <1>2, <2>9 DEF HistInv, SinkPanics, ringVars, RingKept, ShownKept
  <2>10. ASSUME NEW ids, Ack(ids) PROVE RingKept' /\ ShownKept'
    BY <1>2, <2>10, AcknowledgeKeeps DEF Ack
  <2>11. CASE UNCHANGED histVars
    BY <1>2, <2>11 DEF HistInv, histVars, ringVars, RingKept, ShownKept
  <2> QED
    BY <2>1, <2>2, <2>3, <2>4, <2>5, <2>6, <2>7, <2>8, <2>9, <2>10, <2>11 DEF HistNext
<1> QED
  BY <1>1, <1>2 DEF HistInv

\* AckedWasShown: for every size of the ring and every number of alerts, restarts
\* and late deliveries, only what the page had shown is acknowledged (AckUpTo).
THEOREM AckedWasShownHolds == HistSpec => []AckedWasShown
<1>1. HistInit => HistInv
  BY RingAssumption
  DEF HistInit, HistInv, HistTypes, RingKept, ShownKept
<1>2. HistInv => AckedWasShown
  BY DEF HistInv, ShownKept, AckedWasShown
<1> QED
  BY <1>1, <1>2, HistStep, PTL DEF HistSpec
=============================================================================
