---------------------------- MODULE ControlProofs ---------------------------
(***************************************************************************)
(* Proofs about what the loop is given, the preset of the schedule, the    *)
(* files of a sensor and the duty of a curve, and about the history it     *)
(* leaves behind.  Modules Scheduler, SensorPath, CurveHold and            *)
(* HistoryStore, for every schedule, device tree, curve, set of tiers and  *)
(* sequence of reloads and restarts.                                       *)
(*                                                                         *)
(* NextIsFirst is about the operators of Next alone: where the active      *)
(* entry can change (ChangePoint), that such an instant is a candidate     *)
(* (IsCandidate) and that what lies beyond the listed days was seen a week *)
(* before (SeenBefore).  SourceFollowsTree compares the age of what is in  *)
(* use with the cycle counter (SensorInv).  HoldHonoured needs that the    *)
(* hold covers every rise and that the last automatic duty covers the hold *)
(* (RiseHeld, AutoAbove), and that a curve never leaves the range of       *)
(* duties (InterpolateRange).  HotterNotSlower puts a temperature on a     *)
(* segment of its curve (OnSegment) and compares segments by their ends.   *)
(* FrozenNoticed needs the counter of readSensors against the readings     *)
(* themselves (CountRight).                                                *)
(* EachPointOnce needs that a raw point is in no bucket before its own and *)
(* that all copies of the history agree on this (StoreInv).                *)
(***************************************************************************)
EXTENDS Scheduler, SensorPath, CurveHold, HistoryStore, SequenceTheorems,
        WellFoundedInduction, TLAPS

-----------------------------------------------------------------------------
\* A set of natural numbers that is not empty has a least member.
LEMMA LeastExists ==
  ASSUME NEW T, T \subseteq Nat, T # {}
  PROVE  \E j \in T : \A h \in T : j <= h
<1>1. IsWellFoundedOn(OpToRel(<, Nat), Nat)
  BY NatLessThanWellFounded
<1>2. PICK j \in T : \A h \in T : ~(<<h, j>> \in OpToRel(<, Nat))
  BY <1>1, WFMin
<1>3. ASSUME NEW h \in T PROVE j <= h
  <2> SUFFICES ASSUME h < j PROVE FALSE
    OBVIOUS
  <2>1. <<h, j>> \in Nat \X Nat /\ <<h, j>>[1] < <<h, j>>[2]
    OBVIOUS
  <2>2. <<h, j>> \in OpToRel(<, Nat)
    BY <2>1 DEF OpToRel
  <2> QED
    BY <2>2, <1>2
<1> QED
  BY <1>3

-----------------------------------------------------------------------------
\* Scheduler.

\* The entry being applied is the baseline, and between the unlock of evaluate
\* and the apply outside it the curves are not spoken for; otherwise they are
\* those of the baseline unless something overruled them.
SchedInv ==
  /\ applying # NoEntry => applying = baseline
  /\ applying = NoEntry /\ baseline # NoEntry /\ ~overruled
       => curves = baseline.preset

\* WindowHonoured: for every length of hour, day and week, every zone change and
\* every list of entries, the curves in effect are those of the active entry once
\* the ticker has seen the present instant (evaluate, Set).
THEOREM WindowHonouredHolds == SchedSpec => []WindowHonoured
<1>1. SchedInit => SchedInv
  BY DEF SchedInit, SchedInv
<1>2. SchedInv /\ [SchedNext]_schedVars => SchedInv'
  <2> SUFFICES ASSUME SchedInv, [SchedNext]_schedVars PROVE SchedInv'
    OBVIOUS
  <2> USE DEF SchedInv
  <2>1. CASE Tick
    BY <2>1 DEF Tick
  <2>2. CASE Evaluate
    BY <2>2 DEF Evaluate, Transition
  <2>3. CASE ApplyEntry
    BY <2>3 DEF ApplyEntry
  <2>4. CASE ManualChoice
    BY <2>4 DEF ManualChoice
  <2>5. CASE SchedRestart
    BY <2>5 DEF SchedRestart
  <2>6. ASSUME NEW es \in ReloadLists, Set(es) PROVE SchedInv'
    BY <2>6 DEF Set
  <2>7. CASE UNCHANGED schedVars
    BY <2>7 DEF schedVars
  <2> QED
    BY <2>1, <2>2, <2>3, <2>4, <2>5, <2>6, <2>7 DEF SchedNext
<1>3. SchedInv => WindowHonoured
  BY DEF SchedInv, WindowHonoured
<1> QED
  BY <1>1, <1>2, <1>3, PTL DEF SchedSpec

\* The first change Next finds is the least one.
LEMMA LeastIs ==
  ASSUME NEW T, T \subseteq Nat, T # {}
  PROVE  Least(T) \in T /\ \A h \in T : Least(T) <= h
BY LeastExists DEF Least

\* A zone rule.
IsZone(z) == z.before \in Int /\ z.after \in Int /\ z.at \in Int

\* Before the change what comes earlier is named too, after it what comes later.
LEMMA NamedSpreads ==
  ASSUME NEW z, IsZone(z), NEW s \in Int, NEW t \in Int, s <= t
  PROVE  /\ t < z.at /\ Named(z, t) => Named(z, s)
         /\ z.at <= s /\ Named(z, s) => Named(z, t)
BY DEF IsZone, Named, Date, Wall, Offset

\* Where the zone does not change every instant is named.
LEMMA NamedAlways ==
  ASSUME NEW z, IsZone(z), NEW t \in Int, z.before = z.after
  PROVE  Named(z, t)
BY DEF IsZone, Named, Date, Wall, Offset

\* Division by a positive number.
LEMMA DivMod ==
  ASSUME NEW a \in Int, NEW d \in Nat \ {0}
  PROVE  /\ a \div d \in Int /\ a % d \in 0..(d - 1)
         /\ a = d * (a \div d) + (a % d)
OBVIOUS

\* Quotient and remainder are determined.
LEMMA DivModUnique ==
  ASSUME NEW d \in Nat \ {0}, NEW q \in Int, NEW r \in 0..(d - 1)
  PROVE  (d * q + r) \div d = q /\ (d * q + r) % d = r
<1> DEFINE a == d * q + r
           p == a \div d
           m == a % d
<1>1. a \in Int /\ d * q \in Int
  OBVIOUS
<1>2. p \in Int /\ m \in 0..(d - 1) /\ a = d * p + m
  BY <1>1, DivMod
<1>3. d * p - d * q = d * (p - q)
  BY <1>2
<1> HIDE DEF p, m
<1>4. d * (p - q) = r - m
  BY <1>1, <1>2, <1>3
<1>5. ~(p - q >= 1)
  <2> SUFFICES ASSUME p - q >= 1 PROVE FALSE
    OBVIOUS
  <2>1. d * (p - q) >= d
    BY <1>2
  <2> QED
    BY <2>1, <1>4, <1>2
<1>6. ~(p - q <= -1)
  <2> SUFFICES ASSUME p - q <= -1 PROVE FALSE
    OBVIOUS
  <2>1. d * (p - q) <= -d
    BY <1>2
  <2> QED
    BY <2>1, <1>4, <1>2
<1>7. p = q
  BY <1>2, <1>5, <1>6
<1>8. m = r
  BY <1>7, <1>1, <1>2
<1> QED
  BY <1>7, <1>8 DEF p, m

\* The window boundaries of a list.
Boundaries(es) ==
  UNION {{es[i].from, es[i].to} : i \in {j \in DOMAIN es : ~es[j].fallback}}

\* The full hours of a day.
HourMarks == {h * Hour : h \in 0..((Day \div Hour) - 1)}

\* The boundaries are minutes of a day.
IsList(es) == \A i \in DOMAIN es : es[i].from \in 0..(Day - 1) /\ es[i].to \in 0..(Day - 1)

\* Which entry is active depends on the day of the week and the minute only.
LEMMA ActiveByWall ==
  ASSUME NEW es, NEW z, NEW u, NEW v,
         Weekday(z, u) = Weekday(z, v), Minute(z, u) = Minute(z, v)
  PROVE  Active(es, z, u) = Active(es, z, v)
<1>1. \A i : InWindow(es[i], z, u) <=> InWindow(es[i], z, v)
  BY DEF InWindow
<1>2. {i \in DOMAIN es : InWindow(es[i], z, u)} = {i \in DOMAIN es : InWindow(es[i], z, v)}
  BY <1>1
<1> QED
  BY <1>2 DEF Active

\* Within a day the active entry changes at a window boundary only.
LEMMA WithinDay ==
  ASSUME NEW es, IsList(es), NEW z, NEW u, NEW v, Minute(z, u) \in Int,
         Weekday(z, u) = Weekday(z, v), Minute(z, v) = Minute(z, u) + 1,
         Minute(z, v) \notin Boundaries(es)
  PROVE  Active(es, z, u) = Active(es, z, v)
<1>1. ASSUME NEW i \in DOMAIN es
      PROVE  InWindow(es[i], z, u) <=> InWindow(es[i], z, v)
  <2>1. CASE es[i].fallback
    BY <2>1 DEF InWindow
  <2>2. CASE ~es[i].fallback
    <3>1. Minute(z, v) # es[i].from /\ Minute(z, v) # es[i].to
      BY <2>2 DEF Boundaries
    <3>2. es[i].from \in Int /\ es[i].to \in Int
      BY ClockAssumption DEF IsList
    <3> QED
      BY <3>1, <3>2 DEF InWindow
  <2> QED
    BY <2>1, <2>2
<1>2. {i \in DOMAIN es : InWindow(es[i], z, u)} = {i \in DOMAIN es : InWindow(es[i], z, v)}
  BY <1>1
<1> QED
  BY <1>2 DEF Active

\* A minute later is in the same day, or it is midnight.
LEMMA MinuteLater ==
  ASSUME NEW w \in Int, (w + 1) % Day # 0
  PROVE  (w + 1) \div Day = w \div Day /\ (w + 1) % Day = (w % Day) + 1
<1> DEFINE q == w \div Day
           r == w % Day
<1>1. q \in Int /\ r \in 0..(Day - 1) /\ w = Day * q + r
  BY ClockAssumption, DivMod
<1> HIDE DEF q, r
<1>2. Day * q \in Int
  BY <1>1, ClockAssumption
<1>3. CASE r = Day - 1
  <2>1. w + 1 = Day * q + Day
    BY <1>1, <1>2, <1>3, ClockAssumption
  <2>2. Day * q + Day = Day * (q + 1)
    BY <1>1, ClockAssumption
  <2>3. 0 \in 0..(Day - 1) /\ q + 1 \in Int
    BY <1>1, ClockAssumption
  <2>4. (Day * (q + 1) + 0) % Day = 0
    BY <2>3, DivModUnique, ClockAssumption
  <2>5. Day * (q + 1) + 0 = w + 1
    BY <2>1, <2>2, <1>1, ClockAssumption
  <2> QED
    BY <2>4, <2>5
<1>4. CASE r # Day - 1
  <2>1. r + 1 \in 0..(Day - 1)
    BY <1>1, <1>4, ClockAssumption
  <2>2. w + 1 = Day * q + (r + 1)
    BY <1>1, <1>2
  <2>3. (Day * q + (r + 1)) \div Day = q /\ (Day * q + (r + 1)) % Day = r + 1
    BY <2>1, <1>1, DivModUnique, ClockAssumption
  <2> QED
    BY <2>2, <2>3 DEF q, r
<1> QED
  BY <1>3, <1>4

\* A wall time on the hour is one of the hour marks of its day.
LEMMA OnTheHour ==
  ASSUME NEW w \in Int, w % Hour = 0
  PROVE  w % Day \in HourMarks
<1> DEFINE q == w \div Day
           r == w % Day
           j == w \div Hour
           k == Day \div Hour
<1>1. q \in Int /\ r \in 0..(Day - 1) /\ w = Day * q + r
  BY ClockAssumption, DivMod
<1>2. j \in Int /\ w = Hour * j + 0
  BY ClockAssumption, DivMod
<1>3. k \in Int /\ Day = Hour * k + 0
  BY ClockAssumption, DivMod
<1> HIDE DEF q, r, j, k
<1> DEFINE h == j - k * q
<1>4. Hour * k = Day /\ Hour * j = w
  BY <1>2, <1>3, ClockAssumption
<1>5. (Hour * k) * q = Hour * (k * q)
  BY <1>1, <1>3, ClockAssumption
<1>6. k * q \in Int /\ h \in Int
  BY <1>1, <1>2, <1>3
<1>7. Hour * (j - k * q) = Hour * j - Hour * (k * q)
  BY <1>6, <1>2, ClockAssumption
<1>8. r = Hour * h
  <2>1. Day * q = Hour * (k * q)
    BY <1>4, <1>5
  <2>2. r = w - Day * q
    BY <1>1, ClockAssumption
  <2> QED
    BY <2>1, <2>2, <1>4, <1>7
<1> HIDE DEF h
<1>9. h >= 0
  <2> SUFFICES ASSUME h <= -1 PROVE FALSE
    BY <1>6
  <2>1. Hour * h <= -Hour
    BY <1>6, ClockAssumption
  <2> QED
    BY <2>1, <1>8, <1>1, ClockAssumption
<1>10. h <= k - 1
  <2> SUFFICES ASSUME h >= k PROVE FALSE
    BY <1>6, <1>3
  <2>1. Hour * h >= Hour * k
    BY <1>6, <1>3, ClockAssumption
  <2> QED
    BY <2>1, <1>8, <1>4, <1>1, ClockAssumption
<1>11. h \in 0..(k - 1) /\ h * Hour = r
  BY <1>6, <1>8, <1>9, <1>10, <1>3, ClockAssumption
<1>12. r \in {x * Hour : x \in 0..(k - 1)}
  BY <1>11, Zenon
<1> QED
  BY <1>12 DEF HourMarks, r, k

\* A later wall time is in no earlier day.
LEMMA DivMono ==
  ASSUME NEW d \in Nat \ {0}, NEW a \in Int, NEW b \in Int, a <= b
  PROVE  a \div d <= b \div d
<1> DEFINE p == a \div d
           q == b \div d
<1>1. p \in Int /\ a % d \in 0..(d - 1) /\ a = d * p + (a % d)
  BY DivMod
<1>2. q \in Int /\ b % d \in 0..(d - 1) /\ b = d * q + (b % d)
  BY DivMod
<1> HIDE DEF p, q
<1> SUFFICES ASSUME p >= q + 1 PROVE FALSE
  BY <1>1, <1>2 DEF p, q
<1>3. d * p >= d * (q + 1) /\ d * (q + 1) = d * q + d
  BY <1>1, <1>2
<1>4. d * p \in Int /\ d * q \in Int
  BY <1>1, <1>2
<1> QED
  BY <1>1, <1>2, <1>3, <1>4

\* The day of t is among those Next lists.
InSight(z, u, t) == /\ Wall(z, u) \div Day <= Wall(z, t) \div Day
                    /\ Wall(z, t) \div Day <= (Wall(z, u) \div Day) + Week + 1

\* The types of the lookahead and of wall times.
LEMMA LookaheadNat == Lookahead \in Nat
BY ClockAssumption DEF Lookahead

LEMMA WallInt == ASSUME NEW z, IsZone(z), NEW t \in Int PROVE Wall(z, t) \in Int
BY DEF Wall, Offset, IsZone

\* The days of wall times are numbers.
LEMMA DayInt ==
  ASSUME NEW z, IsZone(z), NEW t \in Int
  PROVE  Wall(z, t) \div Day \in Int
BY WallInt, DivMod, ClockAssumption

\* The day of an instant before one in sight is none that Next does not reach.
LEMMA NoLater ==
  ASSUME NEW z, IsZone(z), NEW u \in Int, NEW c \in Int, NEW t \in Int,
         u <= c, c <= t, t <= u + Lookahead, InSight(z, u, t)
  PROVE  Wall(z, c) \div Day <= (Wall(z, u) \div Day) + Week + 1
<1> DEFINE wu == Wall(z, u)
           wc == Wall(z, c)
           wt == Wall(z, t)
           q == wu \div Day
<1>1. /\ wu \in Int /\ wc \in Int /\ wt \in Int /\ q \in Int
      /\ wc \div Day \in Int /\ wt \div Day \in Int
  BY WallInt, DayInt
<1>2. CASE wc <= wt
  BY <1>1, <1>2, DivMono, ClockAssumption DEF InSight
<1>3. CASE wc > wt
  <2>1. wc <= wu + Lookahead
    BY <1>3, LookaheadNat DEF Wall, Offset, IsZone
  <2>2. wu % Day \in 0..(Day - 1) /\ wu = Day * q + (wu % Day)
    BY <1>1, DivMod, ClockAssumption
  <2> DEFINE r == wu % Day
  <2> HIDE DEF wu, wc, wt, q, r
  <2>3. wu + Lookahead = Day * (q + Week + 1) + r
    <3>1. Day * (q + Week + 1) = Day * q + (Week + 1) * Day
      BY <1>1, ClockAssumption
    <3>2. Day * q \in Int /\ (Week + 1) * Day \in Int /\ r \in Int
      BY <1>1, <2>2, ClockAssumption DEF r
    <3> QED
      BY <2>2, <3>1, <3>2 DEF r, Lookahead
  <2>4. (Day * (q + Week + 1) + r) \div Day = q + Week + 1
    <3>1. q + Week + 1 \in Int /\ r \in 0..(Day - 1)
      BY <1>1, <2>2, ClockAssumption DEF r
    <3> QED
      BY <3>1, DivModUnique, ClockAssumption
  <2>5. wc \div Day <= (wu + Lookahead) \div Day
    BY <1>1, <2>1, LookaheadNat, DivMono, ClockAssumption
  <2> QED
    BY <2>3, <2>4, <2>5 DEF wc, q, wu
<1> QED
  BY <1>1, <1>2, <1>3

\* Where the clock does not jump the active entry changes at a window boundary or
\* at an hour mark.
LEMMA ChangePoint ==
  ASSUME NEW es, IsList(es), NEW z, IsZone(z), NEW t \in Int,
         t # z.at \/ z.before = z.after, Active(es, z, t) # Active(es, z, t - 1)
  PROVE  Minute(z, t) \in HourMarks \cup Boundaries(es)
<1> DEFINE w == Wall(z, t - 1)
<1>1. w \in Int /\ Wall(z, t) = w + 1
  BY DEF Wall, Offset, IsZone
<1>2. CASE (w + 1) % Day = 0
  <2>1. 0 % Hour = 0 /\ 0 % Day = 0
    BY ClockAssumption
  <2>2. 0 \in HourMarks
    BY <2>1, OnTheHour
  <2> QED
    BY <2>2, <1>1, <1>2 DEF Minute
<1>3. CASE (w + 1) % Day # 0
  <2>1. (w + 1) \div Day = w \div Day /\ (w + 1) % Day = (w % Day) + 1
    BY <1>1, <1>3, MinuteLater
  <2>2. Weekday(z, t - 1) = Weekday(z, t) /\ Minute(z, t) = Minute(z, t - 1) + 1
    BY <1>1, <2>1 DEF Weekday, Minute
  <2>3. Minute(z, t - 1) \in Int
    BY <1>1, DivMod, ClockAssumption DEF Minute
  <2> QED
    BY <2>2, <2>3, WithinDay
<1> QED
  BY <1>2, <1>3

\* A named instant in sight at a boundary or an hour mark is a candidate.
LEMMA IsCandidate ==
  ASSUME NEW es, NEW z, IsZone(z), NEW u \in Int, NEW t \in Int, InSight(z, u, t),
         Named(z, t), Minute(z, t) \in HourMarks \cup Boundaries(es)
  PROVE  t \in Candidates(es, z, u)
<1> DEFINE q == Wall(z, u) \div Day
           p == Wall(z, t) \div Day
           d == p - q
           m == Minute(z, t)
<1>1. Wall(z, t) \in Int /\ q \in Int /\ p \in Int
  BY WallInt, DayInt
<1>2. d \in 0..(Week + 1)
  BY <1>1, ClockAssumption DEF InSight
<1>3. m \in Int /\ Wall(z, t) = Day * p + m
  <2> DEFINE w == Wall(z, t)
  <2> HIDE DEF w
  <2>1. w \in Int /\ Day \in Nat \ {0}
    BY <1>1, ClockAssumption DEF w
  <2>2. w % Day \in 0..(Day - 1) /\ w = Day * (w \div Day) + (w % Day)
    BY <2>1, DivMod
  <2>3. w % Day \in Int
    BY <2>2, <2>1
  <2> QED
    BY <2>2, <2>3, Zenon DEF w, Minute
<1>4. q + d = p
  BY <1>1
<1>5. (q + d) * Day \in Midnights(z, u)
  BY <1>2 DEF Midnights
<1> HIDE DEF p, q, d
<1>6. (q + d) * Day = Day * p
  BY <1>4, <1>1, ClockAssumption
<1>7. Wall(z, t) = (q + d) * Day + m
  BY <1>6, <1>3
<1> DEFINE W == {mid + x : mid \in Midnights(z, u), x \in HourMarks \cup Boundaries(es)}
<1>8. Wall(z, t) \in W
  BY <1>5, <1>7
<1>9. t \in {Date(z, w) : w \in W}
  BY <1>8 DEF Named
<1> QED
  BY <1>9 DEF Candidates, HourMarks, Boundaries

\* After the change, of the named instants up to one in sight the first that is on
\* the hour or a change, or the midnight that brings it in sight, is a candidate.
LEMMA InSightSoon ==
  ASSUME NEW es, NEW z, IsZone(z), NEW u \in Int, NEW c \in Int, NEW t \in Int,
         u < c, c <= t, t <= u + Lookahead, InSight(z, u, t),
         Named(z, c), Minute(z, c) \in HourMarks \cup Boundaries(es)
  PROVE  \E n \in c..t : n \in Candidates(es, z, u)
<1>1. Wall(z, c) \div Day <= (Wall(z, u) \div Day) + Week + 1
  BY NoLater
<1>2. CASE Wall(z, u) \div Day <= Wall(z, c) \div Day
  <2>1. InSight(z, u, c)
    BY <1>1, <1>2 DEF InSight
  <2>2. c \in Candidates(es, z, u)
    BY <2>1, IsCandidate
  <2> QED
    BY <2>2
<1>3. CASE ~(Wall(z, u) \div Day <= Wall(z, c) \div Day)
  <2> DEFINE q == Wall(z, u) \div Day
             wc == Wall(z, c)
             wt == Wall(z, t)
             n == c + (Day * q - wc)
  <2>1. /\ Wall(z, u) \in Int /\ wc \in Int /\ wt \in Int /\ q \in Int
        /\ wc \div Day \in Int /\ wt \div Day \in Int
    BY WallInt, DayInt
  <2>2. wc < Wall(z, u) /\ z.at <= c
    <3>1. ~(Wall(z, u) <= wc)
      BY <2>1, <1>3, DivMono, ClockAssumption
    <3> QED
      BY <3>1, <2>1 DEF Wall, Offset, IsZone
  <2>3. wt - wc = t - c
    BY <2>2 DEF Wall, Offset, IsZone
  <2>4. Day * q \in Int /\ Day * q <= wt /\ wc < Day * q
    <3> DEFINE r == wt % Day
               k == wc % Day
               p == wt \div Day
               o == wc \div Day
    <3>1. /\ r \in 0..(Day - 1) /\ wt = Day * p + r /\ k \in 0..(Day - 1)
          /\ wc = Day * o + k /\ p \in Int /\ o \in Int
      BY <2>1, DivMod, ClockAssumption
    <3>2. q <= p /\ o <= q - 1
      BY <1>3, <2>1 DEF InSight
    <3> HIDE DEF r, k, p, o, q, wt, wc
    <3>3. Day * q <= Day * p /\ Day * o <= Day * (q - 1) /\ Day * (q - 1) = Day * q - Day
      BY <3>1, <3>2, <2>1, ClockAssumption
    <3>4. Day * q \in Int /\ Day * p \in Int /\ Day * o \in Int
      BY <3>1, <2>1, ClockAssumption
    <3> QED
      BY <3>1, <3>3, <3>4, ClockAssumption
  <2> HIDE DEF q
  <2>5. n \in c..t /\ n \in Int /\ z.at <= n
    BY <2>1, <2>2, <2>3, <2>4 DEF IsZone
  <2>6. Wall(z, n) = Day * q
    BY <2>2, <2>4, <2>5 DEF Wall, Offset, IsZone
  <2>7. (Day * q + 0) \div Day = q /\ (Day * q + 0) % Day = 0
    <3>1. 0 \in 0..(Day - 1)
      BY ClockAssumption
    <3> QED
      BY <3>1, <2>1, DivModUnique, ClockAssumption
  <2>8. Wall(z, n) \div Day = q /\ Minute(z, n) = 0
    BY <2>6, <2>7, <2>4 DEF Minute
  <2>9. InSight(z, u, n)
    BY <2>8, <2>1, ClockAssumption DEF InSight, q
  <2>10. Named(z, n)
    BY <2>2, <2>5, NamedSpreads
  <2>11. 0 \in HourMarks
    <3>1. 0 % Hour = 0 /\ 0 % Day = 0
      BY ClockAssumption
    <3> QED
      BY <3>1, OnTheHour
  <2>12. n \in Candidates(es, z, u)
    BY <2>5, <2>8, <2>9, <2>10, <2>11, IsCandidate
  <2> QED
    BY <2>5, <2>12
<1> QED
  BY <1>2, <1>3

\* A listed change in sight has a candidate that shows it no later.
LEMMA ChangeFound ==
  ASSUME NEW es, IsList(es), NEW z, IsZone(z), NEW u \in Nat,
         NEW t \in (u + 1)..(u + Lookahead), InSight(z, u, t), ~Unlisted(z, t),
         Active(es, z, t) # Active(es, z, u)
  PROVE  \E c \in Candidates(es, z, u) :
           c > u /\ c <= t /\ Active(es, z, c) # Active(es, z, u)
<1> DEFINE T == {x \in (u + 1)..t : \A y \in x..t : Active(es, z, y) = Active(es, z, t)}
<1>1. t \in T /\ T \subseteq Nat
  BY LookaheadNat
<1>2. PICK s \in T : \A x \in T : s <= x
  BY <1>1, LeastExists
<1>3. /\ s \in Int /\ t \in Int /\ u < s /\ s <= t /\ t <= u + Lookahead
      /\ \A y \in s..t : Active(es, z, y) = Active(es, z, t)
  BY <1>2, LookaheadNat
<1>4. Active(es, z, s) # Active(es, z, s - 1)
  <2>1. Active(es, z, s) = Active(es, z, t)
    BY <1>3
  <2>2. CASE s - 1 = u
    BY <2>1, <2>2
  <2>3. CASE s - 1 # u
    <3>1. s - 1 \in (u + 1)..t /\ s - 1 \notin T
      BY <2>3, <1>2, <1>3
    <3>2. PICK y \in (s - 1)..t : Active(es, z, y) # Active(es, z, t)
      BY <3>1
    <3>3. y = s - 1
      BY <3>2, <1>3
    <3> QED
      BY <3>2, <3>3, <2>1
  <2> QED
    BY <2>2, <2>3
<1>5. PICK c \in s..t : Named(z, c) /\ Minute(z, c) \in HourMarks \cup Boundaries(es)
  <2>1. s # z.at \/ z.before = z.after => Minute(z, s) \in HourMarks \cup Boundaries(es)
    BY <1>3, <1>4, ChangePoint
  <2>2. CASE z.before = z.after
    BY <2>1, <2>2, <1>3, NamedAlways
  <2>3. CASE z.before # z.after /\ t < z.at
    <3>1. Named(z, t)
      BY <2>3 DEF Unlisted
    <3>2. Named(z, s) /\ s # z.at
      BY <3>1, <2>3, <1>3, NamedSpreads DEF IsZone
    <3> QED
      BY <3>2, <2>1, <1>3
  <2>4. CASE z.before # z.after /\ ~(t < z.at)
    <3>1. PICK m \in z.at..t : Wall(z, m) % Hour = 0 /\ Named(z, m)
      BY <2>4 DEF Unlisted
    <3>2. m \in Int /\ z.at <= m /\ m <= t
      BY <3>1 DEF IsZone
    <3>3. Minute(z, m) \in HourMarks
      BY <3>1, <3>2, WallInt, OnTheHour DEF Minute
    <3>4. CASE s <= m
      BY <3>1, <3>2, <3>3, <3>4, <1>3
    <3>5. CASE m < s
      <4>1. Named(z, s) /\ s # z.at
        BY <3>1, <3>2, <3>5, <1>3, NamedSpreads DEF IsZone
      <4> QED
        BY <4>1, <2>1, <1>3
    <3> QED
      BY <3>4, <3>5, <3>2, <1>3
  <2> QED
    BY <2>2, <2>3, <2>4
<1>6. c \in Int /\ s <= c /\ c <= t
  BY <1>3
<1>7. PICK n \in c..t : n \in Candidates(es, z, u)
  BY <1>3, <1>5, <1>6, InSightSoon
<1>8. n \in s..t /\ n > u /\ n <= t
  BY <1>3, <1>6, <1>7
<1> QED
  BY <1>3, <1>7, <1>8

\* A week earlier on the wall clock the same entry is active.
LEMMA WeekEarlier ==
  ASSUME NEW es, NEW z, NEW s, NEW t, Wall(z, t) \in Int,
         Wall(z, s) = Wall(z, t) - Week * Day
  PROVE  /\ Active(es, z, s) = Active(es, z, t)
         /\ Wall(z, s) \div Day = (Wall(z, t) \div Day) - Week
<1> DEFINE w == Wall(z, t)
           q == w \div Day
           r == w % Day
           v == w - Week * Day
<1>1. q \in Int /\ r \in 0..(Day - 1) /\ w = Day * q + r
  BY ClockAssumption, DivMod
<1>2. Week \in Int /\ Day \in Int
  BY ClockAssumption
<1> HIDE DEF q, r
<1>3. v = Day * (q - Week) + r
  <2>1. Day * (q - Week) = Day * q - Week * Day
    BY <1>1, <1>2
  <2>2. Day * q \in Int /\ Week * Day \in Int
    BY <1>1, <1>2
  <2> QED
    BY <1>1, <2>1, <2>2
<1>4. v \div Day = q - Week /\ v % Day = r
  <2>1. q - Week \in Int
    BY <1>1, <1>2
  <2>2. (Day * (q - Week) + r) \div Day = q - Week /\ (Day * (q - Week) + r) % Day = r
    BY <2>1, <1>1, DivModUnique, ClockAssumption
  <2> QED
    BY <2>2, <1>3
<1>5. (q - Week) % Week = q % Week
  <2> DEFINE a == q \div Week
             b == q % Week
  <2>1. a \in Int /\ b \in 0..(Week - 1) /\ q = Week * a + b
    BY <1>1, ClockAssumption, DivMod
  <2> HIDE DEF a, b
  <2>2. q - Week = Week * (a - 1) + b
    <3>1. Week * (a - 1) = Week * a - Week
      BY <2>1, <1>2
    <3>2. Week * a \in Int
      BY <2>1, <1>2
    <3> QED
      BY <2>1, <3>1, <3>2, <1>2
  <2>3. a - 1 \in Int
    BY <2>1
  <2>4. (Week * (a - 1) + b) % Week = b
    BY <2>1, <2>3, DivModUnique, ClockAssumption
  <2> QED
    BY <2>2, <2>4 DEF b
<1>6. Weekday(z, s) = Weekday(z, t) /\ Minute(z, s) = Minute(z, t)
  BY <1>4, <1>5 DEF Weekday, Minute, q, r
<1> QED
  BY <1>4, <1>6, ActiveByWall DEF q

\* What is out of sight was in sight a week earlier.
LEMMA SeenBefore ==
  ASSUME NEW es, NEW z, IsZone(z), z.after - z.before <= Day, NEW u \in Int,
         NEW t \in (u + 1)..(u + Lookahead),
         Wall(z, t) \div Day > (Wall(z, u) \div Day) + Week + 1,
         NEW s \in (u + 1)..t, Wall(z, s) = Wall(z, t) - Week * Day
  PROVE  InSight(z, u, s) /\ Active(es, z, s) = Active(es, z, t)
<1> DEFINE wu == Wall(z, u)
           wt == Wall(z, t)
           w == wt - Week * Day
           q == wu \div Day
           p == wt \div Day
<1>1. /\ t \in Int /\ u < t /\ t <= u + Lookahead /\ wu \in Int /\ wt \in Int
      /\ Week \in Nat /\ Week >= 1 /\ Day \in Nat /\ Day >= 1 /\ Week * Day \in Nat
      /\ Lookahead = Week * Day + Day /\ w \in Int
  BY LookaheadNat, WallInt, ClockAssumption DEF Lookahead
<1>2. /\ q \in Int /\ wu % Day \in 0..(Day - 1) /\ wu = Day * q + (wu % Day)
      /\ p \in Int /\ wt % Day \in 0..(Day - 1) /\ wt = Day * p + (wt % Day)
  <2>1. \A a \in Int : /\ a \div Day \in Int /\ a % Day \in 0..(Day - 1)
                       /\ a = Day * (a \div Day) + (a % Day)
    BY DivMod, ClockAssumption
  <2> HIDE DEF wu, wt
  <2> QED
    BY <2>1, <1>1, Zenon
<1>3. p > q + Week + 1
  BY DEF p, q, wt, wu
<1> HIDE DEF q, p
<1>4. Day * p \in Int /\ Day * q \in Int /\ Day * p >= Day * q + Week * Day + Day + Day
  <2>1. Day * p >= Day * (q + Week + 2)
    BY <1>1, <1>2, <1>3
  <2>2. Day * (q + Week + 2) = Day * q + Week * Day + Day + Day
    BY <1>1, <1>2
  <2> QED
    BY <2>1, <2>2, <1>1, <1>2
<1> DEFINE x == Day * p
           y == Day * q
           g == Week * Day
<1>5. x \in Int /\ y \in Int /\ g \in Nat /\ x >= y + g + Day + Day
      /\ wu = y + (wu % Day) /\ wt = x + (wt % Day) /\ Lookahead = g + Day
  BY <1>1, <1>2, <1>4
<1>6. w = wt - g
  OBVIOUS
<1> HIDE DEF x, y, g, wu, wt, w
<1>7. wt > wu + g + Day
  BY <1>1, <1>2, <1>5
<1>8. u < z.at /\ z.at <= t /\ wu = u + z.before /\ wt = t + z.after /\ z.before < z.after
  BY <1>1, <1>5, <1>7 DEF wu, wt, Wall, Offset, IsZone
<1>9. w > wu + Day /\ w <= wu + Day + (z.after - z.before)
  BY <1>1, <1>5, <1>6, <1>7, <1>8 DEF IsZone
<1>10. Active(es, z, s) = Active(es, z, t) /\ Wall(z, s) \div Day = p - Week
  BY <1>1, WeekEarlier DEF wt, p
<1>11. p - Week <= q + 2
  <2> SUFFICES ASSUME p - Week >= q + 3 PROVE FALSE
    BY <1>1, <1>2
  <2>1. Day * p >= Day * (q + Week + 3)
    BY <1>1, <1>2
  <2>2. Day * (q + Week + 3) = Day * q + Week * Day + Day + Day + Day
    BY <1>1, <1>2
  <2>3. x >= y + g + Day + Day + Day
    BY <2>1, <2>2, <1>1, <1>2 DEF x, y, g
  <2> QED
    BY <2>3, <1>1, <1>2, <1>5, <1>6, <1>9 DEF IsZone
<1>12. InSight(z, u, s)
  BY <1>3, <1>10, <1>11, <1>1, <1>2 DEF InSight, q, wu
<1> QED
  BY <1>10, <1>12

\* Next, for one list, zone and instant.
LEMMA NextFirst ==
  ASSUME NEW es, IsList(es), NEW z, IsZone(z), z.after - z.before <= Day,
         NEW u \in Nat
  PROVE  LET first == NextSwitch(es, z, u)
         IN  /\ first # u => /\ first \in (u + 1)..(u + Lookahead)
                            /\ Active(es, z, first) # Active(es, z, u)
             /\ \A t \in (u + 1)..(u + Lookahead) :
                  /\ Active(es, z, t) # Active(es, z, u)
                  /\ ~Unlisted(z, t) /\ ~OutOfSight(z, u, t)
                  => first # u /\ first <= t
<1> DEFINE C == {t \in Candidates(es, z, u) : /\ t > u /\ t <= u + Lookahead
                                              /\ Active(es, z, t) # Active(es, z, u)}
           first == NextSwitch(es, z, u)
<1>1. \A w \in Int : Date(z, w) \in Int
  BY DEF Date, Offset, IsZone
<1>2. Candidates(es, z, u) \subseteq Int
  <2>1. Midnights(z, u) \subseteq Int
    <3>1. Wall(z, u) \in Int
      BY WallInt
    <3>2. Wall(z, u) \div Day \in Int
      BY <3>1, DivMod, ClockAssumption
    <3> QED
      BY <3>2, ClockAssumption DEF Midnights
  <2>2. Boundaries(es) \subseteq Int
    BY ClockAssumption DEF Boundaries, IsList
  <2>3. HourMarks \subseteq Int
    BY ClockAssumption DEF HourMarks
  <2> DEFINE W == {mid + x : mid \in Midnights(z, u), x \in HourMarks \cup Boundaries(es)}
  <2>4. W \subseteq Int
    BY <2>1, <2>2, <2>3
  <2>5. Candidates(es, z, u) = {Date(z, w) : w \in W}
    BY DEF Candidates, HourMarks, Boundaries
  <2> HIDE DEF W
  <2> QED
    BY <2>4, <2>5, <1>1
<1>3. C \subseteq Nat
  BY <1>2
<1>4. first = IF C = {} THEN u ELSE Least(C)
  BY DEF NextSwitch
<1>5. C # {} => first \in C /\ \A h \in C : first <= h
  BY <1>3, <1>4, LeastIs
<1> HIDE DEF first
<1>6. first # u => /\ first \in (u + 1)..(u + Lookahead)
                  /\ Active(es, z, first) # Active(es, z, u)
  BY <1>3, <1>4, <1>5, LookaheadNat
<1>7. ASSUME NEW t \in (u + 1)..(u + Lookahead), InSight(z, u, t), ~Unlisted(z, t),
             Active(es, z, t) # Active(es, z, u)
      PROVE  first # u /\ first <= t
  <2>1. PICK c \in Candidates(es, z, u) :
               c > u /\ c <= t /\ Active(es, z, c) # Active(es, z, u)
    BY <1>7, ChangeFound
  <2>2. c \in C
    BY <2>1, <1>2, LookaheadNat
  <2>3. first \in C /\ first <= c
    BY <2>2, <1>5
  <2> QED
    BY <2>1, <2>2, <2>3, <1>3, LookaheadNat
<1>8. ASSUME NEW t \in (u + 1)..(u + Lookahead), ~OutOfSight(z, u, t), ~Unlisted(z, t),
             Active(es, z, t) # Active(es, z, u)
      PROVE  first # u /\ first <= t
  <2>1. t \in Int /\ Wall(z, t) \div Day \in Int /\ Wall(z, u) \div Day \in Int
    BY LookaheadNat, DayInt
  <2>2. CASE InSight(z, u, t)
    BY <2>2, <1>7, <1>8
  <2>3. CASE ~InSight(z, u, t)
    <3>1. Wall(z, t) \div Day > (Wall(z, u) \div Day) + Week + 1
      BY <2>1, <2>3, <1>8, ClockAssumption DEF InSight, OutOfSight
    <3>2. PICK s \in (u + 1)..t : /\ Wall(z, s) = Wall(z, t) - Week * Day
                                  /\ ~Unlisted(z, s)
      BY <3>1, <1>8, Zenon DEF OutOfSight
    <3>3. InSight(z, u, s) /\ Active(es, z, s) = Active(es, z, t)
      BY <3>1, <3>2, SeenBefore
    <3>4. s \in (u + 1)..(u + Lookahead) /\ s <= t /\ s \in Int
      BY <3>2, LookaheadNat
    <3>5. first # u /\ first <= s
      BY <3>2, <3>3, <3>4, <1>7, <1>8
    <3>6. first \in Int
      BY <3>5, <1>6, LookaheadNat
    <3> QED
      BY <3>4, <3>5, <3>6, <2>1
  <2> QED
    BY <2>2, <2>3
<1> QED
  BY <1>6, <1>8 DEF first

\* NextIsFirst: for every length of hour, day and week, every list of entries and
\* every change of the zone, "next" is the first change of the active entry that is
\* listed and in sight (Next): the candidates are enough because the active entry
\* is a function of the wall clock that moves at a window boundary or where the
\* clock jumps, and after a jump the first named full hour shows it.
THEOREM NextIsFirstHolds == SchedSpec => []NextIsFirst
<1> DEFINE Inv == now \in Nat /\ zone \in ZoneRules /\ entries \in EntryLists
<1>1. SchedInit => Inv
  BY DEF SchedInit
<1>2. Inv /\ [SchedNext]_schedVars => Inv'
  BY ListsAssumption DEF SchedNext, Tick, Evaluate, ApplyEntry, ManualChoice, SchedRestart,
     Set, schedVars
<1>3. Inv => NextIsFirst
  <2> SUFFICES ASSUME Inv PROVE NextIsFirst
    OBVIOUS
  <2>1. IsZone(zone) /\ zone.after - zone.before <= Day
    BY ZoneAssumption DEF IsZone
  <2>2. IsList(entries)
    BY ListsAssumption DEF IsList
  <2> QED
    BY <2>1, <2>2, NextFirst DEF NextIsFirst
<1> QED
  BY <1>1, <1>2, <1>3, PTL DEF SchedSpec


-----------------------------------------------------------------------------
\* SensorPath.

\* What ids resolve to depends on the tree alone.
LEMMA ParseStill ==
  ASSUME tree' = tree
  PROVE  /\ \A c : Parse(c)' = Parse(c)
         /\ \A c : PartCeilings(c)' = PartCeilings(c)
         /\ \A p : FilesOf(p)' = FilesOf(p)
<1>1. \A p : FilesOf(p)' = FilesOf(p)
  BY DEF FilesOf, FindByName, First, DiskHwmon
<1>2. \A c : Parse(c)' = Parse(c)
  BY <1>1 DEF Parse
<1>3. \A c : PartCeilings(c)' = PartCeilings(c)
  <2>1. DiskHwmon' = DiskHwmon
    BY DEF DiskHwmon, First
  <2>2. DiskKind' = DiskKind
    BY <2>1 DEF DiskKind
  <2>3. \A p : SingleCeiling(p)' = SingleCeiling(p)
    BY <2>2, Zenon DEF SingleCeiling
  <2> QED
    BY <2>3, Zenon DEF PartCeilings
<1> QED
  BY <1>1, <1>2, <1>3

\* Parse looks at the parts of a configuration only.
LEMMA ParseOfParts ==
  ASSUME NEW c, NEW d, c.parts = d.parts
  PROVE  Parse(c) = Parse(d)
BY DEF Parse, Resolved

\* The channel is read from what its id names now.
Fresh == Parse(scfg) # <<>> => source = Parse(scfg) /\ partCeil = PartCeilings(scfg)

\* A watched id without files names no device now.
WatchFresh == watch.id # NoWatch /\ watch.files = {} => FilesOf(watch.id) = {}

\* What is in use went stale after the last look at the earliest: the tree has been
\* quiet for fewer cycles than the counter has run since.  In the cycle that looks
\* again it can only be stale by a change within that cycle.
SensorInv ==
  /\ cyc \in 0..ResolveEvery /\ quiet \in -1..ResolveEvery
  /\ Fresh \/ quiet < cyc
  /\ cyc = ResolveEvery /\ at \in {"retry", "read", "watch"} /\ ~Fresh => quiet = -1
  /\ WatchFresh \/ quiet < cyc

\* reresolve leaves what the ids name now.
LEMMA LookAgainFresh ==
  ASSUME tree' = tree, scfg' = scfg, LookAgain PROVE Fresh'
BY ParseStill DEF LookAgain, Fresh

\* Without a change of tree, configuration or source nothing goes stale.
LEMMA FreshStill ==
  ASSUME tree' = tree, scfg' = scfg, source' = source, partCeil' = partCeil
  PROVE  Fresh' <=> Fresh
BY ParseStill DEF Fresh

\* The same for the watched id.
LEMMA WatchStill ==
  ASSUME tree' = tree, watch' = watch
  PROVE  WatchFresh' <=> WatchFresh
BY ParseStill DEF WatchFresh

\* reresolve is due when the counter has reached ResolveEvery.
LEMMA DueAt ==
  ASSUME cyc \in 0..ResolveEvery
  PROVE  Due <=> cyc = ResolveEvery
BY SensorBoundsAssumption DEF Due

\* SourceFollowsTree: for every ResolveEvery, every device tree and every set of
\* configurations, files and ceilings in use are those of the present devices
\* once the tree has been still for that many cycles (reresolve, buildWatched).
THEOREM SourceFollowsTreeHolds == SensorSpec => []SourceFollowsTree
<1>1. SensorInit => SensorInv
  BY SensorBoundsAssumption DEF SensorInit, SensorInv, Fresh, WatchFresh
<1>2. SensorInv /\ [SensorNext]_sensorVars => SensorInv'
  <2> SUFFICES ASSUME SensorInv, [SensorNext]_sensorVars PROVE SensorInv'
    OBVIOUS
  <2> USE SensorBoundsAssumption
  <2>1. ASSUME NEW d \in Directories, NEW dev \in Devices(d), TreeChanges(d, dev)
        PROVE  SensorInv'
    BY <2>1 DEF TreeChanges, SensorInv
  <2>2. ASSUME NEW c \in SensorConfigs, NewConfig(c) PROVE SensorInv'
    BY <2>2, FreshStill, WatchStill DEF NewConfig, SensorInv, watchVars
  <2>3. ASSUME NEW p, SetWatched(p) PROVE SensorInv'
    BY <2>3, FreshStill, WatchStill DEF SetWatched, SensorInv, chanVars
  <2>4. CASE BeginCycle
    <3>1. Fresh => Fresh'
      <4>1. CASE newCfg = {} /\ UNCHANGED <<scfg, source, partCeil, parts>>
        BY <2>4, <4>1, FreshStill DEF BeginCycle
      <4>2. ASSUME NEW c \in newCfg, SwapSensor(c) PROVE Fresh => Fresh'
        BY <2>4, <4>2, ParseStill, ParseOfParts DEF BeginCycle, SwapSensor, Fresh
      <4> QED
        BY <2>4, <4>1, <4>2 DEF BeginCycle
    <3>2. WatchFresh => WatchFresh'
      BY <2>4, ParseStill DEF BeginCycle, Rebuilt, WatchFresh
    <3> QED
      BY <2>4, <3>1, <3>2 DEF BeginCycle, SensorInv
  <2>5. CASE Reresolve
    <3>1. WatchFresh' <=> WatchFresh
      BY <2>5, WatchStill DEF Reresolve, watchVars
    <3>2. CASE Due /\ LookAgain
      BY <2>5, <3>1, <3>2, LookAgainFresh DEF Reresolve, SensorInv
    <3>3. CASE ~Due /\ UNCHANGED <<source, partCeil>>
      BY <2>5, <3>1, <3>3, DueAt, FreshStill DEF Reresolve, SensorInv
    <3> QED
      BY <2>5, <3>2, <3>3 DEF Reresolve
  <2>6. CASE Retry
    <3>1. WatchFresh' <=> WatchFresh
      BY <2>6, WatchStill DEF Retry, watchVars
    <3>2. CASE LookAgain
      BY <2>6, <3>1, <3>2, LookAgainFresh DEF Retry, SensorInv
    <3>3. CASE UNCHANGED <<source, partCeil>>
      BY <2>6, <3>1, <3>3, FreshStill DEF Retry, SensorInv
    <3> QED
      BY <2>6, <3>2, <3>3 DEF Retry
  <2>7. ASSUME NEW broken, ReadSensor(broken) PROVE SensorInv'
    <3>1. WatchFresh' <=> WatchFresh
      BY <2>7, WatchStill DEF ReadSensor, watchVars
    <3>2. CASE LookAgain
      BY <2>7, <3>1, <3>2, LookAgainFresh DEF ReadSensor, SensorInv
    <3>3. CASE UNCHANGED <<source, partCeil>>
      BY <2>7, <3>1, <3>3, FreshStill DEF ReadSensor, SensorInv
    <3> QED
      BY <2>7, <3>2, <3>3 DEF ReadSensor
  <2>8. ASSUME NEW w \in BOOLEAN, EndCycle(w) PROVE SensorInv'
    <3>1. Fresh => Fresh'
      BY <2>8, FreshStill, LookAgainFresh DEF EndCycle
    <3>2. WatchFresh => WatchFresh'
      BY <2>8, ParseStill DEF EndCycle, WatchedAgain, WatchFresh
    <3>3. Due => WatchFresh'
      BY <2>8, ParseStill DEF EndCycle, WatchedAgain, WatchFresh
    <3> QED
      BY <2>8, <3>1, <3>2, <3>3, DueAt DEF EndCycle, SensorInv
  <2>9. CASE UNCHANGED sensorVars
    BY <2>9, FreshStill, WatchStill DEF sensorVars, chanVars, watchVars, SensorInv
  <2> QED
    BY <2>1, <2>2, <2>3, <2>4, <2>5, <2>6, <2>7, <2>8, <2>9 DEF SensorNext
<1>3. SensorInv => SourceFollowsTree
  BY SensorBoundsAssumption DEF SensorInv, SourceFollowsTree, Fresh, WatchFresh
<1> QED
  BY <1>1, <1>2, <1>3, PTL DEF SensorSpec

-----------------------------------------------------------------------------
\* CurveHold: the duty of a curve.

\* The rounded value between two duties is a duty: the division of Interpolate
\* never leaves the range, for any two points and any place between them.
LEMMA Rounded ==
  ASSUME NEW a \in 0..MaxDuty, NEW b \in 0..MaxDuty, NEW w \in Nat \ {0},
         NEW x \in 0..w
  PROVE  (2 * (a * w + x * (b - a)) + w) \div (2 * w) \in 0..MaxDuty
<1> DEFINE v == a * w + x * (b - a)
           n == 2 * v + w
           d == 2 * w
<1>1. v = a * (w - x) + b * x
  OBVIOUS
<1>2. a * (w - x) >= 0 /\ b * x >= 0
  BY DEF MaxDuty
<1>3. a * (w - x) <= 255 * (w - x) /\ b * x <= 255 * x
  BY DEF MaxDuty
<1>4. v \in Int /\ v >= 0 /\ v <= 255 * w
  BY <1>1, <1>2, <1>3 DEF MaxDuty
<1>5. n \in Int /\ n >= 0 /\ n < 256 * d
  BY <1>4
<1> HIDE DEF v, n
<1>6. d \in Nat \ {0} /\ n < 256 * d
  BY <1>5
<1> HIDE DEF d
<1>7. n \div d \in 0..255
  <2> DEFINE q == n \div d
  <2>1. q \in Int /\ d * q <= n /\ n < d * (q + 1)
    BY <1>5, <1>6
  <2> HIDE DEF q
  <2>2. q >= 0
    <3> SUFFICES ASSUME q + 1 <= 0 PROVE FALSE
      BY <2>1
    <3>1. d * (q + 1) <= 0
      BY <2>1, <1>6
    <3> QED
      BY <3>1, <2>1, <1>5, <1>6
  <2>3. q <= 255
    <3> SUFFICES ASSUME q >= 256 PROVE FALSE
      BY <2>1
    <3>1. d * q >= d * 256
      BY <2>1, <1>6
    <3> QED
      BY <3>1, <2>1, <1>5, <1>6
  <2> QED
    BY <2>1, <2>2, <2>3 DEF q
<1> QED
  BY <1>7 DEF v, n, d, MaxDuty

\* Between two points of a curve the duty is in range.
LEMMA BetweenRange ==
  ASSUME NEW p \in Int \X (0..MaxDuty), NEW q \in Int \X (0..MaxDuty), NEW t \in Int,
         t > 1000 * p[1], t <= 1000 * q[1]
  PROVE  Between(p, q, t) \in 0..MaxDuty
<1> DEFINE w == 1000 * (q[1] - p[1])
           x == t - 1000 * p[1]
<1>1. w \in Nat \ {0} /\ x \in 0..w
  OBVIOUS
<1>2. p[2] \in 0..MaxDuty /\ q[2] \in 0..MaxDuty
  OBVIOUS
<1>3. (2 * (p[2] * w + x * (q[2] - p[2])) + w) \div (2 * w) \in 0..MaxDuty
  <2> HIDE DEF w, x
  <2> QED
    BY <1>1, <1>2, Rounded
<1> QED
  BY <1>1, <1>3 DEF Between

\* So it is on the whole curve, for every curve and temperature (Interpolate).
LEMMA InterpolateRange ==
  ASSUME NEW curve \in Seq(Int \X (0..MaxDuty)), NEW t \in Int
  PROVE  Interpolate(curve, t) \in 0..MaxDuty
<1> DEFINE k == Len(curve)
           reached == {i \in 1..k : t <= 1000 * curve[i][1]}
           i == CHOOSE j \in reached : \A h \in reached : j <= h
<1>1. \A j \in 1..k : curve[j] \in Int \X (0..MaxDuty)
  OBVIOUS
<1>2. k \in Nat
  OBVIOUS
<1>3. CASE k = 0
  BY <1>3 DEF Interpolate, MaxDuty
<1>4. CASE k # 0 /\ t <= 1000 * curve[1][1]
  BY <1>1, <1>2, <1>4 DEF Interpolate
<1>5. CASE k # 0 /\ ~(t <= 1000 * curve[1][1]) /\ t >= 1000 * curve[k][1]
  BY <1>1, <1>2, <1>5 DEF Interpolate
<1>6. CASE k # 0 /\ ~(t <= 1000 * curve[1][1]) /\ ~(t >= 1000 * curve[k][1])
  <2>1. k \in reached /\ reached \subseteq Nat
    BY <1>1, <1>2, <1>6
  <2>2. i \in reached /\ \A h \in reached : i <= h
    <3> HIDE DEF reached
    <3>1. \E j \in reached : \A h \in reached : j <= h
      BY <2>1, LeastExists
    <3> QED
      BY <3>1
  <2>3. i \in 1..k /\ t <= 1000 * curve[i][1]
    BY <2>2
  <2> HIDE DEF i
  <2>4. i # 1
    BY <2>3, <1>6
  <2>5. i - 1 \in 1..k
    BY <2>3, <2>4, <1>2
  <2>6. i - 1 \notin reached
    BY <2>2, <2>3
  <2>7. ~(t <= 1000 * curve[i - 1][1])
    BY <2>5, <2>6
  <2>8. curve[i - 1] \in Int \X (0..MaxDuty) /\ curve[i] \in Int \X (0..MaxDuty)
    BY <2>3, <2>5, <1>1
  <2>9. t > 1000 * curve[i - 1][1]
    BY <2>7, <2>8
  <2>10. Between(curve[i - 1], curve[i], t) \in 0..MaxDuty
    <3> HIDE DEF k, reached
    <3> QED
      BY <2>3, <2>8, <2>9, BetweenRange
  <2> QED
    BY <2>10, <1>6 DEF Interpolate, i
<1> QED
  BY <1>3, <1>4, <1>5, <1>6

-----------------------------------------------------------------------------
\* CurveHold: a curve that ValidateCurve accepts rises with the temperature.

\* The parts of a point are integers.
LEMMA PointTypes ==
  ASSUME NEW curve \in Seq(Int \X (0..MaxDuty)), NEW h \in 1..Len(curve)
  PROVE  curve[h][1] \in Int /\ curve[h][2] \in Int
<1>1. curve[h] \in Int \X (0..MaxDuty)
  OBVIOUS
<1> DEFINE x == curve[h][1]
           y == curve[h][2]
<1>2. x \in Int /\ y \in 0..MaxDuty
  BY <1>1
<1> HIDE DEF x, y
<1>3. x \in Int /\ y \in Int
  BY <1>2 DEF MaxDuty
<1> QED
  BY <1>3 DEF x, y

\* Points further apart are in the same order (the check compares neighbours).
LEMMA PointsAscend ==
  ASSUME NEW curve \in Seq(Int \X (0..MaxDuty)), ValidCurve(curve),
         NEW i \in 1..Len(curve), NEW j \in 1..Len(curve), i <= j
  PROVE  curve[i][1] <= curve[j][1] /\ curve[i][2] <= curve[j][2]
<1> DEFINE k == Len(curve)
           Below(h) == curve[i][1] <= curve[h][1] /\ curve[i][2] <= curve[h][2]
           broken == {h \in i..k : ~Below(h)}
<1>1. k \in Nat
  OBVIOUS
<1>2. \A h \in 1..k : curve[h][1] \in Int /\ curve[h][2] \in Int
  BY PointTypes
<1>3. SUFFICES ASSUME broken # {} PROVE FALSE
  <2>1. j \in i..k
    BY <1>1
  <2> QED
    BY <2>1, <1>3
<1>4. PICK h \in broken : \A g \in broken : h <= g
  <2>1. broken \subseteq Nat
    BY <1>1
  <2> HIDE DEF broken
  <2> QED
    BY <2>1, <1>3, LeastExists
<1>5. h \in i..k /\ ~Below(h)
  BY <1>4
<1>6. h # i
  BY <1>5, <1>2
<1>7. h - 1 \in i..k /\ h \in 2..k
  BY <1>5, <1>6, <1>1
<1>8. Below(h - 1)
  <2> SUFFICES ASSUME ~Below(h - 1) PROVE FALSE
    OBVIOUS
  <2>1. h - 1 \in broken
    BY <1>7
  <2>2. h <= h - 1
    BY <2>1, <1>4
  <2> QED
    BY <2>2, <1>5
<1>9. curve[h - 1][1] < curve[h][1] /\ curve[h - 1][2] <= curve[h][2]
  BY <1>7 DEF ValidCurve
<1>10. h - 1 \in 1..k /\ h \in 1..k
  <2>1. i \in 1..k
    OBVIOUS
  <2> HIDE DEF k, broken
  <2> QED
    BY <2>1, <1>7, <1>1
<1>11. Below(h)
  <2> DEFINE ti == curve[i][1]
             tg == curve[h - 1][1]
             th == curve[h][1]
             di == curve[i][2]
             dg == curve[h - 1][2]
             dh == curve[h][2]
  <2>1. i \in 1..k
    OBVIOUS
  <2>2. ti \in Int /\ tg \in Int /\ th \in Int /\ di \in Int /\ dg \in Int /\ dh \in Int
    BY <2>1, <1>10, <1>2, Zenon
  <2>3. ti <= tg /\ tg < th /\ di <= dg /\ dg <= dh
    BY <1>8, <1>9
  <2> HIDE DEF ti, tg, th, di, dg, dh
  <2>4. ti <= th
    BY <2>2, <2>3
  <2>5. di <= dh
    BY <2>2, <2>3
  <2> QED
    BY <2>4, <2>5 DEF ti, th, di, dh
<1> QED
  BY <1>11, <1>5

\* The value between two points lies between their duties and does not fall.
LEMMA RoundedMonotone ==
  ASSUME NEW a \in 0..MaxDuty, NEW b \in 0..MaxDuty, a <= b, NEW w \in Nat \ {0},
         NEW x \in 0..w, NEW y \in 0..w, x <= y
  PROVE  /\ a <= (2 * (a * w + x * (b - a)) + w) \div (2 * w)
         /\ (2 * (a * w + x * (b - a)) + w) \div (2 * w)
              <= (2 * (a * w + y * (b - a)) + w) \div (2 * w)
         /\ (2 * (a * w + y * (b - a)) + w) \div (2 * w) <= b
<1> DEFINE lo == a * w
           hi == b * w
           v == a * w + x * (b - a)
           z == a * w + y * (b - a)
           d == 2 * w
<1>1. a \in Nat /\ b \in Nat
  BY DEF MaxDuty
<1>2. lo \in Int /\ hi \in Int /\ v \in Int /\ z \in Int /\ d \in Nat \ {0}
  BY <1>1
<1>3. lo <= v /\ v <= z /\ z <= hi
  <2> DEFINE s == b - a
  <2>1. s \in Nat
    BY <1>1
  <2>2. hi = lo + w * s
    BY <1>1
  <2> HIDE DEF s
  <2>3. 0 <= x * s /\ x * s <= y * s /\ y * s <= w * s
    BY <2>1
  <2>4. v = lo + x * s /\ z = lo + y * s
    BY DEF s
  <2>5. x * s \in Int /\ y * s \in Int /\ w * s \in Int
    BY <2>1
  <2> QED
    BY <2>2, <2>3, <2>4, <2>5, <1>2
<1>4. 2 * lo + w = d * a + w /\ 2 * hi + w = d * b + w
  BY <1>1
<1>5. w \in 0..(d - 1)
  OBVIOUS
<1> HIDE DEF lo, hi, v, z, d
<1>6. (2 * lo + w) \div d = a
  BY <1>1, <1>2, <1>4, <1>5, DivModUnique
<1>7. (2 * hi + w) \div d = b
  BY <1>1, <1>2, <1>4, <1>5, DivModUnique
<1>8. (2 * lo + w) \div d <= (2 * v + w) \div d
  <2>1. 2 * lo + w \in Int /\ 2 * v + w \in Int /\ 2 * lo + w <= 2 * v + w
    BY <1>2, <1>3
  <2> QED
    BY <2>1, <1>2, DivMono
<1>9. (2 * v + w) \div d <= (2 * z + w) \div d
  <2>1. 2 * v + w \in Int /\ 2 * z + w \in Int /\ 2 * v + w <= 2 * z + w
    BY <1>2, <1>3
  <2> QED
    BY <2>1, <1>2, DivMono
<1>10. (2 * z + w) \div d <= (2 * hi + w) \div d
  <2>1. 2 * z + w \in Int /\ 2 * hi + w \in Int /\ 2 * z + w <= 2 * hi + w
    BY <1>2, <1>3
  <2> QED
    BY <2>1, <1>2, DivMono
<1> QED
  BY <1>6, <1>7, <1>8, <1>9, <1>10 DEF v, z, d

LEMMA BetweenMonotone ==
  ASSUME NEW p \in Int \X (0..MaxDuty), NEW q \in Int \X (0..MaxDuty),
         p[2] <= q[2], NEW t \in Int, NEW u \in Int,
         1000 * p[1] < t, t <= u, u <= 1000 * q[1]
  PROVE  /\ p[2] <= Between(p, q, t)
         /\ Between(p, q, t) <= Between(p, q, u)
         /\ Between(p, q, u) <= q[2]
<1> DEFINE w == 1000 * (q[1] - p[1])
           x == t - 1000 * p[1]
           y == u - 1000 * p[1]
           a == p[2]
           b == q[2]
<1>1. w \in Nat \ {0} /\ x \in 0..w /\ y \in 0..w /\ x <= y
  OBVIOUS
<1>2. a \in 0..MaxDuty /\ b \in 0..MaxDuty /\ a <= b
  OBVIOUS
<1>3. /\ a <= (2 * (a * w + x * (b - a)) + w) \div (2 * w)
      /\ (2 * (a * w + x * (b - a)) + w) \div (2 * w)
           <= (2 * (a * w + y * (b - a)) + w) \div (2 * w)
      /\ (2 * (a * w + y * (b - a)) + w) \div (2 * w) <= b
  <2> HIDE DEF w, x, y, a, b
  <2> QED
    BY <1>1, <1>2, RoundedMonotone
<1> QED
  BY <1>1, <1>3 DEF Between

\* A temperature inside the curve, and a segment that it is on.
Inside(curve, t) == 1000 * curve[1][1] < t /\ t < 1000 * curve[Len(curve)][1]
Segment(curve, t, i) ==
  /\ 1000 * curve[i - 1][1] < t /\ t <= 1000 * curve[i][1]
  /\ Interpolate(curve, t) = Between(curve[i - 1], curve[i], t)

\* What Interpolate takes for a temperature inside the curve: the segment that
\* the temperature is on.
LEMMA OnSegment ==
  ASSUME NEW curve \in Seq(Int \X (0..MaxDuty)), ValidCurve(curve), NEW t \in Int,
         Inside(curve, t)
  PROVE  \E i \in 2..Len(curve) : Segment(curve, t, i)
<1> USE DEF Inside
<1> DEFINE k == Len(curve)
           reached == {i \in 1..k : t <= 1000 * curve[i][1]}
           i == CHOOSE j \in reached : \A h \in reached : j <= h
<1>1. k \in Nat /\ k >= 2 /\ \A j \in 1..k : curve[j] \in Int \X (0..MaxDuty)
  BY DEF ValidCurve
<1>2. \A j \in 1..k : curve[j][1] \in Int
  BY PointTypes
<1>3. k \in reached /\ reached \subseteq Nat
  BY <1>1, <1>2
<1>4. i \in reached /\ \A h \in reached : i <= h
  <2> HIDE DEF reached
  <2>1. \E j \in reached : \A h \in reached : j <= h
    BY <1>3, LeastExists
  <2> QED
    BY <2>1
<1>5. i \in 1..k /\ t <= 1000 * curve[i][1]
  BY <1>4
<1>6. Interpolate(curve, t) = Between(curve[i - 1], curve[i], t)
  <2>1. k # 0 /\ ~(t <= 1000 * curve[1][1]) /\ ~(t >= 1000 * curve[k][1])
    BY <1>1, <1>2
  <2> QED
    BY <2>1 DEF Interpolate
<1> HIDE DEF i
<1>7. i # 1
  BY <1>5, <1>1, <1>2
<1>8. i - 1 \in 1..k /\ i \in 2..k
  BY <1>5, <1>7, <1>1
<1>9. 1000 * curve[i - 1][1] < t
  <2> DEFINE c == 1000 * curve[i - 1][1]
  <2>1. i - 1 \notin reached
    BY <1>4, <1>5
  <2>2. ~(t <= c)
    BY <2>1, <1>8
  <2>3. c \in Int
    <3> DEFINE b == curve[i - 1][1]
    <3>1. b \in Int
      BY <1>8, <1>2, Zenon
    <3>2. 1000 * b \in Int
      <4> HIDE DEF b
      <4> QED
        BY <3>1
    <3> QED
      BY <3>2
  <2> HIDE DEF c
  <2>4. c < t
    BY <2>2, <2>3
  <2> QED
    BY <2>4 DEF c
<1>10. Segment(curve, t, i)
  BY <1>5, <1>6, <1>9 DEF Segment
<1> QED
  BY <1>8, <1>10

\* The curve never answers a hotter reading with a lower duty, rounding
\* included, for every curve that ValidateCurve lets through (Interpolate).
THEOREM HotterNotSlower ==
  ASSUME NEW curve \in Seq(Int \X (0..MaxDuty)), ValidCurve(curve),
         NEW t \in Int, NEW u \in Int, t <= u
  PROVE  Interpolate(curve, t) <= Interpolate(curve, u)
<1> DEFINE k == Len(curve)
           C == [h \in 1..k |-> 1000 * curve[h][1]]
           D == [h \in 1..k |-> curve[h][2]]
           V == [s \in Int |-> Interpolate(curve, s)]
           B(i, s) == Between(curve[i - 1], curve[i], s)
<1>1. k \in Nat /\ k >= 2 /\ 1 \in 1..k /\ 2 \in 2..k /\ k \in 1..k
  <2>1. k \in 2..8
    BY DEF ValidCurve
  <2> HIDE DEF k
  <2> QED
    BY <2>1
<1>2. \A h \in 1..k : C[h] \in Int /\ D[h] \in Int
  <2> TAKE h \in 1..k
  <2>1. curve[h][1] \in Int /\ curve[h][2] \in Int
    BY PointTypes
  <2> QED
    BY <2>1
<1>3. \A g, h \in 1..k : g <= h => C[g] <= C[h] /\ D[g] <= D[h]
  <2> TAKE g, h \in 1..k
  <2> HAVE g <= h
  <2>1. curve[g][1] <= curve[h][1] /\ curve[g][2] <= curve[h][2]
    BY PointsAscend
  <2>2. curve[g][1] \in Int /\ curve[h][1] \in Int
    BY PointTypes
  <2> QED
    BY <2>1, <2>2
<1>4. \A s \in Int : V[s] \in Int
  <2> TAKE s \in Int
  <2> DEFINE v == V[s]
  <2>1. v \in 0..MaxDuty
    BY InterpolateRange
  <2> HIDE DEF v
  <2>2. v \in Int
    BY <2>1 DEF MaxDuty
  <2> QED
    BY <2>2 DEF v
<1>5. C[1] < C[k]
  <2>1. curve[1][1] < curve[2][1]
    BY <1>1 DEF ValidCurve
  <2>2. 2 \in 1..k
    BY <1>1
  <2>3. curve[1][1] \in Int /\ curve[2][1] \in Int
    BY <1>1, <2>2, PointTypes
  <2>4. C[1] < C[2]
    <3>1. 1000 * curve[1][1] < 1000 * curve[2][1]
      BY <2>1, <2>3
    <3> QED
      BY <3>1, <2>2, <1>1
  <2>5. C[2] <= C[k]
    BY <2>2, <1>1, <1>3
  <2> HIDE DEF C
  <2> QED
    BY <2>2, <2>4, <2>5, <1>1, <1>2
\* At and below the first point, at and above the last one.
<1>6. \A s \in Int : s <= C[1] => V[s] = D[1]
  BY <1>1 DEF Interpolate
<1>7. \A s \in Int : s >= C[k] => V[s] = D[k]
  <2> TAKE s \in Int
  <2> HAVE s >= C[k]
  <2>1. ~(s <= C[1]) /\ k # 0
    <3>1. C[1] \in Int /\ C[k] \in Int
      BY <1>1, <1>2
    <3> HIDE DEF C
    <3> QED
      BY <3>1, <1>5, <1>1
  <2> QED
    BY <2>1 DEF Interpolate
\* Inside: on a segment, between its duties, and rising on it.
<1>8. ASSUME NEW s \in Int, C[1] < s, s < C[k]
      PROVE  \E i \in 2..k : C[i - 1] < s /\ s <= C[i] /\ V[s] = B(i, s)
  <2>1. C[1] = 1000 * curve[1][1] /\ C[k] = 1000 * curve[k][1]
    BY <1>1
  <2>2. Inside(curve, s)
    BY <2>1, <1>8 DEF Inside
  <2>3. PICK i \in 2..k : Segment(curve, s, i)
    BY <2>2, OnSegment
  <2>4. i - 1 \in 1..k /\ i \in 1..k
    BY <1>1
  <2>5. C[i - 1] = 1000 * curve[i - 1][1] /\ C[i] = 1000 * curve[i][1]
    BY <2>4
  <2>6. C[i - 1] < s /\ s <= C[i]
    BY <2>3, <2>5 DEF Segment
  <2>7. V[s] = B(i, s)
    BY <2>3 DEF Segment
  <2> QED
    BY <2>6, <2>7
<1>9. ASSUME NEW i \in 2..k, NEW r \in Int, NEW s \in Int,
             C[i - 1] < r, r <= s, s <= C[i]
      PROVE  D[i - 1] <= B(i, r) /\ B(i, r) <= B(i, s) /\ B(i, s) <= D[i]
  <2> DEFINE p == curve[i - 1]
             q == curve[i]
  <2>1. i - 1 \in 1..k /\ i \in 1..k /\ i - 1 <= i
    BY <1>1
  <2>2. p \in Int \X (0..MaxDuty) /\ q \in Int \X (0..MaxDuty)
    BY <2>1
  <2>3. p[2] <= q[2]
    <3>1. D[i - 1] <= D[i]
      <4> HIDE DEF k, C, D
      <4> QED
        BY <2>1, <1>3
    <3>2. D[i - 1] = p[2] /\ D[i] = q[2]
      BY <2>1
    <3> QED
      BY <3>1, <3>2
  <2>4. 1000 * p[1] < r /\ r <= s /\ s <= 1000 * q[1]
    BY <1>9
  <2>5. p[2] <= Between(p, q, r) /\ Between(p, q, r) <= Between(p, q, s)
                                 /\ Between(p, q, s) <= q[2]
    <3> HIDE DEF p, q
    <3> QED
      BY <2>2, <2>3, <2>4, BetweenMonotone
  <2> QED
    BY <2>5
<1> HIDE DEF k, C, D, V, B
<1>10. \A s \in Int : D[1] <= V[s] /\ V[s] <= D[k]
  <2> TAKE s \in Int
  <2>1. D[1] <= D[k] /\ D[1] \in Int /\ D[k] \in Int /\ C[1] \in Int /\ C[k] \in Int
    BY <1>1, <1>2, <1>3
  <2>2. CASE s <= C[1]
    BY <2>1, <2>2, <1>6
  <2>3. CASE s >= C[k]
    BY <2>1, <2>3, <1>7
  <2>4. CASE C[1] < s /\ s < C[k]
    <3>1. PICK i \in 2..k : C[i - 1] < s /\ s <= C[i] /\ V[s] = B(i, s)
      BY <1>8, <2>4
    <3>2. i - 1 \in 1..k /\ i \in 1..k /\ 1 <= i - 1 /\ i <= k
      BY <1>1
    <3>3. D[i - 1] <= V[s] /\ V[s] <= D[i]
      <4>1. s <= s
        OBVIOUS
      <4> QED
        BY <3>1, <4>1, <1>9
    <3>4. D[1] <= D[i - 1] /\ D[i] <= D[k]
      BY <3>2, <1>1, <1>3
    <3>5. D[i - 1] \in Int /\ D[i] \in Int /\ V[s] \in Int
      BY <3>2, <1>2, <1>4
    <3> QED
      BY <3>3, <3>4, <3>5, <2>1
  <2> QED
    BY <2>1, <2>2, <2>3, <2>4
<1>11. V[t] <= V[u]
  <2>1. /\ C[1] \in Int /\ C[k] \in Int /\ D[1] \in Int /\ D[k] \in Int
        /\ V[t] \in Int /\ V[u] \in Int
    BY <1>1, <1>2, <1>4
  <2>2. CASE t <= C[1]
    BY <2>2, <1>6, <1>10
  <2>3. CASE u >= C[k]
    BY <2>3, <1>7, <1>10
  <2>4. CASE C[1] < t /\ u < C[k]
    <3>1. C[1] < u /\ t < C[k]
      BY <2>4, <2>1
    <3>2. PICK i \in 2..k : C[i - 1] < t /\ t <= C[i] /\ V[t] = B(i, t)
      BY <1>8, <2>4, <3>1
    <3>3. PICK j \in 2..k : C[j - 1] < u /\ u <= C[j] /\ V[u] = B(j, u)
      BY <1>8, <2>4, <3>1
    <3>4. i - 1 \in 1..k /\ i \in 1..k /\ j - 1 \in 1..k /\ j \in 1..k
      BY <1>1
    <3>5. /\ C[i - 1] \in Int /\ C[j] \in Int /\ D[i] \in Int /\ D[j - 1] \in Int
      BY <3>4, <1>2
    <3>6. CASE i = j
      BY <3>2, <3>3, <3>6, <1>9
    <3>7. CASE i < j
      <4>1. i <= j - 1
        BY <3>7
      <4>2. D[i] <= D[j - 1]
        BY <4>1, <3>4, <1>3
      <4>3. V[t] <= D[i]
        <5>1. t <= t
          OBVIOUS
        <5> QED
          BY <5>1, <3>2, <1>9
      <4>4. D[j - 1] <= V[u]
        <5>1. u <= u
          OBVIOUS
        <5> QED
          BY <5>1, <3>3, <1>9
      <4> QED
        BY <4>2, <4>3, <4>4, <3>5, <2>1
    <3>8. CASE j < i
      <4>1. j <= i - 1
        BY <3>8
      <4>2. C[j] <= C[i - 1]
        BY <4>1, <3>4, <1>3
      <4> QED
        BY <4>2, <3>2, <3>3, <3>5
    <3> QED
      BY <3>6, <3>7, <3>8
  <2> QED
    BY <2>1, <2>2, <2>3, <2>4
<1> QED
  BY <1>11 DEF V

-----------------------------------------------------------------------------
\* CurveHold: min_on.

\* The types the argument needs.
HoldTypes ==
  /\ ccfg \in CurveConfigs /\ next \subseteq CurveConfigs
  /\ cnow \in Nat /\ temp \in Int /\ held.temp \in Int
  /\ last.duty \in 0..MaxDuty /\ auto \in -1..MaxDuty
  /\ hold \in [on : BOOLEAN, duty : 0..MaxDuty, start : Nat, until : Nat]
  /\ \A r \in rises : r.duty \in 0..MaxDuty /\ r.start \in Nat /\ r.start <= cnow

\* Every rise that still counts is covered by the hold: its duty, and until its
\* min_on has passed.  Inside a cycle a min_on of 0 has not yet dropped the hold.
RiseHeld ==
  stage = "begin" \/ ccfg.minOn > 0 =>
    \A r \in rises : /\ hold.on /\ hold.duty >= r.duty /\ hold.start >= r.start
                     /\ hold.until >= r.start + ccfg.minOn

\* The duty of the last automatic cycle covers target and hold, which is why
\* minOnHold sees every rise.
AutoAbove ==
  auto # NotAuto => /\ last.ok /\ last.duty <= auto
                    /\ hold.on => hold.duty <= auto

\* The inductive invariant behind HoldHonoured.
HoldInv == HoldTypes /\ RiseHeld /\ AutoAbove /\ HoldHonoured

\* What a configuration has.
LEMMA MinOnType ==
  ASSUME NEW cc \in CurveConfigs
  PROVE  cc.minOn \in Nat /\ cc.curve \in Seq(Int \X (0..MaxDuty)) /\ cc.hysteresis \in Nat
BY CurveConfigsAssumption DEF CurveConfig

\* swapChannelConfig and retimeHolds: a reload with another min_on moves the end
\* of the hold and drops no rise that still counts.
LEMMA HoldSwaps ==
  ASSUME HoldInv, stage = "begin", NEW cc \in CurveConfigs, Swap(cc), stage' = "read",
         next' = {}, cnow' = cnow, temp' = temp
  PROVE  HoldInv'
<1>1. ccfg.minOn \in Nat /\ cc.minOn \in Nat
  BY MinOnType DEF HoldInv, HoldTypes
<1>2. hold \in [on : BOOLEAN, duty : 0..MaxDuty, start : Nat, until : Nat] /\ cnow \in Nat
  BY DEF HoldInv, HoldTypes
<1>3. ccfg' = cc
  BY DEF Swap
<1>4. CASE cc.sensor # ccfg.sensor
  <2>1. auto' = NotAuto /\ rises' = {}
    BY <1>4 DEF Swap
  <2>2. hold' = Ended(hold)
    BY <1>2, <1>4 DEF Swap, Retimed, Ended
  <2>3. hold' \in [on : BOOLEAN, duty : 0..MaxDuty, start : Nat, until : Nat]
    BY <2>2, <1>2 DEF Ended
  <2>4. held'.temp \in Int /\ last'.duty \in 0..MaxDuty
    BY <1>4 DEF Swap, HoldInv, HoldTypes
  <2> QED
    BY <2>1, <2>3, <2>4, <1>3
    DEF HoldInv, HoldTypes, RiseHeld, AutoAbove, HoldHonoured, NotAuto, MaxDuty
<1>5. CASE cc.sensor = ccfg.sensor
  <2>1. auto' = auto /\ rises' = rises /\ held' = held /\ last' = last
    BY <1>5 DEF Swap
  <2>2. hold' = Retimed(hold, ccfg, cc)
    BY <1>5 DEF Swap
  <2>3. /\ hold' \in [on : BOOLEAN, duty : 0..MaxDuty, start : Nat, until : Nat]
        /\ hold'.duty = hold.duty /\ hold'.start = hold.start
        /\ hold'.on => hold.on
        /\ hold.on /\ cc.minOn > 0 => hold'.on
        /\ hold.on /\ cc.minOn > 0 =>
             IF cc.minOn = ccfg.minOn THEN hold'.until = hold.until
             ELSE hold'.until >= hold.start + cc.minOn
    <3>1. CASE ~hold.on \/ cc.minOn = ccfg.minOn
      BY <3>1, <2>2, <1>2 DEF Retimed
    <3>2. CASE hold.on /\ cc.minOn # ccfg.minOn /\ cc.minOn = 0
      <4>1. hold' = [hold EXCEPT !.on = FALSE]
        BY <3>2, <2>2 DEF Retimed, Ended
      <4>2. hold' \in [on : BOOLEAN, duty : 0..MaxDuty, start : Nat, until : Nat]
        BY <4>1, <1>2
      <4>3. ~hold'.on /\ hold'.duty = hold.duty /\ hold'.start = hold.start
        BY <4>1, <1>2
      <4>4. ~(cc.minOn > 0)
        BY <3>2
      <4> QED
        BY <4>2, <4>3, <4>4
    <3>3. CASE hold.on /\ cc.minOn # ccfg.minOn /\ cc.minOn # 0
      <4> DEFINE u == IF hold.start + cc.minOn > cnow THEN hold.start + cc.minOn ELSE cnow
      <4>1. hold' = [hold EXCEPT !.until = u]
        BY <3>3, <2>2 DEF Retimed
      <4>2. u \in Nat /\ u >= hold.start + cc.minOn
        BY <1>1, <1>2
      <4> HIDE DEF u
      <4> QED
        BY <4>1, <4>2, <3>3, <1>2
    <3> QED
      BY <3>1, <3>2, <3>3
  <2>4. HoldTypes'
    BY <2>1, <2>3, <1>3 DEF HoldInv, HoldTypes
  <2>5. RiseHeld'
    <3> SUFFICES ASSUME cc.minOn > 0, NEW r \in rises
                 PROVE  /\ hold'.on /\ hold'.duty >= r.duty /\ hold'.start >= r.start
                        /\ hold'.until >= r.start + cc.minOn
      BY <2>1, <1>3 DEF RiseHeld
    <3>1. /\ hold.on /\ hold.duty >= r.duty /\ hold.start >= r.start
          /\ hold.until >= r.start + ccfg.minOn
      BY DEF HoldInv, RiseHeld
    <3>2. r.start \in Nat
      BY DEF HoldInv, HoldTypes
    <3> QED
      BY <3>1, <3>2, <2>3, <1>1, <1>2
  <2>6. AutoAbove'
    BY <2>1, <2>3 DEF HoldInv, AutoAbove
  <2> QED
    BY <2>4, <2>5, <2>6 DEF HoldInv, HoldHonoured
<1> QED
  BY <1>4, <1>5

\* computeTargets, from the held temperature over the curve to minOnHold.
LEMMA HoldComputes ==
  ASSUME HoldInv, NEW dt \in 1..2, ComputeTarget(dt)
  PROVE  HoldInv'
<1> DEFINE deg == HeldTemp(temp)
           curve == Interpolate(ccfg.curve, deg)
           h == HoldAfter(curve)
           asked == Held(h, curve)
           plain == ~(ovr # NoOverride) /\ ~CeilHit
           new == auto # NotAuto /\ asked > auto /\ ccfg.minOn > 0
           old == {r \in rises : cnow < r.start + ccfg.minOn}
           running == hold.on /\ cnow < hold.until
           rose == last.ok /\ curve > last.duty
           again == ccfg.minOn # 0 /\ rose /\ (~running \/ curve > hold.duty)
<1>1. /\ ccfg.minOn \in Nat /\ cnow \in Nat /\ temp \in Int /\ held.temp \in Int
      /\ last.duty \in 0..MaxDuty /\ auto \in -1..MaxDuty
      /\ hold \in [on : BOOLEAN, duty : 0..MaxDuty, start : Nat, until : Nat]
      /\ \A r \in rises : r.duty \in 0..MaxDuty /\ r.start \in Nat /\ r.start <= cnow
      /\ ccfg \in CurveConfigs /\ next \subseteq CurveConfigs
  BY MinOnType DEF HoldInv, HoldTypes
<1>2. deg \in Int
  BY <1>1 DEF HeldTemp
<1>3. curve \in 0..MaxDuty
  <2> HIDE DEF deg
  <2> QED
    BY <1>1, <1>2, MinOnType, InterpolateRange
<1>4. /\ held' = [temp |-> deg, ok |-> TRUE] /\ last' = [duty |-> curve, ok |-> TRUE]
      /\ hold' = (IF plain THEN h ELSE Ended(h)) /\ cnow' = cnow + dt
      /\ auto' = (IF plain THEN asked ELSE NotAuto)
      /\ rises' = (IF ~plain THEN {}
                   ELSE old \cup (IF new THEN {[duty |-> asked, start |-> cnow]} ELSE {}))
      /\ plain => goal' = MaxDuty \/ goal' = asked
      /\ ccfg' = ccfg /\ next' = next /\ temp' = temp /\ stage' = "begin"
      /\ stage = "compute"
  BY DEF ComputeTarget, frozenVars
<1> HIDE DEF deg, curve
<1> DEFINE HoldRecord == [on : BOOLEAN, duty : 0..MaxDuty, start : Nat, until : Nat]
<1>5. /\ h \in HoldRecord
      /\ ccfg.minOn = 0 => ~h.on
      /\ again => h.on /\ h.duty = curve /\ h.start = cnow /\ h.until = cnow + ccfg.minOn
      /\ ccfg.minOn # 0 /\ ~again =>
           /\ h.on <=> running
           /\ h.duty = hold.duty /\ h.start = hold.start /\ h.until = hold.until
  <2>1. CASE ccfg.minOn = 0
    <3>1. h = [hold EXCEPT !.on = FALSE]
      BY <2>1 DEF HoldAfter, Ended
    <3> QED
      BY <3>1, <2>1, <1>1
  <2>2. CASE again
    <3>1. h = [on |-> TRUE, duty |-> curve, start |-> cnow, until |-> cnow + ccfg.minOn]
      BY <2>2 DEF HoldAfter
    <3> HIDE DEF h, running, rose
    <3> QED
      BY <3>1, <2>2, <1>1, <1>3
  <2>3. CASE ccfg.minOn # 0 /\ ~again
    <3>1. h = [hold EXCEPT !.on = running]
      BY <2>3 DEF HoldAfter
    <3>2. running \in BOOLEAN
      BY <1>1
    <3> HIDE DEF h, running, rose
    <3> QED
      BY <3>1, <3>2, <2>3, <1>1
  <2> QED
    BY <2>1, <2>2, <2>3
<1>6. /\ asked = (IF h.on /\ h.duty > curve THEN h.duty ELSE curve)
      /\ h.on \in BOOLEAN /\ h.duty \in 0..MaxDuty /\ h.start \in Nat /\ h.until \in Nat
      /\ Ended(h) \in HoldRecord
  <2>1. asked = (IF h.on /\ h.duty > curve THEN h.duty ELSE curve)
    BY DEF Held
  <2> HIDE DEF h
  <2>2. h.on \in BOOLEAN /\ h.duty \in 0..MaxDuty /\ h.start \in Nat /\ h.until \in Nat
    BY <1>5
  <2>3. Ended(h) \in HoldRecord
    BY <1>5 DEF Ended
  <2> QED
    BY <2>1, <2>2, <2>3
<1> HIDE DEF h, asked
<1>7. asked \in 0..MaxDuty /\ asked >= curve /\ (h.on => asked >= h.duty)
  BY <1>3, <1>6 DEF MaxDuty
<1>8. new => again /\ asked = curve
  <2> SUFFICES ASSUME new PROVE again /\ asked = curve
    OBVIOUS
  <2>1. last.ok /\ last.duty <= auto /\ (hold.on => hold.duty <= auto)
    BY DEF HoldInv, AutoAbove
  <2>2. asked = curve
    BY <2>1, <1>1, <1>3, <1>5, <1>6 DEF MaxDuty
  <2> QED
    BY <2>1, <2>2, <1>1, <1>3 DEF MaxDuty
<1>9. ASSUME plain, NEW r \in rises'
      PROVE  /\ h.on /\ h.duty >= r.duty /\ h.start >= r.start
             /\ h.until >= r.start + ccfg.minOn
             /\ r.duty \in 0..MaxDuty /\ r.start \in Nat /\ r.start <= cnow
             /\ asked >= r.duty
  <2>1. CASE r \in old
    <3>1. r \in rises /\ cnow < r.start + ccfg.minOn
      BY <2>1
    <3>2. r.duty \in 0..MaxDuty /\ r.start \in Nat /\ r.start <= cnow
      BY <3>1, <1>1
    <3>3. ccfg.minOn > 0
      BY <3>1, <3>2, <1>1
    <3>4. /\ hold.on /\ hold.duty >= r.duty /\ hold.start >= r.start
          /\ hold.until >= r.start + ccfg.minOn
      BY <3>1, <3>3 DEF HoldInv, RiseHeld
    <3>5. hold.duty \in 0..MaxDuty /\ hold.until \in Nat /\ hold.start \in Nat
      BY <1>1
    <3>6. hold.duty >= r.duty /\ hold.duty \in Int /\ r.duty \in Int
      BY <3>2, <3>4, <3>5
    <3>7. running
      BY <3>1, <3>2, <3>4, <3>5, <1>1
    <3>8. CASE again
      <4>1. h.on /\ h.duty = curve /\ h.start = cnow /\ h.until = cnow + ccfg.minOn
        BY <3>8, <1>5
      <4>2. curve > hold.duty /\ curve \in Int
        BY <3>7, <3>8, <1>3
      <4> HIDE DEF again, running, rose
      <4>3. curve >= r.duty
        BY <4>2, <3>6
      <4>4. asked >= r.duty
        BY <4>2, <4>3, <3>6, <1>7
      <4>5. h.until >= r.start + ccfg.minOn
        BY <4>1, <3>2, <1>1
      <4> QED
        BY <4>1, <4>3, <4>4, <4>5, <3>2
    <3>9. CASE ~again
      <4>1. h.on /\ h.duty = hold.duty /\ h.start = hold.start /\ h.until = hold.until
        BY <3>3, <3>7, <3>9, <1>1, <1>5
      <4> HIDE DEF again, running, rose
      <4>2. asked >= hold.duty /\ asked \in Int
        BY <4>1, <1>7
      <4>3. asked >= r.duty
        BY <4>2, <3>6
      <4> QED
        BY <4>1, <4>3, <3>2, <3>4
    <3> QED
      BY <3>8, <3>9
  <2>2. CASE new /\ r = [duty |-> asked, start |-> cnow]
    <3>1. r.duty = asked /\ r.start = cnow
      BY <2>2
    <3> QED
      BY <2>2, <3>1, <1>1, <1>3, <1>5, <1>7, <1>8 DEF MaxDuty
  <2> QED
    BY <1>4, <1>9, <2>1, <2>2
<1>10. HoldTypes'
  <2>1. hold' \in HoldRecord
    BY <1>4, <1>5, <1>6
  <2>2. held'.temp \in Int /\ last'.duty \in 0..MaxDuty
    BY <1>2, <1>3, <1>4
  <2>3. auto' \in -1..MaxDuty
    BY <1>4, <1>7 DEF NotAuto, MaxDuty
  <2>4. cnow' \in Nat /\ cnow <= cnow'
    BY <1>1, <1>4
  <2>5. ASSUME NEW r \in rises'
        PROVE  r.duty \in 0..MaxDuty /\ r.start \in Nat /\ r.start <= cnow'
    <3>1. plain
      BY <1>4
    <3>2. r.duty \in 0..MaxDuty /\ r.start \in Nat /\ r.start <= cnow
      BY <3>1, <1>9
    <3> QED
      BY <3>2, <2>4, <1>1
  <2> QED
    BY <1>1, <1>4, <2>1, <2>2, <2>3, <2>4, <2>5 DEF HoldTypes
<1>11. RiseHeld'
  <2>1. ASSUME NEW r \in rises'
        PROVE  /\ hold'.on /\ hold'.duty >= r.duty /\ hold'.start >= r.start
               /\ hold'.until >= r.start + ccfg.minOn
    <3>1. plain
      BY <1>4
    <3>2. hold' = h
      BY <3>1, <1>4
    <3> QED
      BY <3>1, <3>2, <1>9
  <2> QED
    BY <2>1, <1>4 DEF RiseHeld
<1>12. AutoAbove'
  <2>1. last'.ok /\ last'.duty = curve
    BY <1>4
  <2>2. plain => hold' = h /\ auto' = asked
    BY <1>4
  <2>3. ~plain => auto' = NotAuto
    BY <1>4
  <2> QED
    BY <2>1, <2>2, <2>3, <1>7 DEF AutoAbove
<1>13. HoldHonoured'
  <2>1. ASSUME NEW r \in rises' PROVE goal' >= r.duty
    <3>1. plain
      BY <1>4
    <3>2. r.duty \in 0..MaxDuty /\ asked >= r.duty
      BY <3>1, <1>9
    <3>3. goal' = MaxDuty \/ goal' = asked
      BY <3>1, <1>4
    <3> QED
      BY <3>2, <3>3 DEF MaxDuty
  <2> QED
    BY <2>1 DEF HoldHonoured
<1> QED
  BY <1>10, <1>11, <1>12, <1>13 DEF HoldInv

\* HoldHonoured: for every curve, hysteresis, min_on and sequence of reloads, the
\* target does not fall below a duty it rose to before min_on has passed.
THEOREM HoldHonouredHolds == CurveSpec => []HoldHonoured
<1>1. CurveInit => HoldInv
  BY DEF CurveInit, HoldInv, HoldTypes, RiseHeld, AutoAbove, HoldHonoured, NoHold, NotAuto,
         MaxDuty
<1>2. HoldInv /\ [CurveNext]_curveVars => HoldInv'
  <2> SUFFICES ASSUME HoldInv, [CurveNext]_curveVars PROVE HoldInv'
    OBVIOUS
  <2> USE DEF HoldInv, HoldTypes, RiseHeld, AutoAbove, HoldHonoured
  <2>1. ASSUME NEW cc \in CurveConfigs, Apply(cc) PROVE HoldInv'
    BY <2>1 DEF Apply, frozenVars, holdVars, ghostVars
  <2>2. ASSUME NEW d, Override(d) PROVE HoldInv'
    BY <2>2 DEF Override, frozenVars, holdVars, ghostVars
  <2>3. CASE CycleBegins
    <3>1. CASE next = {} /\ UNCHANGED <<ccfg, equal, held, last, hold, hit, ghostVars>>
      BY <2>3, <3>1 DEF CycleBegins, ghostVars
    <3>2. ASSUME NEW cc \in next, Swap(cc) PROVE HoldInv'
      <4>1. cc \in CurveConfigs
        OBVIOUS
      <4>2. stage = "begin" /\ stage' = "read" /\ next' = {} /\ cnow' = cnow /\ temp' = temp
        BY <2>3 DEF CycleBegins
      <4> QED
        BY <3>2, <4>1, <4>2, HoldSwaps
    <3> QED
      BY <2>3, <3>1, <3>2 DEF CycleBegins
  <2>4. CASE ReadBad
    BY <2>4 DEF ReadBad, holdVars, ghostVars
  <2>5. ASSUME NEW t \in CurveTemps, ReadGood(t) PROVE HoldInv'
    <3>1. t \in Int
      BY CurveTempsAssumption
    <3> QED
      BY <2>5, <3>1 DEF ReadGood, holdVars
  <2>6. ASSUME NEW dt \in 1..2, ComputeBlind(dt) PROVE HoldInv'
    <3>1. hold' \in [on : BOOLEAN, duty : 0..MaxDuty, start : Nat, until : Nat]
      BY <2>6 DEF ComputeBlind, Ended
    <3>2. held'.temp \in Int /\ last'.duty \in 0..MaxDuty
      BY <2>6 DEF ComputeBlind
    <3> QED
      BY <2>6, <3>1, <3>2 DEF ComputeBlind, frozenVars, NotAuto, MaxDuty
  <2>7. ASSUME NEW dt \in 1..2, ComputeTarget(dt) PROVE HoldInv'
    BY <2>7, HoldComputes
  <2>8. CASE UNCHANGED curveVars
    BY <2>8 DEF curveVars, frozenVars, holdVars, ghostVars
  <2> QED
    BY <2>1, <2>2, <2>3, <2>4, <2>5, <2>6, <2>7, <2>8 DEF CurveNext
<1>3. HoldInv => HoldHonoured
  BY DEF HoldInv
<1> QED
  BY <1>1, <1>2, <1>3, PTL DEF CurveSpec

-----------------------------------------------------------------------------
\* CurveHold: the frozen sensor.

\* The types the argument needs.
FrozenTypes ==
  /\ ccfg \in CurveConfigs /\ next \subseteq CurveConfigs
  /\ seen \in Seq(Int) /\ Len(seen) <= MaxSeen
  /\ equal.same \in Nat

\* The counter of readSensors against the readings themselves: the last k
\* readings are equal exactly when k is at most one more than the counter.
CountRight ==
  ccfg.sensor = StaleSensor =>
    /\ equal.have <=> seen # <<>>
    /\ seen # <<>> => equal.value = seen[Len(seen)]
    /\ \A k \in 1..MaxSeen : SameFor(k) <=> seen # <<>> /\ k <= equal.same + 1

\* The verdict of this cycle's reading, until the target is computed.
VerdictRight ==
  stage = "compute" /\ ccfg.sensor = StaleSensor /\ tempErr # "read" =>
    /\ seen # <<>>
    /\ tempErr = "frozen" <=> equal.same >= ccfg.staleCycles

\* The inductive invariant behind FrozenNoticed.
FrozenInv == FrozenTypes /\ CountRight /\ VerdictRight

\* staleCycles is at least 1, and the history is long enough to judge it.
LEMMA ConfigTypes ==
  ASSUME NEW cc \in CurveConfigs
  PROVE  cc.staleCycles \in Nat \ {0} /\ cc.staleCycles < MaxSeen
BY CurveConfigsAssumption, CurveTimeAssumption DEF CurveConfig

\* What a further reading does to the history, which keeps the last MaxSeen.
LEMMA SeenGrows ==
  ASSUME NEW s \in Seq(Int), Len(s) <= MaxSeen, NEW t \in Int
  PROVE  LET l == LastSeen(Append(s, t)) IN
         /\ l \in Seq(Int) /\ Len(l) \in 1..MaxSeen
         /\ Len(l) = Len(s) + 1 \/ (Len(l) = Len(s) /\ Len(s) = MaxSeen)
         /\ l[Len(l)] = t
         /\ \A j \in 1..(Len(l) - 1) : l[Len(l) - j] = s[Len(s) + 1 - j]
<1> DEFINE l == LastSeen(Append(s, t))
<1>1. MaxSeen \in Nat \ {0}
  BY CurveConfigsAssumption, CurveTimeAssumption, ConfigTypes
<1>2. CASE Len(s) < MaxSeen
  <2>1. l = Append(s, t)
    BY <1>1, <1>2 DEF LastSeen
  <2>2. Len(l) = Len(s) + 1
    BY <2>1
  <2>3. ASSUME NEW j \in 1..(Len(l) - 1) PROVE l[Len(l) - j] = s[Len(s) + 1 - j]
    BY <2>1, <2>2
  <2> QED
    BY <1>1, <1>2, <2>1, <2>2, <2>3
<1>3. CASE Len(s) = MaxSeen
  <2>1. l = SubSeq(Append(s, t), 2, MaxSeen + 1)
    BY <1>1, <1>3 DEF LastSeen
  <2>2. l \in Seq(Int) /\ Len(l) = MaxSeen
    <3>1. Append(s, t) \in Seq(Int) /\ Len(Append(s, t)) = MaxSeen + 1
      BY <1>3
    <3> QED
      BY <2>1, <3>1, <1>1
  <2>3. ASSUME NEW i \in 1..MaxSeen PROVE l[i] = Append(s, t)[i + 1]
    BY <2>1, <1>1, <1>3
  <2> HIDE DEF l
  <2>4. l[MaxSeen] = t
    <3>1. Append(s, t)[MaxSeen + 1] = t
      BY <1>3
    <3>2. MaxSeen \in 1..MaxSeen
      BY <1>1
    <3> QED
      BY <3>1, <3>2, <2>3
  <2>5. ASSUME NEW j \in 1..(MaxSeen - 1) PROVE l[MaxSeen - j] = s[MaxSeen + 1 - j]
    <3>1. MaxSeen - j \in 1..MaxSeen /\ (MaxSeen - j) + 1 = MaxSeen + 1 - j
      BY <1>1
    <3>2. MaxSeen + 1 - j \in 1..Len(s)
      BY <1>1, <1>3
    <3>3. Append(s, t)[MaxSeen + 1 - j] = s[MaxSeen + 1 - j]
      BY <3>2
    <3> QED
      BY <3>1, <3>3, <2>3
  <2> QED
    BY <1>1, <1>3, <2>2, <2>4, <2>5 DEF l
<1> QED
  BY <1>1, <1>2, <1>3

\* The last k readings after a further one.
LEMMA SameGrows ==
  ASSUME seen \in Seq(Int), Len(seen) <= MaxSeen, NEW t \in Int,
         seen' = LastSeen(Append(seen, t)), NEW k \in 1..MaxSeen
  PROVE  /\ seen'[Len(seen')] = t
         /\ SameFor(k)' <=> k = 1 \/ (seen # <<>> /\ SameFor(k - 1) /\ seen[Len(seen)] = t)
<1> DEFINE m == Len(seen')
           n == Len(seen)
<1>1. /\ MaxSeen \in Nat /\ n \in Nat /\ m \in 1..MaxSeen
      /\ (m = n + 1 \/ (m = n /\ n = MaxSeen))
  BY SeenGrows, CurveTimeAssumption
<1>2. seen'[m] = t /\ \A j \in 1..(m - 1) : seen'[m - j] = seen[n + 1 - j]
  BY SeenGrows
<1>3. SameFor(k)' <=> m >= k /\ \A i \in 1..k : seen'[m + 1 - i] = t
  BY <1>2 DEF SameFor
<1>4. SameFor(k - 1) <=> n >= k - 1 /\ \A i \in 1..(k - 1) : seen[n + 1 - i] = seen[n]
  BY DEF SameFor
<1>5. n = 0 <=> seen = <<>>
  OBVIOUS
<1> HIDE DEF m, n
<1>6. CASE k = 1
  <2>1. \A i \in 1..k : m + 1 - i = m
    BY <1>6, <1>1
  <2> QED
    BY <2>1, <1>1, <1>2, <1>3, <1>6 DEF m
<1>7. CASE k # 1
  <2>1. ASSUME SameFor(k)' PROVE seen # <<>> /\ SameFor(k - 1) /\ seen[n] = t
    <3>1. n >= k - 1 /\ n # 0
      BY <1>1, <1>3, <1>7, <2>1
    <3>2. ASSUME NEW i \in 1..(k - 1) PROVE seen[n + 1 - i] = t
      <4>1. i + 1 \in 1..k /\ i \in 1..(m - 1) /\ m + 1 - (i + 1) = m - i
        BY <1>1, <1>3, <2>1
      <4>2. seen'[m + 1 - (i + 1)] = t
        BY <4>1, <1>3, <2>1
      <4> QED
        BY <4>1, <4>2, <1>2
    <3>3. 1 \in 1..(k - 1) /\ n + 1 - 1 = n
      BY <1>1, <1>7
    <3>4. seen[n] = t
      BY <3>2, <3>3
    <3> QED
      BY <3>1, <3>2, <3>4, <1>4, <1>5
  <2>2. ASSUME SameFor(k - 1), seen[n] = t PROVE SameFor(k)'
    <3>1. m >= k
      BY <1>1, <1>4, <2>2
    <3>2. ASSUME NEW i \in 1..k PROVE seen'[m + 1 - i] = t
      <4>1. CASE i = 1
        <5>1. m + 1 - i = m
          BY <4>1, <1>1
        <5> QED
          BY <5>1, <1>2
      <4>2. CASE i # 1
        <5>1. /\ i - 1 \in 1..(k - 1) /\ i - 1 \in 1..(m - 1)
              /\ m - (i - 1) = m + 1 - i
          BY <4>2, <3>1, <1>1
        <5>2. seen[n + 1 - (i - 1)] = t
          BY <5>1, <2>2, <1>4
        <5>3. seen'[m - (i - 1)] = seen[n + 1 - (i - 1)]
          BY <5>1, <1>2
        <5> QED
          BY <5>1, <5>2, <5>3
      <4> QED
        BY <4>1, <4>2
    <3> QED
      BY <3>1, <3>2, <1>3
  <2> QED
    BY <2>1, <2>2, <1>2, <1>7 DEF m, n
<1> QED
  BY <1>6, <1>7

\* Without a further reading they are what they were.
LEMMA SameStill ==
  ASSUME seen' = seen
  PROVE  \A k : SameFor(k)' <=> SameFor(k)
BY DEF SameFor

\* A good reading: counter, value and verdict move together (readSensors).
LEMMA FrozenRead ==
  ASSUME FrozenInv, NEW t \in CurveTemps, ReadGood(t)
  PROVE  FrozenInv'
<1>1. t \in Int /\ ccfg' = ccfg /\ next' = next /\ seen' = LastSeen(Append(seen, t))
  BY CurveTempsAssumption DEF ReadGood
<1>2. seen \in Seq(Int) /\ Len(seen) <= MaxSeen /\ equal.same \in Nat
  BY DEF FrozenInv, FrozenTypes
<1>3. seen' \in Seq(Int) /\ Len(seen') <= MaxSeen /\ seen' # <<>>
  <2>1. Len(seen') \in 1..MaxSeen /\ seen' \in Seq(Int)
    BY <1>1, <1>2, SeenGrows
  <2> QED
    BY <2>1, CurveTimeAssumption
<1>4. CASE ccfg.sensor # StaleSensor
  BY <1>1, <1>2, <1>3, <1>4
  DEF FrozenInv, FrozenTypes, CountRight, VerdictRight, ReadGood, Counted
<1>5. CASE ccfg.sensor = StaleSensor
  <2>1. /\ equal'.have /\ equal'.value = t
        /\ equal'.same = IF equal.have /\ equal.value = t THEN equal.same + 1 ELSE 0
    BY <1>5 DEF ReadGood, Counted
  <2>2. equal.have <=> seen # <<>>
    BY <1>5 DEF FrozenInv, CountRight
  <2>3. seen # <<>> => equal.value = seen[Len(seen)]
    BY <1>5 DEF FrozenInv, CountRight
  <2>4. \A k \in 1..MaxSeen : SameFor(k) <=> seen # <<>> /\ k <= equal.same + 1
    BY <1>5 DEF FrozenInv, CountRight
  <2>5. ASSUME NEW k \in 1..MaxSeen
        PROVE  SameFor(k)' <=> k <= equal'.same + 1
    <3>1. SameFor(k)' <=> k = 1 \/ (seen # <<>> /\ SameFor(k - 1) /\ seen[Len(seen)] = t)
      BY <1>1, <1>2, SameGrows
    <3>2. k # 1 => k - 1 \in 1..MaxSeen
      BY CurveTimeAssumption
    <3>3. k # 1 => (SameFor(k - 1) <=> seen # <<>> /\ k - 1 <= equal.same + 1)
      BY <3>2, <2>4
    <3> QED
      BY <3>1, <3>3, <2>1, <2>2, <2>3, <1>2, CurveTimeAssumption
  <2>6. seen'[Len(seen')] = t
    <3>1. 1 \in 1..MaxSeen
      BY CurveConfigsAssumption, CurveTimeAssumption, ConfigTypes
    <3> QED
      BY <3>1, <1>1, <1>2, SameGrows
  <2>7. equal'.same \in Nat
    BY <2>1, <1>2
  <2>8. tempErr' = IF equal'.same >= ccfg.staleCycles THEN "frozen" ELSE "none"
    BY <1>5, <1>1 DEF ReadGood, Frozen
  <2>9. FrozenTypes'
    BY <1>1, <1>3, <2>7 DEF FrozenInv, FrozenTypes
  <2>10. CountRight'
    BY <1>3, <2>1, <2>5, <2>6 DEF CountRight
  <2>11. VerdictRight'
    BY <1>1, <1>3, <2>8 DEF VerdictRight
  <2> QED
    BY <2>9, <2>10, <2>11 DEF FrozenInv
<1> QED
  BY <1>4, <1>5

\* A reload that replaces the sensor forgets counter and value, and one that
\* does not keeps them (swapChannelConfig).
LEMMA FrozenBegin ==
  ASSUME FrozenInv, CycleBegins
  PROVE  FrozenInv'
<1>1. CASE next = {} /\ UNCHANGED <<ccfg, equal, held, last, hold, hit, ghostVars>>
  BY <1>1, SameStill
  DEF CycleBegins, FrozenInv, FrozenTypes, CountRight, VerdictRight, ghostVars
<1>2. ASSUME NEW cc \in next, Swap(cc) PROVE FrozenInv'
  <2>1. ccfg' = cc /\ cc \in CurveConfigs /\ next' = {} /\ stage' = "read"
    BY <1>2 DEF Swap, CycleBegins, FrozenInv, FrozenTypes
  <2>2. CASE cc.sensor = ccfg.sensor
    <3>1. seen' = seen /\ equal' = equal
      BY <1>2, <2>2 DEF Swap, EqualAfter
    <3> QED
      BY <2>1, <2>2, <3>1, SameStill DEF FrozenInv, FrozenTypes, CountRight, VerdictRight
  <2>3. CASE cc.sensor # ccfg.sensor
    <3>1. seen' = <<>> /\ equal' = [equal EXCEPT !.have = FALSE, !.same = 0]
      BY <1>2, <2>3 DEF Swap, EqualAfter
    <3> QED
      BY <2>1, <2>3, <3>1, CurveTimeAssumption
      DEF FrozenInv, FrozenTypes, CountRight, VerdictRight, SameFor
  <2> QED
    BY <2>2, <2>3
<1> QED
  BY <1>1, <1>2 DEF CycleBegins

\* FrozenNoticed: for every staleCycles, every set of temperatures and every
\* sequence of reloads, a k10temp is treated as frozen exactly when its last
\* staleCycles + 1 readings are one and the same.
THEOREM FrozenNoticedHolds == CurveSpec => []FrozenNoticed
<1>1. CurveInit => FrozenInv
  BY CurveTimeAssumption
  DEF CurveInit, FrozenInv, FrozenTypes, CountRight, VerdictRight, SameFor
<1>2. FrozenInv /\ [CurveNext]_curveVars => FrozenInv'
  <2> SUFFICES ASSUME FrozenInv, [CurveNext]_curveVars PROVE FrozenInv'
    OBVIOUS
  <2> USE DEF FrozenInv, FrozenTypes, CountRight, VerdictRight
  <2>1. ASSUME NEW cc \in CurveConfigs, Apply(cc) PROVE FrozenInv'
    BY <2>1, SameStill DEF Apply, frozenVars, ghostVars
  <2>2. ASSUME NEW d, Override(d) PROVE FrozenInv'
    BY <2>2, SameStill DEF Override, frozenVars, ghostVars
  <2>3. CASE CycleBegins
    BY <2>3, FrozenBegin
  <2>4. CASE ReadBad
    BY <2>4, SameStill DEF ReadBad, ghostVars
  <2>5. ASSUME NEW t \in CurveTemps, ReadGood(t) PROVE FrozenInv'
    BY <2>5, FrozenRead
  <2>6. ASSUME NEW dt \in 1..2, ComputeBlind(dt) PROVE FrozenInv'
    BY <2>6, SameStill DEF ComputeBlind, frozenVars
  <2>7. ASSUME NEW dt \in 1..2, ComputeTarget(dt) PROVE FrozenInv'
    BY <2>7, SameStill DEF ComputeTarget, frozenVars
  <2>8. CASE UNCHANGED curveVars
    BY <2>8, SameStill DEF curveVars, frozenVars, ghostVars
  <2> QED
    BY <2>1, <2>2, <2>3, <2>4, <2>5, <2>6, <2>7, <2>8 DEF CurveNext
<1>3. FrozenInv => FrozenNoticed
  <2> SUFFICES ASSUME FrozenInv, stage = "compute", ccfg.sensor = StaleSensor,
                      tempErr # "read"
               PROVE  tempErr = "frozen" <=> SameFor(ccfg.staleCycles + 1)
    BY DEF FrozenNoticed
  <2>1. /\ ccfg.staleCycles + 1 \in 1..MaxSeen /\ ccfg.staleCycles \in Nat
        /\ equal.same \in Nat
    BY ConfigTypes, CurveTimeAssumption DEF FrozenInv, FrozenTypes
  <2>2. SameFor(ccfg.staleCycles + 1) <=>
          seen # <<>> /\ ccfg.staleCycles + 1 <= equal.same + 1
    BY <2>1 DEF FrozenInv, CountRight
  <2>3. seen # <<>> /\ (tempErr = "frozen" <=> equal.same >= ccfg.staleCycles)
    BY DEF FrozenInv, VerdictRight
  <2> QED
    BY <2>1, <2>2, <2>3
<1> QED
  BY <1>1, <1>2, <1>3, PTL DEF CurveSpec

-----------------------------------------------------------------------------
\* HistoryStore.
\*
\* The invariant (StoreInv) is about the memory, every copy that a save holds and
\* the file alike: the buckets of a tier ascend and are disjoint, a raw point is in
\* no bucket before its own, and while the clock goes forward it is in its own
\* as long as the span reaches it.  push is one of two things (Added, Opened), Load
\* pushes the raw points from the last bucket on (PushAllGood) and none of them
\* is in what it pushes onto (LoadGood).

\* The points a bucket stands for; none of them twice.
Points(b) == UNION ToSet(b.parts)
Own(b) == \A i, j \in DOMAIN b.parts : i # j => b.parts[i] \cap b.parts[j] = {}

Buckets == [ts : Nat, parts : Seq(SUBSET Nat)]
RawPoints == [n : Nat, ts : Nat]

\* The buckets of a tier: they ascend and share no point.
GoodRow(t, bs) ==
  /\ bs \in Seq(Buckets)
  /\ \A i, j \in DOMAIN bs : i < j => bs[i].ts < bs[j].ts
  /\ \A i \in DOMAIN bs : bs[i].ts % Tiers[t].bucket = 0 /\ Own(bs[i])
  /\ \A i, j \in DOMAIN bs : i # j => Points(bs[i]) \cap Points(bs[j]) = {}

Row(r) == r.pts \o r.open
TierType == [pts : Seq(Buckets), open : Seq(Buckets)]
GoodTier(t, r) ==
  /\ r \in TierType /\ Len(r.open) \in {0, 1}
  /\ GoodRow(t, Row(r))

\* Raw points carry ascending numbers, the times may go back.
GoodRaw(rs) ==
  /\ rs \in Seq(RawPoints)
  /\ \A i, j \in DOMAIN rs : i < j => rs[i].n < rs[j].n

\* A raw point is in no bucket before its own (a step back puts it in a later one).
NotBefore(t, rs, bs) ==
  \A k \in DOMAIN rs, i \in DOMAIN bs :
    rs[k].n \in Points(bs[i]) => BucketStart(t, rs[k].ts) <= bs[i].ts

\* No number is above n.
Numbered(rs, bs, n) ==
  /\ \A k \in DOMAIN rs : rs[k].n <= n
  /\ \A i \in DOMAIN bs : \A x \in Points(bs[i]) : x <= n

\* While the clock only goes forward: the times ascend up to h and a raw point
\* within the span is in the bucket of its time.
Exact(t, rs, bs, h) ==
  /\ \A i, j \in DOMAIN rs : i < j => rs[i].ts <= rs[j].ts
  /\ \A k \in DOMAIN rs : rs[k].ts <= h
  /\ \A i \in DOMAIN bs : bs[i].ts <= h
  /\ \A k \in DOMAIN rs : rs[k].ts >= h - Tiers[t].span =>
       \E i \in DOMAIN bs : bs[i].ts = BucketStart(t, rs[k].ts) /\ rs[k].n \in Points(bs[i])

\* What the memory and every copy of it that is being written or in the file hold.
Consistent(t, rs, bs, n, h, forward) ==
  /\ GoodRaw(rs) /\ GoodRow(t, bs) /\ NotBefore(t, rs, bs) /\ Numbered(rs, bs, n)
  /\ forward => Exact(t, rs, bs, h)

CopyConsistent(c, n, h, forward) ==
  \A t \in DOMAIN Tiers : Consistent(t, c.raw, c.tiers[t], n, h, forward)

StoreInv ==
  /\ hnow \in Nat /\ points \in Nat /\ rawCap \in Nat \ {0} /\ backs \in Nat
  /\ DOMAIN tier = DOMAIN Tiers /\ DOMAIN saving = Savers
  /\ \A t \in DOMAIN Tiers :
       /\ GoodTier(t, tier[t])
       /\ Consistent(t, raw, Row(tier[t]), points, hnow, backs = 0)
  /\ \A s \in Savers :
       saving[s] # <<>> => CopyConsistent(saving[s][1], points, hnow, backs = 0)
  /\ hfile # <<>> => CopyConsistent(hfile[1], points, hnow, backs = 0)

\* The bucket of a time.
LEMMA BucketIs ==
  ASSUME NEW t \in DOMAIN Tiers, NEW ts \in Nat
  PROVE  /\ BucketStart(t, ts) \in Nat /\ BucketStart(t, ts) % Tiers[t].bucket = 0
         /\ BucketStart(t, ts) <= ts /\ ts < BucketStart(t, ts) + Tiers[t].bucket
<1> DEFINE b == Tiers[t].bucket
           q == ts \div b
           m == ts % b
<1>1. b \in Nat \ {0}
  BY TierAssumption
<1> HIDE DEF b
<1>2. q \in Int /\ m \in 0..(b - 1) /\ ts = b * q + m
  BY <1>1, DivMod
<1>3. BucketStart(t, ts) = ts - m
  BY DEF BucketStart, b
<1> HIDE DEF q, m
<1>4. b * q \in Int /\ b * q = ts - m
  BY <1>1, <1>2
<1>5. q >= 0
  <2> SUFFICES ASSUME q <= -1 PROVE FALSE
    BY <1>2
  <2>1. b * q <= -b
    BY <1>1, <1>2
  <2> QED
    BY <2>1, <1>1, <1>2, <1>4
<1>6. b * q >= 0
  BY <1>5, <1>1, <1>2
<1>7. (b * q + 0) % b = 0
  BY <1>1, <1>2, DivModUnique
<1>8. (ts - m) % b = 0
  BY <1>4, <1>7
<1> QED
  BY <1>1, <1>2, <1>3, <1>4, <1>6, <1>8 DEF b

\* Two bucket starts are a bucket apart.
LEMMA BucketsApart ==
  ASSUME NEW b \in Nat \ {0}, NEW x \in Nat, NEW y \in Nat, x % b = 0, y % b = 0, x < y
  PROVE  x + b <= y
<1> DEFINE p == x \div b
           q == y \div b
<1>1. p \in Int /\ x = b * p + 0
  BY DivMod
<1>2. q \in Int /\ y = b * q + 0
  BY DivMod
<1> HIDE DEF p, q
<1>3. b * p \in Int /\ b * q \in Int /\ x = b * p /\ y = b * q
  BY <1>1, <1>2
<1>4. p < q
  <2> SUFFICES ASSUME p >= q PROVE FALSE
    BY <1>1, <1>2
  <2>1. b * p >= b * q
    BY <1>1, <1>2
  <2> QED
    BY <2>1, <1>3
<1>5. b * q >= b * (p + 1) /\ b * (p + 1) = b * p + b
  BY <1>4, <1>1, <1>2
<1> QED
  BY <1>3, <1>5

\* A bucket that begins no later than ts is the bucket of ts or an earlier one.
LEMMA BucketOf ==
  ASSUME NEW t \in DOMAIN Tiers, NEW ts \in Nat, NEW x \in Nat, x % Tiers[t].bucket = 0,
         x <= ts
  PROVE  x <= BucketStart(t, ts)
<1> SUFFICES ASSUME BucketStart(t, ts) < x PROVE FALSE
  BY BucketIs
<1>1. BucketStart(t, ts) + Tiers[t].bucket <= x
  BY BucketIs, BucketsApart, TierAssumption
<1> QED
  BY <1>1, BucketIs, TierAssumption

\* A later time has no earlier bucket.
LEMMA BucketMono ==
  ASSUME NEW t \in DOMAIN Tiers, NEW x \in Nat, NEW y \in Nat, x <= y
  PROVE  BucketStart(t, x) <= BucketStart(t, y)
<1>1. BucketStart(t, x) \in Nat /\ BucketStart(t, x) % Tiers[t].bucket = 0
      /\ BucketStart(t, x) <= y
  BY BucketIs
<1> QED
  BY <1>1, BucketOf

\* The points of a mean and of a bucket that takes one more.
LEMMA MeanIs ==
  ASSUME NEW b \in Buckets
  PROVE  Mean(b) \in Buckets /\ Mean(b).ts = b.ts /\ Points(Mean(b)) = Points(b) /\ Own(Mean(b))
<1> DEFINE U == UNION ToSet(b.parts)
<1>1. U \subseteq Nat
  BY DEF ToSet, Buckets
<1> HIDE DEF U
<1>2. <<U>> \in Seq(SUBSET Nat) /\ DOMAIN <<U>> = {1} /\ <<U>>[1] = U
  BY <1>1
<1>3. Mean(b) = [ts |-> b.ts, parts |-> <<U>>]
  BY DEF Mean, U
<1>4. Mean(b).parts = <<U>> /\ Mean(b).ts = b.ts /\ Mean(b) \in Buckets
  BY <1>2, <1>3 DEF Buckets
<1>5. Own(Mean(b))
  BY <1>2, <1>4 DEF Own
<1>6. Points(Mean(b)) = U
  BY <1>2, <1>4 DEF Points, ToSet
<1> QED
  BY <1>4, <1>5, <1>6 DEF Points, U

\* A bucket that takes a point.
LEMMA AddIs ==
  ASSUME NEW b \in Buckets, NEW p \in RawPoints
  PROVE  /\ AddTo(b, p) \in Buckets /\ AddTo(b, p).ts = b.ts
         /\ Points(AddTo(b, p)) = Points(b) \cup {p.n}
         /\ Own(b) /\ p.n \notin Points(b) => Own(AddTo(b, p))
<1> DEFINE c == AddTo(b, p)
           ps == b.parts
           qs == Append(b.parts, {p.n})
           m == Len(b.parts)
<1>1. /\ ps \in Seq(SUBSET Nat) /\ m \in Nat /\ DOMAIN ps = 1..m
      /\ qs \in Seq(SUBSET Nat) /\ DOMAIN qs = 1..(m + 1)
      /\ qs[m + 1] = {p.n} /\ \A i \in 1..m : qs[i] = ps[i]
  BY DEF Buckets, RawPoints
<1>2. c = [b EXCEPT !.parts = qs]
  BY DEF AddTo
<1>3. c \in Buckets /\ c.ts = b.ts /\ c.parts = qs
  BY <1>1, <1>2 DEF Buckets
<1> HIDE DEF qs, m, c
<1>4. Points(c) = Points(b) \cup {p.n}
  <2>1. ASSUME NEW x PROVE x \in Points(c) <=> \E i \in 1..(m + 1) : x \in qs[i]
    BY <1>1, <1>3 DEF Points, ToSet
  <2>2. ASSUME NEW x PROVE x \in Points(b) <=> \E i \in 1..m : x \in ps[i]
    BY <1>1 DEF Points, ToSet
  <2>3. ASSUME NEW x PROVE (\E i \in 1..(m + 1) : x \in qs[i])
                           <=> ((\E i \in 1..m : x \in ps[i]) \/ x = p.n)
    <3>1. \A i \in 1..(m + 1) : i \in 1..m \/ i = m + 1
      BY <1>1
    <3>2. m + 1 \in 1..(m + 1) /\ \A i \in 1..m : i \in 1..(m + 1)
      BY <1>1
    <3> QED
      BY <3>1, <3>2, <1>1
  <2> QED
    BY <2>1, <2>2, <2>3
<1>5. ASSUME Own(b), p.n \notin Points(b) PROVE Own(c)
  <2> SUFFICES ASSUME NEW i \in 1..(m + 1), NEW j \in 1..(m + 1), i # j
               PROVE  qs[i] \cap qs[j] = {}
    BY <1>1, <1>3 DEF Own
  <2>1. \A k \in 1..m : ps[k] \subseteq Points(b)
    BY <1>1 DEF Points, ToSet
  <2>2. CASE i \in 1..m /\ j \in 1..m
    BY <2>2, <1>1, <1>5 DEF Own
  <2>3. CASE i = m + 1
    <3>1. j \in 1..m
      BY <2>3, <1>1
    <3> QED
      BY <3>1, <2>3, <2>1, <1>1, <1>5
  <2>4. CASE j = m + 1
    <3>1. i \in 1..m
      BY <2>4, <1>1
    <3> QED
      BY <3>1, <2>4, <2>1, <1>1, <1>5
  <2> QED
    BY <2>2, <2>3, <2>4, <1>1
<1> QED
  BY <1>3, <1>4, <1>5 DEF c

\* A new bucket.
LEMMA NewIs ==
  ASSUME NEW s \in Nat, NEW p \in RawPoints
  PROVE  LET b == AddTo([ts |-> s, parts |-> <<>>], p)
         IN  b \in Buckets /\ b.ts = s /\ Points(b) = {p.n} /\ Own(b)
<1> DEFINE e == [ts |-> s, parts |-> <<>>]
<1>1. <<>> \in Seq(SUBSET Nat) /\ DOMAIN <<>> = {}
  OBVIOUS
<1>2. e \in Buckets /\ e.ts = s /\ e.parts = <<>>
  BY <1>1 DEF Buckets
<1>3. Points(e) = {} /\ Own(e)
  BY <1>1, <1>2 DEF Points, Own, ToSet
<1> QED
  BY <1>2, <1>3, AddIs

\* cs is bs without some of its members: e says where each one was.
Thinned(bs, cs, e) ==
  /\ e \in [DOMAIN cs -> DOMAIN bs]
  /\ \A i, j \in DOMAIN cs : i < j => e[i] < e[j]
  /\ \A i \in DOMAIN cs : cs[i] = bs[e[i]]

\* The buckets that are left are in order and disjoint as before.
LEMMA ThinnedRow ==
  ASSUME NEW t, NEW bs, GoodRow(t, bs), NEW cs \in Seq(Buckets), NEW e, Thinned(bs, cs, e)
  PROVE  GoodRow(t, cs)
<1>1. DOMAIN cs \subseteq Int /\ DOMAIN bs \subseteq Int
  BY DEF GoodRow
<1>2. ASSUME NEW i \in DOMAIN cs, NEW j \in DOMAIN cs, i # j PROVE e[i] # e[j]
  <2>1. i < j \/ j < i
    BY <1>1, <1>2
  <2>2. e[i] \in Int /\ e[j] \in Int
    BY <1>1 DEF Thinned
  <2> QED
    BY <2>1, <2>2 DEF Thinned
<1> QED
  BY <1>2 DEF GoodRow, Thinned

\* The raw points that are left ascend as before.
LEMMA ThinnedRaw ==
  ASSUME NEW rs, GoodRaw(rs), NEW qs \in Seq(RawPoints), NEW e, Thinned(rs, qs, e)
  PROVE  GoodRaw(qs)
BY DEF GoodRaw, Thinned

\* LastOf drops d members at the front.
LEMMA LastOfIs ==
  ASSUME NEW S, NEW s \in Seq(S), NEW n \in Nat
  PROVE  LET d == IF Len(s) > n THEN Len(s) - n ELSE 0
         IN  /\ LastOf(s, n) \in Seq(S) /\ Len(LastOf(s, n)) = Len(s) - d
             /\ DOMAIN LastOf(s, n) = 1..(Len(s) - d)
             /\ \A i \in 1..(Len(s) - d) : LastOf(s, n)[i] = s[i + d]
             /\ Thinned(s, LastOf(s, n), [i \in 1..(Len(s) - d) |-> i + d])
<1> DEFINE d == IF Len(s) > n THEN Len(s) - n ELSE 0
           c == LastOf(s, n)
           m == Len(s)
<1>1. m \in Nat /\ d \in 0..m
  OBVIOUS
<1>2. c = SubSeq(s, d + 1, m)
  BY <1>1 DEF LastOf
<1> HIDE DEF d, c
<1>3. c \in Seq(S) /\ Len(c) = m - d /\ \A i \in 1..(m - d) : c[i] = s[i + d]
  <2>1. d + 1 \in 1..(m + 1) /\ m \in (d + 1 - 1)..m
    BY <1>1
  <2>2. /\ c \in Seq(S)
        /\ Len(c) = IF d + 1 <= m THEN m - (d + 1) + 1 ELSE 0
        /\ \A i \in 1..(m - (d + 1) + 1) : c[i] = s[(d + 1) + i - 1]
    BY <1>1, <1>2, <2>1
  <2> QED
    BY <2>2, <1>1
<1>4. DOMAIN c = 1..(m - d)
  BY <1>3, <1>1
<1>5. Thinned(s, c, [i \in 1..(m - d) |-> i + d])
  BY <1>1, <1>3, <1>4 DEF Thinned
<1> QED
  BY <1>3, <1>4, <1>5 DEF c, d

\* The recursive function of keepSince exists.
LEMMA SinceFcn ==
  ASSUME NEW s \in Seq(RawPoints \cup Buckets), NEW cut
  PROVE  \E g : g = [k \in 0..Len(s) |->
                       IF k = 0 THEN <<>>
                       ELSE IF s[k].ts >= cut THEN Append(g[k - 1], s[k]) ELSE g[k - 1]]
<1> DEFINE Upto(m, g) ==
             g = [k \in 0..m |->
                    IF k = 0 THEN <<>>
                    ELSE IF s[k].ts >= cut THEN Append(g[k - 1], s[k]) ELSE g[k - 1]]
           T == {m \in Nat : ~\E g : Upto(m, g)}
<1>1. T = {}
  <2> SUFFICES ASSUME T # {} PROVE FALSE
    OBVIOUS
  <2>1. PICK m \in T : \A h \in T : m <= h
    BY LeastExists
  <2>2. m # 0
    <3> DEFINE g == [k \in 0..0 |-> <<>>]
    <3>1. g = [k \in 0..0 |->
                    IF k = 0 THEN <<>>
                    ELSE IF s[k].ts >= cut THEN Append(g[k - 1], s[k]) ELSE g[k - 1]]
      OBVIOUS
    <3>2. Upto(0, g)
      BY <3>1
    <3> QED
      BY <3>2
  <2>3. m - 1 \in Nat /\ m - 1 \notin T
    <3>1. m \in Nat
      OBVIOUS
    <3> HIDE DEF T
    <3> QED
      BY <2>1, <2>2, <3>1
  <2>4. PICK g : Upto(m - 1, g)
    BY <2>3
  <2> DEFINE lastOne == IF s[m].ts >= cut THEN Append(g[m - 1], s[m]) ELSE g[m - 1]
             f == [k \in 0..m |-> IF k = m THEN lastOne ELSE g[k]]
  <2>5. \A k \in 0..(m - 1) : g[k] = IF k = 0 THEN <<>>
                    ELSE IF s[k].ts >= cut THEN Append(g[k - 1], s[k]) ELSE g[k - 1]
    BY <2>4
  <2> HIDE DEF lastOne
  <2>6. f[m] = lastOne /\ \A k \in 0..(m - 1) : f[k] = g[k] /\ k # m
    BY <2>3
  <2>7. ASSUME NEW k \in 0..m
        PROVE  f[k] = IF k = 0 THEN <<>>
                      ELSE IF s[k].ts >= cut THEN Append(f[k - 1], s[k]) ELSE f[k - 1]
    <3>1. CASE k = m
      <4>1. k # 0 /\ f[k - 1] = g[m - 1] /\ f[k] = lastOne
        BY <3>1, <2>2, <2>3, <2>6
      <4> QED
        BY <4>1, <3>1 DEF lastOne
    <3>2. CASE k = 0
      BY <3>2, <2>2, <2>3, <2>5, <2>6
    <3>3. CASE k # m /\ k # 0
      <4>1. k \in 0..(m - 1) /\ k - 1 \in 0..(m - 1)
        BY <3>3, <2>3
      <4> QED
        BY <4>1, <3>3, <2>5, <2>6
    <3> QED
      BY <3>1, <3>2, <3>3
  <2>8. f = [k \in 0..m |->
               IF k = 0 THEN <<>>
               ELSE IF s[k].ts >= cut THEN Append(f[k - 1], s[k]) ELSE f[k - 1]]
    <3> DEFINE e == [k \in 0..m |->
               IF k = 0 THEN <<>>
               ELSE IF s[k].ts >= cut THEN Append(f[k - 1], s[k]) ELSE f[k - 1]]
    <3>1. \A k \in 0..m : f[k] = e[k]
      BY <2>7
    <3>2. f = [k \in 0..m |-> f[k]] /\ e = [k \in 0..m |-> e[k]]
      OBVIOUS
    <3> HIDE DEF e, f
    <3> QED
      BY <3>1, <3>2 DEF e
  <2>9. Upto(m, f)
    BY <2>8
  <2> QED
    BY <2>1, <2>9
<1>2. Len(s) \in Nat
  OBVIOUS
<1>3. \E g : Upto(Len(s), g)
  BY <1>1, <1>2
<1> QED
  BY <1>3

\* Of the first k members of s, cs has those from cut on; e says where each was.
Keeps(s, cut, k, cs, e) ==
  /\ e \in [DOMAIN cs -> 1..k]
  /\ \A i, j \in DOMAIN cs : i < j => e[i] < e[j]
  /\ \A i \in DOMAIN cs : cs[i] = s[e[i]] /\ s[e[i]].ts >= cut
  /\ \A j \in 1..k : s[j].ts >= cut => \E i \in DOMAIN cs : e[i] = j

\* One more member that is kept.
LEMMA KeepsMore ==
  ASSUME NEW S, NEW s \in Seq(S), NEW cut, NEW k \in Nat, k + 1 <= Len(s),
         s[k + 1].ts >= cut, NEW cs \in Seq(S), NEW e, Keeps(s, cut, k, cs, e)
  PROVE  /\ Append(cs, s[k + 1]) \in Seq(S)
         /\ \E d : Keeps(s, cut, k + 1, Append(cs, s[k + 1]), d)
<1> DEFINE m == Len(cs)
           x == s[k + 1]
           ds == Append(cs, x)
           d == [i \in 1..(m + 1) |-> IF i = m + 1 THEN k + 1 ELSE e[i]]
<1>1. m \in Nat /\ DOMAIN cs = 1..m /\ x \in S /\ k + 1 \in 1..Len(s)
  OBVIOUS
<1>2. ds \in Seq(S) /\ DOMAIN ds = 1..(m + 1) /\ ds[m + 1] = x /\ \A i \in 1..m : ds[i] = cs[i]
  BY <1>1
<1>3. d[m + 1] = k + 1 /\ \A i \in 1..m : d[i] = e[i] /\ e[i] \in 1..k
  BY <1>1 DEF Keeps
<1>4. \A i \in 1..(m + 1) : i \in 1..m \/ i = m + 1
  BY <1>1
<1>5. d \in [1..(m + 1) -> 1..(k + 1)]
  <2>1. ASSUME NEW i \in 1..(m + 1) PROVE (IF i = m + 1 THEN k + 1 ELSE e[i]) \in 1..(k + 1)
    <3>1. i # m + 1 => e[i] \in 1..k
      BY <1>3, <1>4
    <3>2. k + 1 \in 1..(k + 1) /\ \A y \in 1..k : y \in 1..(k + 1)
      OBVIOUS
    <3> QED
      BY <3>1, <3>2
  <2> QED
    BY <2>1
<1> HIDE DEF m, x, ds, d
<1>6. \A i, j \in 1..(m + 1) : i < j => d[i] < d[j]
  <2> SUFFICES ASSUME NEW i \in 1..(m + 1), NEW j \in 1..(m + 1), i < j PROVE d[i] < d[j]
    OBVIOUS
  <2>1. i \in 1..m
    BY <1>1
  <2>2. CASE j \in 1..m
    <3>1. e[i] < e[j]
      BY <2>1, <2>2, <1>1 DEF Keeps
    <3> QED
      BY <3>1, <2>1, <2>2, <1>3
  <2>3. CASE j = m + 1
    BY <2>1, <2>3, <1>3
  <2> QED
    BY <2>2, <2>3, <1>4
<1>7. \A i \in 1..(m + 1) : ds[i] = s[d[i]] /\ s[d[i]].ts >= cut
  <2>1. \A i \in 1..m : ds[i] = s[d[i]] /\ s[d[i]].ts >= cut
    BY <1>1, <1>2, <1>3 DEF Keeps
  <2> QED
    BY <2>1, <1>2, <1>3, <1>4 DEF x
<1>8. ASSUME NEW j \in 1..(k + 1), s[j].ts >= cut PROVE \E i \in 1..(m + 1) : d[i] = j
  <2>1. CASE j = k + 1
    <3>1. m + 1 \in 1..(m + 1)
      BY <1>1
    <3> QED
      BY <3>1, <2>1, <1>3
  <2>2. CASE j # k + 1
    <3>1. j \in 1..k
      BY <2>2
    <3>2. PICK i \in 1..m : e[i] = j
      BY <3>1, <1>8, <1>1 DEF Keeps
    <3>3. i \in 1..(m + 1)
      BY <1>1
    <3> QED
      BY <3>2, <3>3, <1>3
  <2> QED
    BY <2>1, <2>2
<1>9. Keeps(s, cut, k + 1, ds, d)
  BY <1>2, <1>5, <1>6, <1>7, <1>8 DEF Keeps
<1> QED
  BY <1>2, <1>9 DEF ds, x

\* One more member that is not kept.
LEMMA KeepsSame ==
  ASSUME NEW S, NEW s \in Seq(S), NEW cut, NEW k \in Nat, k + 1 <= Len(s),
         ~(s[k + 1].ts >= cut), NEW cs \in Seq(S), NEW e, Keeps(s, cut, k, cs, e)
  PROVE  Keeps(s, cut, k + 1, cs, e)
<1>1. \A i \in 1..(k + 1) : i \in 1..k \/ i = k + 1
  OBVIOUS
<1>2. 1..k \subseteq 1..(k + 1)
  OBVIOUS
<1> QED
  BY <1>1, <1>2 DEF Keeps

\* keepSince: the members from cut on in their order, all of them.
LEMMA SinceIs ==
  ASSUME NEW S, S \subseteq RawPoints \cup Buckets, NEW s \in Seq(S), NEW cut
  PROVE  /\ Since(s, cut) \in Seq(S)
         /\ \E e : Keeps(s, cut, Len(s), Since(s, cut), e)
<1> DEFINE n == Len(s)
           Fcn(g) == g = [k \in 0..n |->
                            IF k = 0 THEN <<>>
                            ELSE IF s[k].ts >= cut THEN Append(g[k - 1], s[k]) ELSE g[k - 1]]
           f == CHOOSE g : Fcn(g)
<1>1. s \in Seq(RawPoints \cup Buckets) /\ n \in Nat
  OBVIOUS
<1>2. \E g : Fcn(g)
  BY <1>1, SinceFcn
<1>3. Fcn(f)
  BY <1>2
<1>4. Since(s, cut) = f[n]
  BY DEF Since
<1> HIDE DEF f
<1>5. \A k \in 0..n : f[k] = IF k = 0 THEN <<>>
                             ELSE IF s[k].ts >= cut THEN Append(f[k - 1], s[k]) ELSE f[k - 1]
  BY <1>3
<1> DEFINE Ok(k) == f[k] \in Seq(S) /\ \E e : Keeps(s, cut, k, f[k], e)
           T == {k \in 0..n : ~Ok(k)}
<1>6. T = {}
  <2> SUFFICES ASSUME T # {} PROVE FALSE
    OBVIOUS
  <2>1. T \subseteq Nat
    OBVIOUS
  <2>2. PICK k \in T : \A h \in T : k <= h
    BY <2>1, LeastExists
  <2>3. k \in 0..n /\ ~Ok(k)
    BY <2>2
  <2>4. k # 0
    <3> DEFINE e == [i \in {} |-> 0]
    <3>1. f[0] = <<>>
      BY <1>1, <1>5
    <3>2. <<>> \in Seq(S) /\ DOMAIN <<>> = {}
      OBVIOUS
    <3>3. Keeps(s, cut, 0, <<>>, e)
      BY <3>2 DEF Keeps
    <3>4. Ok(0)
      BY <3>1, <3>2, <3>3
    <3> QED
      BY <3>4, <2>3
  <2>5. k - 1 \in 0..n /\ Ok(k - 1) /\ k - 1 \in Nat /\ (k - 1) + 1 = k
    <3>1. k - 1 \in 0..n
      BY <2>3, <2>4
    <3>2. k - 1 \notin T
      <4> HIDE DEF T
      <4> QED
        BY <2>2, <2>3
    <3> QED
      BY <3>1, <3>2
  <2>6. PICK e : Keeps(s, cut, k - 1, f[k - 1], e)
    BY <2>5
  <2>7. CASE s[k].ts >= cut
    <3>1. f[k] = Append(f[k - 1], s[k])
      BY <2>3, <2>4, <2>7, <1>5
    <3> DEFINE j == k - 1
    <3>2. /\ j \in Nat /\ j + 1 = k /\ j + 1 <= Len(s) /\ s[j + 1].ts >= cut
          /\ f[j] \in Seq(S) /\ Keeps(s, cut, j, f[j], e)
      BY <2>3, <2>5, <2>6, <2>7
    <3> HIDE DEF j
    <3>3. /\ Append(f[j], s[j + 1]) \in Seq(S)
          /\ \E d : Keeps(s, cut, j + 1, Append(f[j], s[j + 1]), d)
      BY <3>2, KeepsMore
    <3>4. Append(f[j], s[j + 1]) = f[k] /\ j + 1 = k
      BY <3>1, <3>2 DEF j
    <3>5. Ok(k)
      BY <3>3, <3>4
    <3> QED
      BY <3>5, <2>3
  <2>8. CASE ~(s[k].ts >= cut)
    <3>1. f[k] = f[k - 1]
      BY <2>3, <2>4, <2>8, <1>5
    <3> DEFINE j == k - 1
    <3>2. /\ j \in Nat /\ j + 1 = k /\ j + 1 <= Len(s) /\ ~(s[j + 1].ts >= cut)
          /\ f[j] \in Seq(S) /\ Keeps(s, cut, j, f[j], e)
      BY <2>3, <2>5, <2>6, <2>8
    <3> HIDE DEF j
    <3>3. Keeps(s, cut, j + 1, f[j], e)
      BY <3>2, KeepsSame
    <3>4. f[j] = f[k] /\ j + 1 = k
      BY <3>1, <3>2 DEF j
    <3>5. Ok(k)
      BY <3>2, <3>3, <3>4
    <3> QED
      BY <3>5, <2>3
  <2> QED
    BY <2>7, <2>8
<1>7. Ok(n)
  BY <1>6, <1>1
<1> QED
  BY <1>4, <1>7

\* Buckets that lie k places apart are k bucket lengths apart.
LEMMA Spacing ==
  ASSUME NEW t \in DOMAIN Tiers, NEW bs, GoodRow(t, bs), NEW i \in DOMAIN bs
  PROVE  \A j \in i..Len(bs) : bs[i].ts + (j - i) * Tiers[t].bucket <= bs[j].ts
<1> DEFINE b == Tiers[t].bucket
           n == Len(bs)
           T == {j \in i..n : ~(bs[i].ts + (j - i) * b <= bs[j].ts)}
<1>1. b \in Nat \ {0}
  BY TierAssumption
<1>2. n \in Nat /\ i \in 1..n /\ DOMAIN bs = 1..n
  BY DEF GoodRow
<1>3. \A j \in 1..n : bs[j].ts \in Nat /\ bs[j].ts % b = 0
  <2>1. \A j \in 1..n : bs[j] \in Buckets
    BY <1>2 DEF GoodRow
  <2>2. \A j \in 1..n : bs[j].ts % b = 0
    BY <1>2 DEF GoodRow
  <2> QED
    BY <2>1, <2>2 DEF Buckets
<1> HIDE DEF b
<1>4. T = {}
  <2> SUFFICES ASSUME T # {} PROVE FALSE
    OBVIOUS
  <2>1. T \subseteq Nat
    BY <1>2
  <2>2. PICK j \in T : \A h \in T : j <= h
    BY <2>1, LeastExists
  <2>3. j \in i..n /\ ~(bs[i].ts + (j - i) * b <= bs[j].ts)
    BY <2>2
  <2>4. j # i
    <3>1. (i - i) * b = 0
      BY <1>1, <1>2
    <3> QED
      BY <3>1, <2>3, <1>2, <1>3
  <2>5. j - 1 \in i..n /\ j - 1 \notin T
    <3>1. j - 1 \in i..n
      BY <2>3, <2>4, <1>2
    <3> HIDE DEF T
    <3> QED
      BY <3>1, <2>2, <2>3, <1>2
  <2>6. bs[i].ts + ((j - 1) - i) * b <= bs[j - 1].ts
    BY <2>5
  <2>7. bs[j - 1].ts + b <= bs[j].ts
    <3>1. j - 1 \in 1..n /\ j \in 1..n /\ j - 1 < j
      BY <2>3, <2>5, <1>2
    <3>2. bs[j - 1].ts < bs[j].ts
      BY <3>1, <1>2 DEF GoodRow
    <3> QED
      BY <3>1, <3>2, <1>1, <1>3, BucketsApart
  <2>8. ((j - 1) - i) * b + b = (j - i) * b /\ ((j - 1) - i) * b \in Int
    BY <1>1, <1>2, <2>3
  <2>9. bs[j - 1].ts \in Nat /\ bs[j].ts \in Nat /\ bs[i].ts \in Nat
    BY <1>2, <1>3, <2>3, <2>5
  <2> DEFINE x == ((j - 1) - i) * b
             y == (j - i) * b
             u == bs[i].ts
             v == bs[j - 1].ts
             w == bs[j].ts
  <2>10. x \in Int /\ x + b = y /\ ~(u + y <= w) /\ u + x <= v /\ v + b <= w
    BY <2>3, <2>6, <2>7, <2>8
  <2>11. u \in Nat /\ v \in Nat /\ w \in Nat
    BY <2>9
  <2> HIDE DEF x, y, u, v, w
  <2> QED
    BY <2>10, <2>11, <1>1
<1> QED
  BY <1>4 DEF b

\* What push makes of the buckets bs of a tier: the last one takes the point, or a
\* new one does and d of the oldest are dropped.
Added(t, bs, cs, p) ==
  /\ Len(bs) > 0 /\ BucketStart(t, p.ts) <= bs[Len(bs)].ts /\ Len(cs) = Len(bs)
  /\ \A i \in 1..(Len(bs) - 1) : cs[i] = bs[i]
  /\ cs[Len(bs)] = AddTo(bs[Len(bs)], p)
Opened(t, bs, cs, p, d) ==
  /\ d \in 0..Len(bs) /\ (d > 0 => Len(bs) - d >= Tiers[t].capacity)
  /\ Len(cs) = (Len(bs) - d) + 1
  /\ \A i \in 1..(Len(bs) - d) : cs[i] = bs[i + d] \/ cs[i] = Mean(bs[i + d])
  /\ cs[(Len(bs) - d) + 1] = AddTo([ts |-> BucketStart(t, p.ts), parts |-> <<>>], p)
  /\ Len(bs) > 0 => bs[Len(bs)].ts < BucketStart(t, p.ts)

\* A tier with an open bucket, without one.
LEMMA RowIs ==
  ASSUME NEW r \in TierType, Len(r.open) \in {0, 1}
  PROVE  /\ Row(r) \in Seq(Buckets)
         /\ r.open = <<>> => Row(r) = r.pts
         /\ r.open # <<>> => /\ r.open = <<r.open[1]>> /\ r.open[1] \in Buckets
                             /\ Len(Row(r)) = Len(r.pts) + 1
                             /\ \A i \in 1..Len(r.pts) : Row(r)[i] = r.pts[i]
                             /\ Row(r)[Len(r.pts) + 1] = r.open[1]
<1>1. r.pts \in Seq(Buckets) /\ r.open \in Seq(Buckets)
  BY DEF TierType
<1>2. CASE r.open = <<>>
  <2>1. Row(r) = r.pts
    BY <1>1, <1>2, ConcatEmptySeq DEF Row
  <2> QED
    BY <2>1, <1>1, <1>2
<1>3. CASE r.open # <<>>
  <2>1. Len(r.open) = 1 /\ r.open[1] \in Buckets
    <3>1. Len(r.open) # 0
      BY <1>1, <1>3, EmptySeq
    <3>2. Len(r.open) = 1
      BY <3>1
    <3> QED
      BY <3>2, <1>1
  <2>2. r.open = <<r.open[1]>>
    BY <1>1, <2>1
  <2>3. /\ Row(r) \in Seq(Buckets) /\ Len(Row(r)) = Len(r.pts) + 1
        /\ \A i \in 1..(Len(r.pts) + 1) :
             Row(r)[i] = IF i <= Len(r.pts) THEN r.pts[i] ELSE r.open[i - Len(r.pts)]
    <3> DEFINE a == r.pts
               c == r.open
    <3>1. a \in Seq(Buckets) /\ c \in Seq(Buckets) /\ Len(c) = 1
      BY <1>1, <2>1
    <3> HIDE DEF a, c
    <3>2. /\ a \o c \in Seq(Buckets) /\ Len(a \o c) = Len(a) + Len(c)
          /\ \A i \in 1..(Len(a) + Len(c)) :
               (a \o c)[i] = IF i <= Len(a) THEN a[i] ELSE c[i - Len(a)]
      BY <3>1, ConcatProperties, Zenon
    <3> QED
      BY <3>1, <3>2, Zenon DEF Row, a, c
  <2>4. Len(r.pts) \in Nat
    BY <1>1
  <2>5. \A i \in 1..Len(r.pts) : Row(r)[i] = r.pts[i]
    BY <2>3, <2>4
  <2>6. Row(r)[Len(r.pts) + 1] = r.open[1]
    BY <2>3, <2>4
  <2> QED
    BY <1>3, <2>1, <2>2, <2>3, <2>5, <2>6
<1> QED
  BY <1>2, <1>3

\* A tier with closed buckets a and the open bucket o.
LEMMA OpenTier ==
  ASSUME NEW a \in Seq(Buckets), NEW o \in Buckets, NEW q, q = [pts |-> a, open |-> <<o>>]
  PROVE  /\ q \in TierType /\ Len(q.open) \in {0, 1} /\ q.pts = a
         /\ Len(Row(q)) = Len(a) + 1 /\ Row(q)[Len(a) + 1] = o
         /\ \A i \in 1..Len(a) : Row(q)[i] = a[i]
<1> DEFINE os == <<o>>
<1>1. os \in Seq(Buckets) /\ Len(os) \in {0, 1} /\ os[1] = o /\ os # <<>>
  OBVIOUS
<1>2. q = [pts |-> a, open |-> os]
  OBVIOUS
<1> HIDE DEF os
<1>3. q.pts = a /\ q.open = os /\ q \in TierType
  BY <1>1, <1>2 DEF TierType
<1> QED
  BY <1>1, <1>3, RowIs

\* push: the three ways.
LEMMA PushIs ==
  ASSUME NEW t \in DOMAIN Tiers, NEW r \in TierType, Len(r.open) \in {0, 1}, NEW p \in RawPoints
  PROVE  LET q == PushTier(t, r, p)
         IN  /\ q \in TierType /\ Len(q.open) \in {0, 1}
             /\ Added(t, Row(r), Row(q), p) \/ \E d \in Nat : Opened(t, Row(r), Row(q), p, d)
<1> DEFINE s == BucketStart(t, p.ts)
           q == PushTier(t, r, p)
           nb == AddTo([ts |-> s, parts |-> <<>>], p)
           cap == Tiers[t].capacity
<1>1. s \in Nat /\ p.ts \in Nat
  BY BucketIs DEF RawPoints
<1>2. nb \in Buckets
  BY <1>1, NewIs
<1>3. cap \in Nat
  BY TierAssumption
<1>4. r.pts \in Seq(Buckets) /\ r.open \in Seq(Buckets)
  BY DEF TierType
<1> DEFINE n == Len(r.pts)
<1> HIDE DEF s, cap, nb, n
<1>5. n \in Nat /\ DOMAIN r.pts = 1..n
  BY <1>4 DEF n
\* The open bucket takes it.
<1>6. CASE r.open # <<>> /\ ~(s > r.open[1].ts)
  <2> DEFINE o == AddTo(r.open[1], p)
  <2>1. r.open = <<r.open[1]>> /\ r.open[1] \in Buckets
    BY <1>6, RowIs
  <2>2. o \in Buckets
    BY <2>1, AddIs
  <2>3. q = [r EXCEPT !.open = <<o>>]
    BY <1>6 DEF PushTier, s
  <2> HIDE DEF o, q
  <2>4. q = [pts |-> r.pts, open |-> <<o>>]
    BY <2>3 DEF TierType
  <2>5. /\ q \in TierType /\ Len(q.open) \in {0, 1}
        /\ Len(Row(q)) = n + 1 /\ Row(q)[n + 1] = o
        /\ \A i \in 1..n : Row(q)[i] = r.pts[i]
    BY <2>2, <2>4, <1>4, OpenTier DEF n
  <2>6. /\ Len(Row(r)) = n + 1 /\ Row(r)[n + 1] = r.open[1]
        /\ \A i \in 1..n : Row(r)[i] = r.pts[i]
    BY <1>6, RowIs DEF n
  <2>7. r.open[1].ts \in Nat
    BY <2>1 DEF Buckets
  <2>8. Added(t, Row(r), Row(q), p)
    BY <2>5, <2>6, <2>7, <1>1, <1>5, <1>6 DEF Added, o, s
  <2> QED
    BY <2>5, <2>8 DEF q
\* It is closed and a new one takes it.
<1>7. CASE r.open # <<>> /\ s > r.open[1].ts
  <2> DEFINE a == Append(r.pts, Mean(r.open[1]))
             l == LastOf(a, cap)
             d == IF Len(a) > cap THEN Len(a) - cap ELSE 0
             c == [pts |-> l, open |-> <<>>]
  <2>1. r.open[1] \in Buckets /\ Mean(r.open[1]) \in Buckets /\ r.open[1].ts \in Nat
        /\ Mean(r.open[1]).ts = r.open[1].ts
    BY <1>7, RowIs, MeanIs DEF Buckets
  <2>2. a \in Seq(Buckets) /\ Len(a) = n + 1 /\ a[n + 1] = Mean(r.open[1])
        /\ \A i \in 1..n : a[i] = r.pts[i]
    BY <2>1, <1>4 DEF n
  <2>3. CloseOpen(t, r) = c
    BY <1>7 DEF CloseOpen, cap
  <2> HIDE DEF a, c
  <2>4. /\ l \in Seq(Buckets) /\ Len(l) = Len(a) - d
        /\ DOMAIN l = 1..(Len(a) - d) /\ \A i \in 1..(Len(a) - d) : l[i] = a[i + d]
    BY <2>2, <1>3, LastOfIs
  <2>5. d \in 0..(n + 1) /\ (d > 0 => (n + 1) - d >= cap)
    BY <2>2, <1>3, <1>5
  <2> HIDE DEF d, l
  <2>6. c.open = <<>> /\ c.pts = l
    BY DEF c
  <2>7. c.pts # <<>> => ~(s <= Last(c.pts).ts)
    <3> SUFFICES ASSUME l # <<>> PROVE ~(s <= Last(l).ts)
      BY <2>6
    <3>1. Len(l) > 0 /\ Len(l) \in 1..(Len(a) - d)
      BY <2>4
    <3>2. Last(l) = a[n + 1]
      BY <3>1, <2>2, <2>4, <2>5, <1>5 DEF Last
    <3> QED
      BY <3>2, <2>1, <2>2, <1>1, <1>7
  <2>8. q = [c EXCEPT !.open = <<nb>>]
    BY <1>7, <2>3, <2>6, <2>7 DEF PushTier, s, nb
  <2> HIDE DEF q
  <2>9. q = [pts |-> l, open |-> <<nb>>]
    BY <2>8 DEF c
  <2>10. /\ q \in TierType /\ Len(q.open) \in {0, 1}
         /\ Len(Row(q)) = Len(l) + 1 /\ Row(q)[Len(l) + 1] = nb
         /\ \A i \in 1..Len(l) : Row(q)[i] = l[i]
    BY <2>4, <2>9, <1>2, OpenTier
  <2>11. /\ Len(Row(r)) = n + 1 /\ Row(r)[n + 1] = r.open[1]
         /\ \A i \in 1..n : Row(r)[i] = r.pts[i]
    BY <1>7, RowIs DEF n
  <2>12. Len(l) = (n + 1) - d
    BY <2>2, <2>4
  <2>13. ASSUME NEW i \in 1..((n + 1) - d)
         PROVE  Row(q)[i] = Row(r)[i + d] \/ Row(q)[i] = Mean(Row(r)[i + d])
    <3>1. i + d \in 1..(n + 1) /\ i \in 1..Len(l)
      BY <2>5, <2>12, <1>5
    <3>2. Row(q)[i] = a[i + d]
      BY <3>1, <2>2, <2>4, <2>10
    <3>3. CASE i + d = n + 1
      BY <3>2, <3>3, <2>2, <2>11
    <3>4. CASE i + d \in 1..n
      BY <3>2, <3>4, <2>2, <2>11
    <3> QED
      BY <3>1, <3>3, <3>4, <1>5
  <2>14. Opened(t, Row(r), Row(q), p, d)
    BY <2>1, <2>5, <2>10, <2>11, <2>12, <2>13, <1>1, <1>7 DEF Opened, s, nb, cap
  <2>15. d \in Nat
    BY <2>5, <1>5
  <2> QED
    BY <2>10, <2>14, <2>15 DEF q
\* The last closed bucket is opened again.
<1>8. CASE r.open = <<>> /\ r.pts # <<>> /\ s <= Last(r.pts).ts
  <2> DEFINE o == AddTo(Last(r.pts), p)
             f == Front(r.pts)
  <2>1. n >= 1 /\ Last(r.pts) = r.pts[n] /\ r.pts[n] \in Buckets
    BY <1>8, <1>4, <1>5 DEF n, Last
  <2>2. o \in Buckets
    BY <2>1, AddIs
  <2>3. f \in Seq(Buckets) /\ Len(f) = n - 1 /\ \A i \in 1..(n - 1) : f[i] = r.pts[i]
    BY <2>1, <1>4, <1>5 DEF Front, n
  <2>4. q = [pts |-> f, open |-> <<o>>]
    BY <1>8 DEF PushTier, s
  <2> HIDE DEF o, f, q
  <2>6. /\ q \in TierType /\ Len(q.open) \in {0, 1}
        /\ Len(Row(q)) = Len(f) + 1 /\ Row(q)[Len(f) + 1] = o
        /\ \A i \in 1..Len(f) : Row(q)[i] = f[i]
    BY <2>2, <2>3, <2>4, OpenTier
  <2>7. Len(Row(q)) = n /\ Row(q)[n] = o /\ \A i \in 1..(n - 1) : Row(q)[i] = r.pts[i]
    BY <2>1, <2>3, <2>6, <1>5
  <2>8. Row(r) = r.pts
    BY <1>8, RowIs
  <2>9. Added(t, Row(r), Row(q), p)
    BY <2>1, <2>7, <2>8, <1>5, <1>8 DEF Added, o, s, n
  <2> QED
    BY <2>6, <2>9 DEF q
\* A new bucket.
<1>9. CASE r.open = <<>> /\ ~(r.pts # <<>> /\ s <= Last(r.pts).ts)
  <2>1. q = [r EXCEPT !.open = <<nb>>]
    BY <1>9 DEF PushTier, s, nb
  <2> HIDE DEF q
  <2>2. q = [pts |-> r.pts, open |-> <<nb>>]
    BY <2>1 DEF TierType
  <2>3. /\ q \in TierType /\ Len(q.open) \in {0, 1}
        /\ Len(Row(q)) = n + 1 /\ Row(q)[n + 1] = nb
        /\ \A i \in 1..n : Row(q)[i] = r.pts[i]
    BY <2>2, <1>2, <1>4, OpenTier DEF n
  <2>4. Row(r) = r.pts
    BY <1>9, RowIs
  <2>5. n > 0 => r.pts[n].ts < s
    <3> SUFFICES ASSUME n > 0 PROVE r.pts[n].ts < s
      OBVIOUS
    <3>1. r.pts # <<>> /\ Last(r.pts) = r.pts[n] /\ r.pts[n] \in Buckets
      BY <1>4, <1>5 DEF n, Last
    <3>2. r.pts[n].ts \in Nat
      BY <3>1 DEF Buckets
    <3> QED
      BY <3>1, <3>2, <1>1, <1>9
  <2>6. Opened(t, Row(r), Row(q), p, 0)
    BY <2>3, <2>4, <2>5, <1>5 DEF Opened, s, nb, n
  <2> QED
    BY <2>3, <2>6 DEF q
<1> QED
  BY <1>6, <1>7, <1>8, <1>9

\* What one more point does to the points of the buckets: where those of cs come
\* from, what is lost of bs, and where the point is.
Pushed(t, bs, cs, p) ==
  LET s == BucketStart(t, p.ts) IN
  /\ \A i \in DOMAIN cs : \A x \in Points(cs[i]) :
       \/ x = p.n /\ s <= cs[i].ts
       \/ \E j \in DOMAIN bs : bs[j].ts = cs[i].ts /\ x \in Points(bs[j])
  /\ \A i \in DOMAIN cs : cs[i].ts = s \/ \E j \in DOMAIN bs : bs[j].ts = cs[i].ts
  /\ \A j \in DOMAIN bs :
       \/ \E i \in DOMAIN cs : cs[i].ts = bs[j].ts /\ Points(bs[j]) \subseteq Points(cs[i])
       \/ bs[j].ts + Tiers[t].capacity * Tiers[t].bucket + Tiers[t].bucket <= s
  /\ \E i \in DOMAIN cs :
       /\ p.n \in Points(cs[i])
       /\ cs[i].ts = s \/ (\E j \in DOMAIN bs : bs[j].ts = cs[i].ts /\ s < cs[i].ts)

NewTo(bs, p) == \A i \in DOMAIN bs : p.n \notin Points(bs[i])

\* The last bucket takes the point.
LEMMA AddedGood ==
  ASSUME NEW t \in DOMAIN Tiers, NEW bs, GoodRow(t, bs), NEW p \in RawPoints, NewTo(bs, p),
         NEW cs \in Seq(Buckets), Added(t, bs, cs, p)
  PROVE  GoodRow(t, cs) /\ Pushed(t, bs, cs, p)
<1> DEFINE n == Len(bs)
           s == BucketStart(t, p.ts)
<1>1. /\ n \in Nat /\ n > 0 /\ DOMAIN bs = 1..n /\ DOMAIN cs = 1..n
      /\ \A i \in 1..n : bs[i] \in Buckets
  BY DEF GoodRow, Added
<1>2. s \in Nat
  BY BucketIs DEF RawPoints
<1>3. /\ s <= bs[n].ts /\ cs[n] = AddTo(bs[n], p)
      /\ \A i \in 1..n : i # n => cs[i] = bs[i]
  <2>1. /\ s <= bs[n].ts /\ cs[n] = AddTo(bs[n], p)
        /\ \A i \in 1..(n - 1) : cs[i] = bs[i]
    BY DEF Added
  <2>2. n \in Nat
    BY <1>1
  <2> HIDE DEF n
  <2>3. \A i \in 1..n : i # n => i \in 1..(n - 1)
    BY <2>2
  <2> QED
    BY <2>1, <2>3
<1> HIDE DEF n, s
<1>4. n \in 1..n
  BY <1>1
<1>5. cs[n].ts = bs[n].ts /\ Points(cs[n]) = Points(bs[n]) \cup {p.n} /\ Own(cs[n])
  <2>1. Own(bs[n]) /\ p.n \notin Points(bs[n])
    BY <1>1, <1>4 DEF GoodRow, NewTo
  <2> QED
    BY <2>1, <1>1, <1>3, <1>4, AddIs
<1>6. \A i \in 1..n : cs[i].ts = bs[i].ts /\ Points(bs[i]) \subseteq Points(cs[i])
  BY <1>3, <1>5
<1>7. \A i \in 1..n : \A x \in Points(cs[i]) : x \in Points(bs[i]) \/ (x = p.n /\ i = n)
  BY <1>3, <1>5
<1>8. GoodRow(t, cs)
  <2>1. \A i, j \in 1..n : i < j => cs[i].ts < cs[j].ts
    BY <1>1, <1>6 DEF GoodRow
  <2>2. \A i \in 1..n : cs[i].ts % Tiers[t].bucket = 0 /\ Own(cs[i])
    BY <1>1, <1>3, <1>5, <1>6 DEF GoodRow
  <2>3. ASSUME NEW i \in 1..n, NEW j \in 1..n, i # j PROVE Points(cs[i]) \cap Points(cs[j]) = {}
    <3> SUFFICES ASSUME NEW x \in Points(cs[i]), x \in Points(cs[j]) PROVE FALSE
      OBVIOUS
    <3>1. CASE x \in Points(bs[i]) /\ x \in Points(bs[j])
      BY <3>1, <2>3, <1>1 DEF GoodRow
    <3>2. CASE x = p.n /\ i = n
      BY <3>2, <2>3, <1>1, <1>3 DEF NewTo
    <3>3. CASE x = p.n /\ j = n
      BY <3>3, <2>3, <1>1, <1>3 DEF NewTo
    <3> QED
      BY <3>1, <3>2, <3>3, <1>7
  <2> QED
    BY <2>1, <2>2, <2>3, <1>1 DEF GoodRow
<1>9. bs[n].ts \in Nat
  BY <1>1, <1>4 DEF Buckets
<1>10. Pushed(t, bs, cs, p)
  <2>1. \A i \in 1..n : \A x \in Points(cs[i]) :
          \/ x = p.n /\ s <= cs[i].ts
          \/ \E j \in 1..n : bs[j].ts = cs[i].ts /\ x \in Points(bs[j])
    BY <1>3, <1>6, <1>7
  <2>2. p.n \in Points(cs[n])
        /\ (cs[n].ts = s \/ \E j \in 1..n : bs[j].ts = cs[n].ts /\ s < cs[n].ts)
    BY <1>2, <1>3, <1>4, <1>5, <1>9
  <2> QED
    BY <2>1, <2>2, <1>1, <1>4, <1>6 DEF Pushed, s
<1> QED
  BY <1>8, <1>10

\* A new bucket takes it and the oldest ones may go.
LEMMA OpenedGood ==
  ASSUME NEW t \in DOMAIN Tiers, NEW bs, GoodRow(t, bs), NEW p \in RawPoints, NewTo(bs, p),
         NEW cs \in Seq(Buckets), NEW d \in Nat, Opened(t, bs, cs, p, d)
  PROVE  GoodRow(t, cs) /\ Pushed(t, bs, cs, p)
<1> DEFINE n == Len(bs)
           m == n - d
           s == BucketStart(t, p.ts)
           b == Tiers[t].bucket
           cap == Tiers[t].capacity
<1>1. /\ n \in Nat /\ DOMAIN bs = 1..n /\ \A i \in 1..n : bs[i] \in Buckets
  BY DEF GoodRow
<1>2. s \in Nat /\ s % b = 0
  BY BucketIs DEF RawPoints
<1>3. d \in 0..n /\ m \in 0..n /\ (d > 0 => m >= cap) /\ Len(cs) = m + 1 /\ (n > 0 => bs[n].ts < s)
  BY <1>1 DEF Opened
<1>4. DOMAIN cs = 1..(m + 1)
  BY <1>3
<1>5. /\ cs[m + 1] \in Buckets /\ cs[m + 1].ts = s /\ Points(cs[m + 1]) = {p.n}
      /\ Own(cs[m + 1])
  BY <1>2, NewIs DEF Opened
<1>6. b \in Nat \ {0} /\ cap \in Nat /\ cap * b \in Nat
  BY TierAssumption
<1>7. \A i \in 1..m : cs[i] = bs[i + d] \/ cs[i] = Mean(bs[i + d])
  BY DEF Opened
<1> HIDE DEF n, s, b, cap
<1>8. \A i \in 1..n : bs[i].ts \in Nat
  BY <1>1 DEF Buckets
<1>9. \A i \in 1..m : i + d \in 1..n
  BY <1>1, <1>3
<1> HIDE DEF m
<1>10. ASSUME NEW i \in 1..m
       PROVE  cs[i].ts = bs[i + d].ts /\ Points(cs[i]) = Points(bs[i + d]) /\ Own(cs[i])
  <2>1. i + d \in 1..n /\ bs[i + d] \in Buckets /\ Own(bs[i + d])
    BY <1>1, <1>9 DEF GoodRow
  <2> QED
    BY <2>1, <1>7, MeanIs
<1>11. \A i \in 1..(m + 1) : i \in 1..m \/ i = m + 1
  BY <1>3, <1>1
<1>12. m + 1 \in 1..(m + 1) /\ 1..m \subseteq 1..(m + 1)
  BY <1>3, <1>1
<1>13. \A i \in 1..n : bs[i].ts < s
  <2> SUFFICES ASSUME NEW i \in 1..n PROVE bs[i].ts < s
    OBVIOUS
  <2>1. n > 0 /\ n \in 1..n /\ (i < n \/ i = n)
    BY <1>1
  <2>2. i < n => bs[i].ts < bs[n].ts
    BY <2>1, <1>1 DEF GoodRow
  <2> QED
    BY <2>1, <2>2, <1>2, <1>3, <1>8
<1>14. GoodRow(t, cs)
  <2>1. ASSUME NEW i \in 1..(m + 1), NEW j \in 1..(m + 1), i < j PROVE cs[i].ts < cs[j].ts
    <3>1. i \in 1..m
      BY <2>1, <1>3, <1>1
    <3>2. CASE j = m + 1
      BY <3>1, <3>2, <1>5, <1>9, <1>10, <1>13
    <3>3. CASE j \in 1..m
      <4>1. i + d \in 1..n /\ j + d \in 1..n
        BY <3>1, <3>3, <1>9
      <4>2. i + d < j + d
        BY <3>1, <3>3, <2>1
      <4> QED
        BY <4>1, <4>2, <3>1, <3>3, <1>1, <1>10 DEF GoodRow
    <3> QED
      BY <3>2, <3>3, <1>11
  <2>2. ASSUME NEW i \in 1..(m + 1) PROVE cs[i].ts % b = 0 /\ Own(cs[i])
    <3>1. CASE i = m + 1
      BY <3>1, <1>2, <1>5
    <3>2. CASE i \in 1..m
      <4>1. bs[i + d].ts % b = 0
        BY <3>2, <1>1, <1>9 DEF GoodRow, b
      <4> QED
        BY <4>1, <3>2, <1>10
    <3> QED
      BY <3>1, <3>2, <1>11
  <2>3. ASSUME NEW i \in 1..(m + 1), NEW j \in 1..(m + 1), i # j
        PROVE  Points(cs[i]) \cap Points(cs[j]) = {}
    <3>1. CASE i \in 1..m /\ j \in 1..m
      <4>1. i + d \in 1..n /\ j + d \in 1..n
        BY <3>1, <1>9
      <4>2. i + d # j + d
        BY <3>1, <2>3
      <4> QED
        BY <4>1, <4>2, <3>1, <1>1, <1>10 DEF GoodRow
    <3>2. CASE i = m + 1 /\ j \in 1..m
      BY <3>2, <1>1, <1>5, <1>9, <1>10 DEF NewTo
    <3>3. CASE j = m + 1 /\ i \in 1..m
      BY <3>3, <1>1, <1>5, <1>9, <1>10 DEF NewTo
    <3> QED
      BY <2>3, <3>1, <3>2, <3>3, <1>11
  <2> QED
    BY <2>1, <2>2, <2>3, <1>4 DEF GoodRow, b
<1>15. Pushed(t, bs, cs, p)
  <2>1. ASSUME NEW i \in 1..(m + 1)
        PROVE  /\ \A x \in Points(cs[i]) :
                    \/ x = p.n /\ s <= cs[i].ts
                    \/ \E j \in 1..n : bs[j].ts = cs[i].ts /\ x \in Points(bs[j])
               /\ cs[i].ts = s \/ \E j \in 1..n : bs[j].ts = cs[i].ts
    <3>1. CASE i = m + 1
      BY <3>1, <1>2, <1>5
    <3>2. CASE i \in 1..m
      BY <3>2, <1>9, <1>10
    <3> QED
      BY <3>1, <3>2, <1>11
  <2>2. ASSUME NEW j \in 1..n
        PROVE  \/ \E i \in 1..(m + 1) : cs[i].ts = bs[j].ts /\ Points(bs[j]) \subseteq Points(cs[i])
               \/ bs[j].ts + cap * b + b <= s
    <3>1. CASE j > d
      <4> DEFINE i == j - d
      <4>1. i \in 1..m /\ i + d = j
        BY <3>1, <1>1, <1>3 DEF m
      <4> HIDE DEF i
      <4> QED
        BY <4>1, <1>10, <1>12
    <3>2. CASE j <= d
      <4>1. n \in j..n /\ n - j >= cap /\ n \in 1..n /\ n > 0
        BY <3>2, <1>1, <1>3, <1>6 DEF m
      <4>2. bs[j].ts + (n - j) * b <= bs[n].ts
        BY <4>1, <1>1, Spacing DEF b, n
      <4>3. (n - j) * b >= cap * b /\ (n - j) * b \in Int
        BY <4>1, <1>1, <1>6
      <4>4. bs[n].ts + b <= s
        BY <4>1, <1>1, <1>2, <1>3, <1>6, <1>8, BucketsApart DEF GoodRow, b
      <4> DEFINE y == (n - j) * b
                 z == cap * b
                 u == bs[j].ts
                 v == bs[n].ts
      <4>5. /\ u \in Nat /\ v \in Nat /\ z \in Nat /\ y \in Int /\ y >= z
            /\ u + y <= v /\ v + b <= s
        BY <4>1, <4>2, <4>3, <4>4, <1>6, <1>8
      <4> HIDE DEF y, z, u, v
      <4>6. u + z + b <= s
        BY <4>5, <1>2, <1>6
      <4> QED
        BY <4>6 DEF u, z
    <3> QED
      BY <3>1, <3>2, <1>1, <1>3
  <2>3. /\ m + 1 \in 1..(m + 1) /\ p.n \in Points(cs[m + 1]) /\ cs[m + 1].ts = s
    BY <1>5, <1>12
  <2> QED
    BY <2>1, <2>2, <2>3, <1>1, <1>4 DEF Pushed, s, cap, b
<1> QED
  BY <1>14, <1>15

\* push keeps the buckets of a tier in order and disjoint.
LEMMA PushGood ==
  ASSUME NEW t \in DOMAIN Tiers, NEW r, GoodTier(t, r), NEW p \in RawPoints, NewTo(Row(r), p)
  PROVE  /\ GoodTier(t, PushTier(t, r, p))
         /\ Pushed(t, Row(r), Row(PushTier(t, r, p)), p)
<1> DEFINE q == PushTier(t, r, p)
<1>1. r \in TierType /\ Len(r.open) \in {0, 1} /\ GoodRow(t, Row(r))
  BY DEF GoodTier
<1>2. /\ q \in TierType /\ Len(q.open) \in {0, 1}
      /\ Added(t, Row(r), Row(q), p) \/ \E d \in Nat : Opened(t, Row(r), Row(q), p, d)
  BY <1>1, PushIs
<1> HIDE DEF q
<1>3. Row(q) \in Seq(Buckets)
  BY <1>2, RowIs
<1>4. GoodRow(t, Row(q)) /\ Pushed(t, Row(r), Row(q), p)
  BY <1>1, <1>2, <1>3, AddedGood, OpenedGood
<1> QED
  BY <1>2, <1>4 DEF GoodTier, q

\* The recursive function of PushAll exists.
LEMMA PushFcn ==
  ASSUME NEW t, NEW r, NEW ps, Len(ps) \in Nat
  PROVE  \E f : /\ PushAll(t, r, ps) = f[Len(ps)]
                /\ \A k \in 0..Len(ps) : f[k] = IF k = 0 THEN r ELSE PushTier(t, f[k - 1], ps[k])
<1> DEFINE Upto(m, g) == g = [k \in 0..m |-> IF k = 0 THEN r ELSE PushTier(t, g[k - 1], ps[k])]
           T == {m \in Nat : ~\E g : Upto(m, g)}
<1>1. T = {}
  <2> SUFFICES ASSUME T # {} PROVE FALSE
    OBVIOUS
  <2>1. PICK m \in T : \A h \in T : m <= h
    BY LeastExists
  <2>2. m # 0
    <3> DEFINE g == [k \in 0..0 |-> r]
    <3>1. g = [k \in 0..0 |-> IF k = 0 THEN r ELSE PushTier(t, g[k - 1], ps[k])]
      OBVIOUS
    <3>2. Upto(0, g)
      BY <3>1
    <3> QED
      BY <3>2
  <2>3. m - 1 \in Nat /\ m - 1 \notin T
    <3>1. m \in Nat
      OBVIOUS
    <3> HIDE DEF T
    <3> QED
      BY <2>1, <2>2, <3>1
  <2>4. PICK g : Upto(m - 1, g)
    BY <2>3
  <2> DEFINE lastOne == PushTier(t, g[m - 1], ps[m])
             f == [k \in 0..m |-> IF k = m THEN lastOne ELSE g[k]]
  <2>5. \A k \in 0..(m - 1) : g[k] = IF k = 0 THEN r ELSE PushTier(t, g[k - 1], ps[k])
    BY <2>4
  <2> HIDE DEF lastOne
  <2>6. f[m] = lastOne /\ \A k \in 0..(m - 1) : f[k] = g[k] /\ k # m
    BY <2>3
  <2>7. ASSUME NEW k \in 0..m
        PROVE  f[k] = IF k = 0 THEN r ELSE PushTier(t, f[k - 1], ps[k])
    <3>1. CASE k = m
      <4>1. k # 0 /\ f[k - 1] = g[m - 1] /\ f[k] = lastOne
        BY <3>1, <2>2, <2>3, <2>6
      <4> QED
        BY <4>1, <3>1 DEF lastOne
    <3>2. CASE k = 0
      BY <3>2, <2>2, <2>3, <2>5, <2>6
    <3>3. CASE k # m /\ k # 0
      <4>1. k \in 0..(m - 1) /\ k - 1 \in 0..(m - 1)
        BY <3>3, <2>3
      <4> QED
        BY <4>1, <3>3, <2>5, <2>6
    <3> QED
      BY <3>1, <3>2, <3>3
  <2>8. f = [k \in 0..m |-> IF k = 0 THEN r ELSE PushTier(t, f[k - 1], ps[k])]
    <3> DEFINE e == [k \in 0..m |-> IF k = 0 THEN r ELSE PushTier(t, f[k - 1], ps[k])]
    <3>1. \A k \in 0..m : f[k] = e[k]
      BY <2>7
    <3>2. f = [k \in 0..m |-> f[k]] /\ e = [k \in 0..m |-> e[k]]
      OBVIOUS
    <3> HIDE DEF e, f
    <3> QED
      BY <3>1, <3>2 DEF e
  <2>9. Upto(m, f)
    BY <2>8
  <2> QED
    BY <2>1, <2>9
<1>2. \E g : Upto(Len(ps), g)
  BY <1>1
<1> DEFINE f == CHOOSE g : Upto(Len(ps), g)
<1>3. Upto(Len(ps), f)
  BY <1>2
<1>4. PushAll(t, r, ps) = f[Len(ps)]
  BY DEF PushAll
<1> HIDE DEF f
<1>5. \A k \in 0..Len(ps) : f[k] = IF k = 0 THEN r ELSE PushTier(t, f[k - 1], ps[k])
  BY <1>3
<1> QED
  BY <1>4, <1>5

\* What k points more do to the points of the buckets.
Filled(t, bs, cs, ps, k) ==
  /\ \A i \in DOMAIN cs : \A x \in Points(cs[i]) :
       \/ \E j \in DOMAIN bs : bs[j].ts = cs[i].ts /\ x \in Points(bs[j])
       \/ \E m \in 1..k : x = ps[m].n /\ BucketStart(t, ps[m].ts) <= cs[i].ts
  /\ \A i \in DOMAIN cs : \/ \E j \in DOMAIN bs : bs[j].ts = cs[i].ts
                          \/ \E m \in 1..k : cs[i].ts = BucketStart(t, ps[m].ts)

\* A bucket that began at u is full when one begins at h.
Aged(t, u, h) == u + Tiers[t].capacity * Tiers[t].bucket + Tiers[t].bucket <= h

\* When their times ascend, each is in the bucket of its time and what was in the
\* buckets is still there, or the bucket has been dropped for its age.
FilledExact(t, bs, cs, ps, k, h) ==
  /\ \A j \in DOMAIN bs :
       \/ \E i \in DOMAIN cs : cs[i].ts = bs[j].ts /\ Points(bs[j]) \subseteq Points(cs[i])
       \/ Aged(t, bs[j].ts, h)
  /\ \A m \in 1..k :
       \/ \E i \in DOMAIN cs : cs[i].ts = BucketStart(t, ps[m].ts) /\ ps[m].n \in Points(cs[i])
       \/ Aged(t, BucketStart(t, ps[m].ts), h)

\* The points that come are new, and none of them belongs before the last bucket.
Coming(t, bs, ps) ==
  /\ GoodRaw(ps)
  /\ \A m \in DOMAIN ps : NewTo(bs, ps[m])
  /\ \A m \in DOMAIN ps, j \in DOMAIN bs : bs[j].ts <= BucketStart(t, ps[m].ts)

Ascending(ps, h) ==
  /\ \A i, j \in DOMAIN ps : i < j => ps[i].ts <= ps[j].ts
  /\ \A m \in DOMAIN ps : ps[m].ts <= h

\* One point more, of any times.
LEMMA FilledMore ==
  ASSUME NEW t \in DOMAIN Tiers, NEW bs, NEW cs, NEW ds, NEW ps, NEW k \in Nat, k + 1 \in DOMAIN ps,
         Filled(t, bs, cs, ps, k), Pushed(t, cs, ds, ps[k + 1])
  PROVE  Filled(t, bs, ds, ps, k + 1)
<1>1. \A m \in 1..k : m \in 1..(k + 1)
  OBVIOUS
<1>2. k + 1 \in 1..(k + 1)
  OBVIOUS
<1>3. ASSUME NEW i \in DOMAIN ds, NEW x \in Points(ds[i])
      PROVE  \/ \E j \in DOMAIN bs : bs[j].ts = ds[i].ts /\ x \in Points(bs[j])
             \/ \E m \in 1..(k + 1) : x = ps[m].n /\ BucketStart(t, ps[m].ts) <= ds[i].ts
  <2>1. \/ x = ps[k + 1].n /\ BucketStart(t, ps[k + 1].ts) <= ds[i].ts
        \/ \E j \in DOMAIN cs : cs[j].ts = ds[i].ts /\ x \in Points(cs[j])
    BY DEF Pushed
  <2>2. CASE \E j \in DOMAIN cs : cs[j].ts = ds[i].ts /\ x \in Points(cs[j])
    <3>1. PICK j \in DOMAIN cs : cs[j].ts = ds[i].ts /\ x \in Points(cs[j])
      BY <2>2
    <3> QED
      BY <3>1, <1>1 DEF Filled
  <2> QED
    BY <2>1, <2>2, <1>2
<1>4. ASSUME NEW i \in DOMAIN ds
      PROVE  \/ \E j \in DOMAIN bs : bs[j].ts = ds[i].ts
             \/ \E m \in 1..(k + 1) : ds[i].ts = BucketStart(t, ps[m].ts)
  <2>1. ds[i].ts = BucketStart(t, ps[k + 1].ts) \/ \E j \in DOMAIN cs : cs[j].ts = ds[i].ts
    BY DEF Pushed
  <2>2. CASE \E j \in DOMAIN cs : cs[j].ts = ds[i].ts
    <3>1. PICK j \in DOMAIN cs : cs[j].ts = ds[i].ts
      BY <2>2
    <3> QED
      BY <3>1, <1>1 DEF Filled
  <2> QED
    BY <2>1, <2>2, <1>2
<1> QED
  BY <1>3, <1>4 DEF Filled

\* One point more, of the latest time.
LEMMA ExactMore ==
  ASSUME NEW t \in DOMAIN Tiers, NEW bs, NEW cs, NEW ds, NEW ps, NEW k \in Nat, k + 1 \in DOMAIN ps,
         NEW h \in Nat, Coming(t, bs, ps), Ascending(ps, h), GoodRow(t, bs), GoodRow(t, cs),
         Filled(t, bs, cs, ps, k), FilledExact(t, bs, cs, ps, k, h),
         Pushed(t, cs, ds, ps[k + 1])
  PROVE  FilledExact(t, bs, ds, ps, k + 1, h)
<1> DEFINE p == ps[k + 1]
           s == BucketStart(t, p.ts)
           z == Tiers[t].capacity * Tiers[t].bucket
           b == Tiers[t].bucket
<1>1. DOMAIN ps = 1..Len(ps) /\ Len(ps) \in Nat /\ \A m \in DOMAIN ps : ps[m] \in RawPoints
  BY DEF Coming, GoodRaw
<1>2. p \in RawPoints /\ p.ts \in Nat /\ p.ts <= h /\ s \in Nat /\ s <= p.ts /\ s <= h
  <2>1. p \in RawPoints /\ p.ts <= h
    BY <1>1 DEF Ascending
  <2>2. p.ts \in Nat
    BY <2>1 DEF RawPoints
  <2> HIDE DEF p
  <2>3. s \in Nat /\ s <= p.ts
    BY <2>2, BucketIs
  <2> QED
    BY <2>1, <2>2, <2>3
<1>3. z \in Nat /\ b \in Nat
  BY TierAssumption
<1>4. \A m \in 1..k : m \in DOMAIN ps /\ m < k + 1
  BY <1>1
<1>5. \A i \in DOMAIN cs : cs[i].ts <= s
  <2> SUFFICES ASSUME NEW i \in DOMAIN cs PROVE cs[i].ts <= s
    OBVIOUS
  <2>1. CASE \E j \in DOMAIN bs : bs[j].ts = cs[i].ts
    BY <2>1 DEF Coming
  <2>2. CASE \E m \in 1..k : cs[i].ts = BucketStart(t, ps[m].ts)
    <3>1. PICK m \in 1..k : cs[i].ts = BucketStart(t, ps[m].ts)
      BY <2>2
    <3>2. ps[m].ts <= p.ts /\ ps[m].ts \in Nat
      BY <1>1, <1>4 DEF Ascending, RawPoints
    <3> HIDE DEF p
    <3> QED
      BY <3>1, <3>2, <1>2, BucketMono
  <2> QED
    BY <2>1, <2>2 DEF Filled
<1>6. \A i \in DOMAIN cs : cs[i].ts \in Nat
  <2>1. \A i \in DOMAIN cs : cs[i] \in Buckets
    BY DEF GoodRow
  <2> QED
    BY <2>1 DEF Buckets
<1>7. \A u \in Nat : Aged(t, u, s) => Aged(t, u, h)
  <2> HIDE DEF z, b, s
  <2>1. \A u \in Nat : u + z + b <= s => u + z + b <= h
    BY <1>2, <1>3
  <2> QED
    BY <2>1 DEF Aged, z, b
<1>8. ASSUME NEW j \in DOMAIN cs
      PROVE  \/ \E i \in DOMAIN ds : ds[i].ts = cs[j].ts /\ Points(cs[j]) \subseteq Points(ds[i])
             \/ Aged(t, cs[j].ts, h)
  BY <1>6, <1>7 DEF Pushed, Aged
<1>9. \E i \in DOMAIN ds : ds[i].ts = s /\ p.n \in Points(ds[i])
  <2>1. PICK i \in DOMAIN ds :
          /\ p.n \in Points(ds[i])
          /\ ds[i].ts = s \/ (\E j \in DOMAIN cs : cs[j].ts = ds[i].ts /\ s < ds[i].ts)
    BY DEF Pushed
  <2>2. ~\E j \in DOMAIN cs : cs[j].ts = ds[i].ts /\ s < ds[i].ts
    <3> HIDE DEF s
    <3> QED
      BY <1>2, <1>5, <1>6
  <2> QED
    BY <2>1, <2>2
<1> HIDE DEF s
<1>10. ASSUME NEW j \in DOMAIN bs
       PROVE  \/ \E i \in DOMAIN ds : ds[i].ts = bs[j].ts /\ Points(bs[j]) \subseteq Points(ds[i])
              \/ Aged(t, bs[j].ts, h)
  <2>1. CASE \E i \in DOMAIN cs : cs[i].ts = bs[j].ts /\ Points(bs[j]) \subseteq Points(cs[i])
    <3>1. PICK i \in DOMAIN cs : cs[i].ts = bs[j].ts /\ Points(bs[j]) \subseteq Points(cs[i])
      BY <2>1
    <3> QED
      BY <3>1, <1>8
  <2> QED
    BY <2>1 DEF FilledExact
<1>11. ASSUME NEW m \in 1..(k + 1)
       PROVE  \/ \E i \in DOMAIN ds : ds[i].ts = BucketStart(t, ps[m].ts)
                                      /\ ps[m].n \in Points(ds[i])
              \/ Aged(t, BucketStart(t, ps[m].ts), h)
  <2>1. CASE m = k + 1
    BY <2>1, <1>9 DEF s
  <2>2. CASE m \in 1..k
    <3>1. CASE \E i \in DOMAIN cs : cs[i].ts = BucketStart(t, ps[m].ts) /\ ps[m].n \in Points(cs[i])
      <4>1. PICK i \in DOMAIN cs :
              cs[i].ts = BucketStart(t, ps[m].ts) /\ ps[m].n \in Points(cs[i])
        BY <3>1
      <4> QED
        BY <4>1, <1>8
    <3> QED
      BY <2>2, <3>1 DEF FilledExact
  <2>3. m = k + 1 \/ m \in 1..k
    OBVIOUS
  <2> QED
    BY <2>1, <2>2, <2>3
<1> QED
  BY <1>10, <1>11 DEF FilledExact

\* Load pushes its points one after the other.
LEMMA PushAllGood ==
  ASSUME NEW t \in DOMAIN Tiers, NEW r, GoodTier(t, r), NEW ps, Coming(t, Row(r), ps)
  PROVE  /\ GoodTier(t, PushAll(t, r, ps))
         /\ Filled(t, Row(r), Row(PushAll(t, r, ps)), ps, Len(ps))
         /\ \A h \in Nat : Ascending(ps, h) =>
              FilledExact(t, Row(r), Row(PushAll(t, r, ps)), ps, Len(ps), h)
<1> DEFINE n == Len(ps)
<1>1. ps \in Seq(RawPoints) /\ n \in Nat /\ DOMAIN ps = 1..n
  BY DEF Coming, GoodRaw
<1>4. PICK f : /\ PushAll(t, r, ps) = f[n]
               /\ \A k \in 0..n : f[k] = IF k = 0 THEN r ELSE PushTier(t, f[k - 1], ps[k])
  BY <1>1, PushFcn
<1>5. \A k \in 0..n : f[k] = IF k = 0 THEN r ELSE PushTier(t, f[k - 1], ps[k])
  BY <1>4
<1> DEFINE Ok(k) == /\ GoodTier(t, f[k]) /\ Filled(t, Row(r), Row(f[k]), ps, k)
                    /\ \A h \in Nat : Ascending(ps, h) =>
                         FilledExact(t, Row(r), Row(f[k]), ps, k, h)
           T == {k \in 0..n : ~Ok(k)}
<1>6. T = {}
  <2> SUFFICES ASSUME T # {} PROVE FALSE
    OBVIOUS
  <2>1. T \subseteq Nat
    OBVIOUS
  <2>2. PICK k \in T : \A h \in T : k <= h
    BY <2>1, LeastExists
  <2>3. k \in 0..n /\ ~Ok(k)
    BY <2>2
  <2>4. k # 0
    <3>1. f[0] = r
      BY <1>1, <1>5
    <3>2. Filled(t, Row(r), Row(r), ps, 0)
      BY DEF Filled
    <3>3. \A h : FilledExact(t, Row(r), Row(r), ps, 0, h)
      BY DEF FilledExact
    <3>4. Ok(0)
      BY <3>1, <3>2, <3>3
    <3> QED
      BY <3>4, <2>3
  <2> DEFINE j == k - 1
  <2>5. j \in 0..n /\ j \in Nat /\ j + 1 = k /\ k \in DOMAIN ps
    BY <2>3, <2>4, <1>1
  <2>6. Ok(j)
    <3>1. j \notin T
      <4> HIDE DEF T
      <4> QED
        BY <2>2, <2>3
    <3> HIDE DEF j
    <3> QED
      BY <3>1, <2>5
  <2>7. f[k] = PushTier(t, f[j], ps[k])
    BY <2>3, <2>4, <1>5
  <2> HIDE DEF j
  <2>8. NewTo(Row(f[j]), ps[k])
    <3> SUFFICES ASSUME NEW i \in DOMAIN Row(f[j]), ps[k].n \in Points(Row(f[j])[i])
                 PROVE  FALSE
      BY DEF NewTo
    <3>1. ~\E l \in DOMAIN Row(r) : ps[k].n \in Points(Row(r)[l])
      BY <2>5 DEF Coming, NewTo
    <3>2. PICK m \in 1..j : ps[k].n = ps[m].n
      BY <2>6, <3>1 DEF Filled
    <3>3. m \in DOMAIN ps /\ m < k
      BY <2>3, <2>5, <1>1
    <3>4. ps[m].n < ps[k].n
      BY <3>3, <2>5 DEF Coming, GoodRaw
    <3>5. ps[m] \in RawPoints
      BY <3>3, <1>1
    <3>6. ps[m].n \in Nat
      BY <3>5 DEF RawPoints
    <3> QED
      BY <3>2, <3>4, <3>6
  <2>9. ps[k] \in RawPoints
    BY <2>5, <1>1
  <2>10. GoodTier(t, f[k]) /\ Pushed(t, Row(f[j]), Row(f[k]), ps[k])
    BY <2>6, <2>7, <2>8, <2>9, PushGood
  <2>11. Filled(t, Row(r), Row(f[k]), ps, k)
    BY <2>5, <2>6, <2>10, FilledMore
  <2>12. ASSUME NEW h \in Nat, Ascending(ps, h)
         PROVE  FilledExact(t, Row(r), Row(f[k]), ps, k, h)
    <3>1. GoodRow(t, Row(r)) /\ GoodRow(t, Row(f[j])) /\ FilledExact(t, Row(r), Row(f[j]), ps, j, h)
      BY <2>6, <2>12 DEF GoodTier
    <3> QED
      BY <3>1, <2>5, <2>6, <2>10, <2>12, ExactMore
  <2>13. Ok(k)
    BY <2>10, <2>11, <2>12
  <2> QED
    BY <2>13, <2>3
<1>7. Ok(n)
  BY <1>6, <1>1
<1> QED
  BY <1>4, <1>7

\* What holds whatever the clock does.
Sound(t, rs, bs, n) ==
  GoodRaw(rs) /\ GoodRow(t, bs) /\ NotBefore(t, rs, bs) /\ Numbered(rs, bs, n)

\* Leaving points or buckets out keeps it.
LEMMA SoundThinned ==
  ASSUME NEW t, NEW rs, NEW bs, NEW n, Sound(t, rs, bs, n),
         NEW qs \in Seq(RawPoints), NEW e, Thinned(rs, qs, e),
         NEW cs \in Seq(Buckets), NEW d, Thinned(bs, cs, d)
  PROVE  Sound(t, qs, cs, n)
<1>1. GoodRaw(qs) /\ GoodRow(t, cs)
  BY ThinnedRaw, ThinnedRow DEF Sound
<1>2. NotBefore(t, qs, cs) /\ Numbered(qs, cs, n)
  BY DEF Sound, NotBefore, Numbered, Thinned
<1> QED
  BY <1>1, <1>2 DEF Sound

\* Leaving nothing out.
LEMMA ThinnedSelf ==
  ASSUME NEW S, NEW s \in Seq(S)
  PROVE  Thinned(s, s, [i \in DOMAIN s |-> i])
BY DEF Thinned

\* keepSince leaves members out.
LEMMA KeepsThinned ==
  ASSUME NEW S, NEW s \in Seq(S), NEW cut, NEW cs, NEW e, Keeps(s, cut, Len(s), cs, e)
  PROVE  Thinned(s, cs, e)
BY DEF Keeps, Thinned

\* A raw point that the span of the tier reaches is in no bucket that is dropped.
LEMMA NotAged ==
  ASSUME NEW t \in DOMAIN Tiers, NEW ts \in Nat, NEW h \in Nat, ts >= h - Tiers[t].span
  PROVE  ~Aged(t, BucketStart(t, ts), h)
<1> DEFINE z == Tiers[t].capacity * Tiers[t].bucket
           b == Tiers[t].bucket
           u == BucketStart(t, ts)
           sp == Tiers[t].span
<1>1. z \in Nat /\ b \in Nat /\ sp \in Nat /\ z >= sp
  BY TierAssumption
<1>2. u \in Nat /\ ts < u + b
  BY BucketIs
<1>3. ts >= h - sp
  OBVIOUS
<1> HIDE DEF z, b, u, sp
<1>4. ~(u + z + b <= h)
  BY <1>1, <1>2, <1>3
<1> QED
  BY <1>4 DEF Aged, z, b, u

\* Later, and with more points, a copy is still consistent.
LEMMA StillConsistent ==
  ASSUME NEW t \in DOMAIN Tiers, NEW rs, NEW bs, NEW n \in Nat, NEW m \in Nat, n <= m,
         NEW h \in Nat, NEW g \in Nat, h <= g, NEW forward \in BOOLEAN,
         Consistent(t, rs, bs, n, h, forward)
  PROVE  Consistent(t, rs, bs, m, g, forward)
<1>1. \A k \in DOMAIN rs : rs[k].n \in Nat /\ rs[k].ts \in Nat
  <2>1. \A k \in DOMAIN rs : rs[k] \in RawPoints
    BY DEF Consistent, GoodRaw
  <2> QED
    BY <2>1 DEF RawPoints
<1>2. \A i \in DOMAIN bs : bs[i].ts \in Nat /\ Points(bs[i]) \subseteq Nat
  <2>1. \A i \in DOMAIN bs : bs[i] \in Buckets
    BY DEF Consistent, GoodRow
  <2> QED
    BY <2>1 DEF Buckets, Points, ToSet
<1>3. Numbered(rs, bs, m)
  <2>1. Numbered(rs, bs, n)
    BY DEF Consistent
  <2> QED
    BY <2>1, <1>1, <1>2 DEF Numbered
<1>4. ASSUME Exact(t, rs, bs, h) PROVE Exact(t, rs, bs, g)
  <2>1. Tiers[t].span \in Nat
    BY TierAssumption
  <2>2. /\ \A k \in DOMAIN rs : rs[k].ts <= g
        /\ \A i \in DOMAIN bs : bs[i].ts <= g
        /\ \A k \in DOMAIN rs : rs[k].ts >= g - Tiers[t].span => rs[k].ts >= h - Tiers[t].span
    BY <1>1, <1>2, <1>4, <2>1 DEF Exact
  <2> QED
    BY <1>4, <2>2 DEF Exact
<1> QED
  BY <1>3, <1>4 DEF Consistent

\* The count of the raw points is bounded.
LEMMA ConsistentLast ==
  ASSUME NEW t \in DOMAIN Tiers, NEW rs, NEW bs, NEW n, NEW h, NEW forward \in BOOLEAN,
         NEW c \in Nat, Consistent(t, rs, bs, n, h, forward)
  PROVE  Consistent(t, LastOf(rs, c), bs, n, h, forward)
<1> DEFINE qs == LastOf(rs, c)
<1>1. rs \in Seq(RawPoints) /\ bs \in Seq(Buckets)
  BY DEF Consistent, GoodRaw, GoodRow
<1>2. PICK e : qs \in Seq(RawPoints) /\ Thinned(rs, qs, e)
  BY <1>1, LastOfIs
<1>3. Thinned(bs, bs, [i \in DOMAIN bs |-> i])
  BY <1>1, ThinnedSelf
<1> HIDE DEF qs
<1>4. Sound(t, qs, bs, n)
  BY <1>1, <1>2, <1>3, SoundThinned DEF Sound, Consistent
<1>5. ASSUME Exact(t, rs, bs, h) PROVE Exact(t, qs, bs, h)
  BY <1>2, <1>5 DEF Exact, Thinned
<1> QED
  BY <1>4, <1>5 DEF Consistent, Sound, qs

\* The buckets as tier.all lists them.
LEMMA ConsistentSame ==
  ASSUME NEW t \in DOMAIN Tiers, NEW rs, NEW bs, NEW n, NEW h, NEW forward \in BOOLEAN,
         Consistent(t, rs, bs, n, h, forward), NEW cs \in Seq(Buckets), DOMAIN cs = DOMAIN bs,
         \A i \in DOMAIN bs : cs[i].ts = bs[i].ts /\ Points(cs[i]) = Points(bs[i]) /\ Own(cs[i])
  PROVE  Consistent(t, rs, cs, n, h, forward)
<1>1. GoodRow(t, cs)
  BY DEF Consistent, GoodRow
<1>2. NotBefore(t, rs, cs) /\ Numbered(rs, cs, n)
  BY DEF Consistent, NotBefore, Numbered
<1>3. Exact(t, rs, bs, h) => Exact(t, rs, cs, h)
  BY DEF Exact
<1> QED
  BY <1>1, <1>2, <1>3 DEF Consistent

\* tier.all changes no time and no point of a bucket.
LEMMA AllIs ==
  ASSUME NEW t \in DOMAIN Tiers, NEW r, GoodTier(t, r)
  PROVE  /\ All(r) \in Seq(Buckets) /\ DOMAIN All(r) = DOMAIN Row(r)
         /\ \A i \in DOMAIN Row(r) : /\ All(r)[i].ts = Row(r)[i].ts
                                     /\ Points(All(r)[i]) = Points(Row(r)[i])
                                     /\ Own(All(r)[i])
<1>1. r \in TierType /\ Len(r.open) \in {0, 1} /\ r.pts \in Seq(Buckets) /\ GoodRow(t, Row(r))
  BY DEF GoodTier, TierType
<1>2. CASE r.open = <<>>
  <2>1. All(r) = r.pts
    BY <1>1, <1>2, ConcatEmptySeq DEF All
  <2>2. Row(r) = r.pts
    BY <1>1, <1>2, RowIs
  <2> QED
    BY <2>1, <2>2, <1>1 DEF GoodRow
<1>3. CASE r.open # <<>>
  <2> DEFINE o == Mean(r.open[1])
             n == Len(r.pts)
             as == <<o>>
  <2>1. /\ r.open[1] \in Buckets /\ Len(Row(r)) = n + 1 /\ Row(r) \in Seq(Buckets)
        /\ Row(r)[n + 1] = r.open[1] /\ \A i \in 1..n : Row(r)[i] = r.pts[i]
    BY <1>1, <1>3, RowIs
  <2>2. o \in Buckets /\ o.ts = r.open[1].ts /\ Points(o) = Points(r.open[1]) /\ Own(o)
    BY <2>1, MeanIs
  <2>3. All(r) = r.pts \o as
    BY <1>3 DEF All
  <2> HIDE DEF o
  <2>4. as \in Seq(Buckets) /\ Len(as) = 1 /\ as[1] = o
    BY <2>2
  <2> HIDE DEF as
  <2> DEFINE a == r.pts
  <2>5. a \in Seq(Buckets)
    BY <1>1
  <2> HIDE DEF a
  <2>6. /\ a \o as \in Seq(Buckets) /\ Len(a \o as) = Len(a) + Len(as)
        /\ \A i \in 1..(Len(a) + Len(as)) :
             (a \o as)[i] = IF i <= Len(a) THEN a[i] ELSE as[i - Len(a)]
    BY <2>4, <2>5, ConcatProperties, Zenon
  <2>7. n \in Nat /\ n = Len(a)
    BY <1>1 DEF a
  <2> DEFINE al == All(r)
  <2>8. al = a \o as
    BY <2>3 DEF a
  <2> HIDE DEF al, n
  <2>9. al \in Seq(Buckets) /\ Len(al) = n + 1 /\ al[n + 1] = o
        /\ \A i \in 1..n : al[i] = a[i]
    <3>1. /\ al \in Seq(Buckets) /\ Len(al) = n + 1
          /\ \A i \in 1..(n + 1) : al[i] = IF i <= n THEN a[i] ELSE as[i - n]
      BY <2>4, <2>6, <2>7, <2>8, Zenon
    <3>2. n + 1 \in 1..(n + 1) /\ ~(n + 1 <= n) /\ (n + 1) - n = 1
      BY <2>7
    <3>3. \A i \in 1..n : i \in 1..(n + 1) /\ i <= n
      BY <2>7
    <3> QED
      BY <3>1, <3>2, <3>3, <2>4
  <2>10. DOMAIN al = 1..(n + 1) /\ DOMAIN Row(r) = 1..(n + 1)
    BY <2>1, <2>7, <2>9
  <2>11. \A i \in 1..(n + 1) : i \in 1..n \/ i = n + 1
    BY <2>7
  <2>12. \A i \in 1..(n + 1) : Own(Row(r)[i])
    BY <1>1, <2>10 DEF GoodRow
  <2>13. \A i \in 1..n : al[i] = Row(r)[i] /\ i \in 1..(n + 1)
    BY <2>1, <2>7, <2>9 DEF a
  <2> QED
    BY <2>1, <2>2, <2>9, <2>10, <2>11, <2>12, <2>13 DEF al
<1> QED
  BY <1>2, <1>3

\* The fields of a raw point.
LEMMA RawIs ==
  ASSUME NEW rs, GoodRaw(rs)
  PROVE  \A k \in DOMAIN rs : rs[k] \in RawPoints /\ rs[k].n \in Nat /\ rs[k].ts \in Nat
<1>1. \A k \in DOMAIN rs : rs[k] \in RawPoints
  BY DEF GoodRaw
<1> QED
  BY <1>1 DEF RawPoints

\* The fields of a bucket.
LEMMA RowsAre ==
  ASSUME NEW t, NEW bs, GoodRow(t, bs)
  PROVE  \A i \in DOMAIN bs : bs[i].ts \in Nat /\ Points(bs[i]) \subseteq Nat
<1>1. \A i \in DOMAIN bs : bs[i] \in Buckets
  BY DEF GoodRow
<1> QED
  BY <1>1 DEF Buckets, Points, ToSet

\* Push appends the point to the raw points and gives it to every tier.
LEMMA PushConsistent ==
  ASSUME NEW t \in DOMAIN Tiers, NEW r, GoodTier(t, r), NEW rs, NEW n \in Nat, NEW h \in Nat,
         NEW forward \in BOOLEAN, Consistent(t, rs, Row(r), n, h, forward),
         NEW p, p = [n |-> n + 1, ts |-> h]
  PROVE  /\ GoodTier(t, PushTier(t, r, p))
         /\ Consistent(t, Append(rs, p), Row(PushTier(t, r, p)), n + 1, h, forward)
<1> DEFINE q == PushTier(t, r, p)
           bs == Row(r)
           cs == Row(q)
           qs == Append(rs, p)
           m == Len(rs)
           s == BucketStart(t, p.ts)
<1>1. p \in RawPoints /\ p.n = n + 1 /\ p.ts = h
  BY DEF RawPoints
<1>2. GoodRaw(rs) /\ GoodRow(t, bs) /\ NotBefore(t, rs, bs) /\ Numbered(rs, bs, n)
  BY DEF Consistent
<1>3. NewTo(bs, p)
  <2> HIDE DEF bs
  <2> QED
    BY <1>1, <1>2, RowsAre DEF Numbered, NewTo
<1>4. GoodTier(t, q) /\ Pushed(t, bs, cs, p)
  BY <1>1, <1>3, PushGood
<1>5. GoodRow(t, cs)
  BY <1>4 DEF GoodTier
<1>6. s \in Nat /\ s <= h
  BY <1>1, BucketIs
<1>7. /\ m \in Nat /\ DOMAIN rs = 1..m /\ qs \in Seq(RawPoints) /\ DOMAIN qs = 1..(m + 1)
      /\ qs[m + 1] = p /\ \A k \in 1..m : qs[k] = rs[k]
  BY <1>1, <1>2 DEF GoodRaw
<1>8. Exact(t, rs, bs, h) \/ ~forward
  BY DEF Consistent
<1> HIDE DEF q, bs, cs, qs, m, s
<1>9. \A k \in 1..(m + 1) : k \in 1..m \/ k = m + 1
  BY <1>7
<1>10. \A k \in 1..m : rs[k] \in RawPoints /\ rs[k].n \in Nat /\ rs[k].ts \in Nat /\ rs[k].n <= n
  BY <1>2, <1>7, RawIs DEF Numbered
<1>11. GoodRaw(qs)
  <2> SUFFICES ASSUME NEW i \in 1..(m + 1), NEW j \in 1..(m + 1), i < j PROVE qs[i].n < qs[j].n
    BY <1>7 DEF GoodRaw
  <2>1. i \in 1..m
    BY <1>7
  <2>2. CASE j \in 1..m
    BY <2>1, <2>2, <1>2, <1>7 DEF GoodRaw
  <2>3. CASE j = m + 1
    BY <2>1, <2>3, <1>1, <1>7, <1>10
  <2> QED
    BY <2>2, <2>3, <1>9
<1>12. NotBefore(t, qs, cs)
  <2> SUFFICES ASSUME NEW k \in 1..(m + 1), NEW i \in DOMAIN cs, qs[k].n \in Points(cs[i])
               PROVE  BucketStart(t, qs[k].ts) <= cs[i].ts
    BY <1>7 DEF NotBefore
  <2>1. \/ qs[k].n = p.n /\ s <= cs[i].ts
        \/ \E j \in DOMAIN bs : bs[j].ts = cs[i].ts /\ qs[k].n \in Points(bs[j])
    BY <1>4 DEF Pushed, s
  <2>2. CASE k = m + 1
    <3>1. ~\E j \in DOMAIN bs : bs[j].ts = cs[i].ts /\ qs[k].n \in Points(bs[j])
      BY <2>2, <1>3, <1>7 DEF NewTo
    <3> QED
      BY <3>1, <2>1, <2>2, <1>7 DEF s
  <2>3. CASE k \in 1..m
    <3>1. qs[k].n # p.n
      BY <2>3, <1>1, <1>7, <1>10
    <3>2. PICK j \in DOMAIN bs : bs[j].ts = cs[i].ts /\ rs[k].n \in Points(bs[j])
      BY <3>1, <2>1, <2>3, <1>7
    <3> QED
      BY <3>2, <2>3, <1>2, <1>7 DEF NotBefore
  <2> QED
    BY <2>2, <2>3, <1>9
<1>13. Numbered(qs, cs, n + 1)
  <2>1. ASSUME NEW k \in 1..(m + 1) PROVE qs[k].n <= n + 1
    <3>1. CASE k = m + 1
      BY <3>1, <1>1, <1>7
    <3>2. CASE k \in 1..m
      BY <3>2, <1>7, <1>10
    <3> QED
      BY <3>1, <3>2, <1>9
  <2>2. ASSUME NEW i \in DOMAIN cs, NEW x \in Points(cs[i]) PROVE x <= n + 1
    <3>1. CASE x = p.n
      BY <3>1, <1>1
    <3>2. CASE \E j \in DOMAIN bs : bs[j].ts = cs[i].ts /\ x \in Points(bs[j])
      BY <3>2, <1>2, RowsAre DEF Numbered
    <3> QED
      BY <3>1, <3>2, <1>4 DEF Pushed
  <2> QED
    BY <2>1, <2>2, <1>7 DEF Numbered
<1>14. ASSUME Exact(t, rs, bs, h) PROVE Exact(t, qs, cs, h)
  <2>1. \A j \in DOMAIN bs : bs[j].ts \in Nat /\ bs[j].ts <= s
    <3> SUFFICES ASSUME NEW j \in DOMAIN bs PROVE bs[j].ts \in Nat /\ bs[j].ts <= s
      OBVIOUS
    <3>1. bs[j].ts \in Nat /\ bs[j].ts % Tiers[t].bucket = 0 /\ bs[j].ts <= h
      BY <1>2, <1>14, RowsAre DEF GoodRow, Exact
    <3> QED
      BY <3>1, <1>1, BucketOf DEF s
  <2>2. ASSUME NEW i \in 1..(m + 1), NEW j \in 1..(m + 1), i < j PROVE qs[i].ts <= qs[j].ts
    <3>1. i \in 1..m
      BY <2>2, <1>7
    <3>2. CASE j \in 1..m
      BY <3>1, <3>2, <2>2, <1>7, <1>14 DEF Exact
    <3>3. CASE j = m + 1
      BY <3>1, <3>3, <1>1, <1>7, <1>14 DEF Exact
    <3> QED
      BY <3>2, <3>3, <1>9
  <2>3. ASSUME NEW k \in 1..(m + 1) PROVE qs[k].ts <= h
    <3>1. CASE k = m + 1
      BY <3>1, <1>1, <1>7
    <3>2. CASE k \in 1..m
      BY <3>2, <1>7, <1>14 DEF Exact
    <3> QED
      BY <3>1, <3>2, <1>9
  <2>4. ASSUME NEW i \in DOMAIN cs PROVE cs[i].ts <= h
    <3>1. CASE cs[i].ts = s
      BY <3>1, <1>6
    <3>2. CASE \E j \in DOMAIN bs : bs[j].ts = cs[i].ts
      BY <3>2, <1>14 DEF Exact
    <3> QED
      BY <3>1, <3>2, <1>4 DEF Pushed, s
  <2>5. ASSUME NEW k \in 1..(m + 1), qs[k].ts >= h - Tiers[t].span
        PROVE  \E i \in DOMAIN cs : cs[i].ts = BucketStart(t, qs[k].ts) /\ qs[k].n \in Points(cs[i])
    <3>1. CASE k = m + 1
      <4>1. PICK i \in DOMAIN cs :
              /\ p.n \in Points(cs[i])
              /\ cs[i].ts = s \/ (\E j \in DOMAIN bs : bs[j].ts = cs[i].ts /\ s < cs[i].ts)
        BY <1>4 DEF Pushed, s
      <4>2. cs[i].ts = s
        BY <4>1, <2>1, <1>6
      <4> QED
        BY <4>1, <4>2, <3>1, <1>7 DEF s
    <3>2. CASE k \in 1..m
      <4>1. PICK j \in DOMAIN bs : bs[j].ts = BucketStart(t, rs[k].ts) /\ rs[k].n \in Points(bs[j])
        BY <3>2, <2>5, <1>7, <1>14 DEF Exact
      <4>2. ~Aged(t, bs[j].ts, h)
        BY <4>1, <3>2, <2>5, <1>7, <1>10, NotAged
      <4>3. ~Aged(t, bs[j].ts, s)
        <5> DEFINE z == Tiers[t].capacity * Tiers[t].bucket
                   b == Tiers[t].bucket
                   u == bs[j].ts
        <5>1. z \in Nat /\ b \in Nat /\ u \in Nat
          BY TierAssumption, <2>1
        <5> HIDE DEF z, b, u
        <5>2. u + z + b <= s => u + z + b <= h
          BY <5>1, <1>6
        <5> QED
          BY <5>2, <4>2 DEF Aged, z, b, u
      <4>4. PICK i \in DOMAIN cs : cs[i].ts = bs[j].ts /\ Points(bs[j]) \subseteq Points(cs[i])
        BY <4>3, <1>4 DEF Pushed, Aged, s
      <4> QED
        BY <4>1, <4>4, <3>2, <1>7
    <3> QED
      BY <3>1, <3>2, <1>9
  <2> QED
    BY <2>2, <2>3, <2>4, <2>5, <1>7 DEF Exact
<1>15. Consistent(t, qs, cs, n + 1, h, forward)
  BY <1>5, <1>8, <1>11, <1>12, <1>13, <1>14 DEF Consistent
<1> QED
  BY <1>4, <1>15 DEF q, bs, cs, qs

\* What Load keeps of the file: the points and the buckets within their spans, the
\* last of them by count.
LoadedRaw(rs, h, c) == LastOf(Since(rs, h - RawSpan), c)
LoadedRow(t, bs, h) == LastOf(Since(bs, h - Tiers[t].span), Tiers[t].capacity)

\* A raw point that is kept has its bucket kept.
LEMMA LoadedIs ==
  ASSUME NEW t \in DOMAIN Tiers, NEW fr, NEW fb, NEW n, NEW h \in Nat, NEW c \in Nat,
         Sound(t, fr, fb, n)
  PROVE  LET rs == LoadedRaw(fr, h, c)
             bs == LoadedRow(t, fb, h)
         IN  /\ Sound(t, rs, bs, n)
             /\ Exact(t, fr, fb, h) =>
                  /\ Ascending(rs, h)
                  /\ \A i \in DOMAIN bs : bs[i].ts <= h
                  /\ \A k \in DOMAIN rs : \E i \in DOMAIN bs :
                       bs[i].ts = BucketStart(t, rs[k].ts) /\ rs[k].n \in Points(bs[i])
<1> DEFINE cut == h - RawSpan
           low == h - Tiers[t].span
           cap == Tiers[t].capacity
           b == Tiers[t].bucket
           sp == Tiers[t].span
           a == Since(fr, cut)
           u == Since(fb, low)
           rs == LastOf(a, c)
           bs == LastOf(u, cap)
           l == Len(u)
           d == IF l > cap THEN l - cap ELSE 0
<1>1. fr \in Seq(RawPoints) /\ fb \in Seq(Buckets) /\ GoodRaw(fr) /\ GoodRow(t, fb)
  BY DEF Sound, GoodRaw, GoodRow
<1>2. /\ cap \in Nat /\ b \in Nat \ {0} /\ sp \in Nat /\ RawSpan \in Nat
      /\ sp >= RawSpan + b /\ cap * b >= sp /\ cap * b \in Nat
  BY TierAssumption
<1>3. /\ rs = LoadedRaw(fr, h, c) /\ bs = LoadedRow(t, fb, h)
  BY DEF LoadedRaw, LoadedRow
<1>4. PICK e : a \in Seq(RawPoints) /\ Keeps(fr, cut, Len(fr), a, e)
  BY <1>1, SinceIs
<1>5. PICK g : u \in Seq(Buckets) /\ Keeps(fb, low, Len(fb), u, g)
  BY <1>1, SinceIs
<1>6. Thinned(fr, a, e) /\ Thinned(fb, u, g)
  BY <1>1, <1>4, <1>5, KeepsThinned
<1> HIDE DEF a, u, cap
<1>7. PICK y : rs \in Seq(RawPoints) /\ Thinned(a, rs, y)
  BY <1>4, LastOfIs
<1>8. /\ l \in Nat /\ DOMAIN u = 1..l
      /\ bs \in Seq(Buckets) /\ DOMAIN bs = 1..(l - d)
      /\ \A i \in 1..(l - d) : bs[i] = u[i + d]
  <2>1. l \in Nat /\ DOMAIN u = 1..l
    BY <1>5
  <2> QED
    BY <2>1, <1>2, <1>5, LastOfIs
<1>9. PICK z : Thinned(u, bs, z)
  BY <1>2, <1>5, LastOfIs
<1>10. d \in 0..l /\ (d > 0 => l - d >= cap)
  BY <1>2, <1>8
<1> HIDE DEF rs, bs, l, d, cap, b, sp, cut, low
<1>11. Sound(t, a, u, n)
  BY <1>4, <1>5, <1>6, SoundThinned
<1>12. Sound(t, rs, bs, n)
  BY <1>7, <1>8, <1>9, <1>11, SoundThinned
<1>13. \A k \in DOMAIN rs : \E j \in DOMAIN fr : rs[k] = fr[j] /\ fr[j].ts >= cut
  BY <1>1, <1>4, <1>7 DEF Keeps, Thinned
<1>14. ASSUME Exact(t, fr, fb, h) PROVE Ascending(rs, h)
  <2>1. \A k \in DOMAIN rs : rs[k].ts <= h
    BY <1>13, <1>14 DEF Exact
  <2>2. ASSUME NEW i \in DOMAIN rs, NEW j \in DOMAIN rs, i < j PROVE rs[i].ts <= rs[j].ts
    <3>1. y[i] \in DOMAIN a /\ y[j] \in DOMAIN a /\ y[i] < y[j] /\ rs[i] = a[y[i]] /\ rs[j] = a[y[j]]
      BY <2>2, <1>7 DEF Thinned
    <3>2. /\ e[y[i]] \in DOMAIN fr /\ e[y[j]] \in DOMAIN fr /\ e[y[i]] < e[y[j]]
          /\ rs[i] = fr[e[y[i]]] /\ rs[j] = fr[e[y[j]]]
      BY <3>1, <1>6 DEF Thinned
    <3> QED
      BY <3>2, <1>14 DEF Exact
  <2> QED
    BY <2>1, <2>2 DEF Ascending
<1>15. ASSUME Exact(t, fr, fb, h) PROVE \A i \in DOMAIN u : u[i].ts <= h
  BY <1>6, <1>15 DEF Exact, Thinned
<1>16. ASSUME Exact(t, fr, fb, h) PROVE \A i \in DOMAIN bs : bs[i].ts <= h
  BY <1>9, <1>15, <1>16 DEF Thinned
<1>17. ASSUME Exact(t, fr, fb, h), NEW k \in DOMAIN rs
       PROVE  \E i \in DOMAIN bs :
                bs[i].ts = BucketStart(t, rs[k].ts) /\ rs[k].n \in Points(bs[i])
  <2> DEFINE ts == rs[k].ts
             st == BucketStart(t, rs[k].ts)
  <2>1. PICK x \in DOMAIN fr : rs[k] = fr[x] /\ fr[x].ts >= cut
    BY <1>13
  <2>2. ts \in Nat /\ ts >= h - RawSpan
    BY <2>1, <1>1, RawIs DEF cut
  <2>3. st \in Nat /\ st <= ts /\ ts < st + b
    BY <2>2, BucketIs DEF b
  <2> HIDE DEF ts, st
  <2>4. ts >= h - sp /\ ~(st <= h - sp)
    BY <2>2, <2>3, <1>2
  <2>5. PICK j \in DOMAIN fb : fb[j].ts = st /\ rs[k].n \in Points(fb[j])
    BY <2>1, <2>4, <1>17 DEF Exact, sp, ts, st
  <2>6. fb[j].ts >= low
    BY <2>3, <2>4, <2>5, <1>2 DEF low, sp
  <2>7. PICK i \in DOMAIN u : g[i] = j
    BY <2>6, <1>1, <1>5 DEF Keeps
  <2>8. u[i] = fb[j] /\ i \in 1..l
    BY <2>7, <1>6, <1>8 DEF Thinned
  <2>9. i > d
    <3> SUFFICES ASSUME i <= d PROVE FALSE
      BY <2>8, <1>8, <1>10
    <3>1. l \in i..l /\ l - i >= cap /\ l \in 1..l /\ l - i \in Nat
      BY <2>8, <1>2, <1>8, <1>10
    <3>2. u[i].ts + (l - i) * b <= u[l].ts
      BY <3>1, <2>8, <1>8, <1>11, Spacing DEF b, l, Sound
    <3>3. (l - i) * b >= cap * b /\ (l - i) * b \in Nat
      BY <3>1, <1>2
    <3>4. u[l].ts <= h /\ u[l].ts \in Nat
      BY <3>1, <1>8, <1>11, <1>15, <1>17, RowsAre DEF Sound
    <3> DEFINE p == (l - i) * b
               q == cap * b
               v == u[l].ts
    <3>5. st + p <= v /\ p >= q /\ p \in Nat /\ q \in Nat /\ q >= sp /\ v <= h /\ v \in Nat
      BY <3>2, <3>3, <3>4, <2>5, <2>8, <1>2
    <3> HIDE DEF p, q, v
    <3> QED
      BY <3>5, <2>3, <2>4, <1>2
  <2> DEFINE w == i - d
  <2>10. w \in 1..(l - d) /\ w + d = i
    BY <2>8, <2>9, <1>8, <1>10
  <2> HIDE DEF w
  <2>11. w \in DOMAIN bs /\ bs[w] = fb[j]
    BY <2>8, <2>10, <1>8
  <2> QED
    BY <2>5, <2>11 DEF st
<1> QED
  BY <1>3, <1>12, <1>14, <1>16, <1>17

\* The rows that tier.load pushes onto: all of them, or all but the last.
LEMMA FrontIs ==
  ASSUME NEW bs \in Seq(Buckets), bs # <<>>
  PROVE  /\ Len(bs) \in Nat \ {0} /\ Last(bs) = bs[Len(bs)] /\ Len(bs) \in DOMAIN bs
         /\ DOMAIN bs = 1..Len(bs) /\ Front(bs) \in Seq(Buckets)
         /\ DOMAIN Front(bs) = 1..(Len(bs) - 1)
         /\ \A i \in 1..(Len(bs) - 1) : Front(bs)[i] = bs[i]
         /\ Thinned(bs, Front(bs), [i \in 1..(Len(bs) - 1) |-> i])
<1> DEFINE n == Len(bs)
           f == Front(bs)
<1>1. n \in Nat \ {0} /\ DOMAIN bs = 1..n
  BY EmptySeq
<1>2. f \in Seq(Buckets) /\ Len(f) = n - 1 /\ \A i \in 1..(n - 1) : f[i] = bs[i]
  BY <1>1 DEF Front
<1>3. Last(bs) = bs[n]
  BY DEF Last
<1> HIDE DEF n, f
<1>4. DOMAIN f = 1..(n - 1) /\ n \in 1..n
  BY <1>1, <1>2
<1>5. Thinned(bs, f, [i \in 1..(n - 1) |-> i])
  BY <1>1, <1>2, <1>4 DEF Thinned
<1> QED
  BY <1>1, <1>2, <1>3, <1>4, <1>5 DEF n, f

\* A tier of closed buckets only.
LEMMA ClosedTier ==
  ASSUME NEW t, NEW bs, GoodRow(t, bs)
  PROVE  LET r == [pts |-> bs, open |-> <<>>] IN GoodTier(t, r) /\ Row(r) = bs
<1> DEFINE r == [pts |-> bs, open |-> <<>>]
<1>1. bs \in Seq(Buckets) /\ <<>> \in Seq(Buckets) /\ Len(<<>>) = 0
  BY DEF GoodRow
<1>2. r \in TierType /\ Len(r.open) \in {0, 1} /\ r.open = <<>> /\ r.pts = bs
  BY <1>1 DEF TierType
<1>3. Row(r) = bs
  BY <1>2, RowIs
<1> QED
  BY <1>2, <1>3 DEF GoodTier

\* tier.load: the tier that New builds from the file.
LEMMA LoadGood ==
  ASSUME NEW t \in DOMAIN Tiers, NEW fr, NEW fb, NEW n \in Nat, NEW h \in Nat, NEW c \in Nat,
         NEW forward \in BOOLEAN, Consistent(t, fr, fb, n, h, forward)
  PROVE  LET rs == LoadedRaw(fr, h, c)
             q == LoadTier(t, LoadedRow(t, fb, h), rs)
         IN  GoodTier(t, q) /\ Consistent(t, rs, Row(q), n, h, forward)
<1> DEFINE rs == LoadedRaw(fr, h, c)
           bs == LoadedRow(t, fb, h)
           q == LoadTier(t, bs, rs)
           Whole == /\ Ascending(rs, h)
                    /\ \A i \in DOMAIN bs : bs[i].ts <= h
                    /\ \A k \in DOMAIN rs : \E i \in DOMAIN bs :
                         bs[i].ts = BucketStart(t, rs[k].ts) /\ rs[k].n \in Points(bs[i])
<1>1. Sound(t, fr, fb, n) /\ (forward => Exact(t, fr, fb, h))
  BY DEF Consistent, Sound
<1>2. Sound(t, rs, bs, n) /\ (forward => Whole)
  BY <1>1, LoadedIs
<1>3. /\ GoodRaw(rs) /\ GoodRow(t, bs) /\ NotBefore(t, rs, bs) /\ Numbered(rs, bs, n)
      /\ rs \in Seq(RawPoints) /\ bs \in Seq(Buckets)
  BY <1>2 DEF Sound, GoodRaw, GoodRow
<1> HIDE DEF rs, bs
<1>4. /\ \A k \in DOMAIN rs : rs[k] \in RawPoints /\ rs[k].n \in Nat /\ rs[k].ts \in Nat
      /\ \A i \in DOMAIN bs : bs[i].ts \in Nat /\ Points(bs[i]) \subseteq Nat
  BY <1>3, RawIs, RowsAre
<1>5. CASE bs = <<>>
  <2>1. q = [pts |-> <<>>, open |-> <<>>] /\ DOMAIN bs = {}
    BY <1>5 DEF LoadTier, EmptyTier
  <2>2. GoodTier(t, q) /\ Row(q) = bs
    BY <2>1, <1>3, <1>5, ClosedTier
  <2>3. ASSUME Whole PROVE Exact(t, rs, bs, h)
    BY <2>1, <2>3 DEF Exact, Ascending
  <2>4. Consistent(t, rs, bs, n, h, forward)
    BY <2>3, <1>2, <1>3 DEF Consistent
  <2> QED
    BY <2>2, <2>4 DEF rs, bs
<1>6. CASE bs # <<>>
  <2> DEFINE m == Len(bs)
             top == Last(bs).ts
             ps == Since(rs, top)
             rebuild == \E i \in DOMAIN ps : BucketStart(t, ps[i].ts) = top
             as == IF rebuild THEN Front(bs) ELSE bs
             r == [pts |-> as, open |-> <<>>]
  <2>1. q = PushAll(t, r, ps)
    BY <1>6 DEF LoadTier
  <2>2. /\ m \in Nat \ {0} /\ Last(bs) = bs[m] /\ m \in DOMAIN bs /\ DOMAIN bs = 1..m
        /\ Front(bs) \in Seq(Buckets) /\ DOMAIN Front(bs) = 1..(m - 1)
        /\ \A i \in 1..(m - 1) : Front(bs)[i] = bs[i]
        /\ Thinned(bs, Front(bs), [i \in 1..(m - 1) |-> i])
    BY <1>3, <1>6, FrontIs
  <2>3. top = bs[m].ts /\ top \in Nat /\ top % Tiers[t].bucket = 0
    BY <2>2, <1>3, <1>4 DEF GoodRow
  <2>4. PICK e : ps \in Seq(RawPoints) /\ Keeps(rs, top, Len(rs), ps, e)
    BY <1>3, SinceIs
  <2>5. Thinned(rs, ps, e)
    BY <2>4, <1>3, KeepsThinned
  <2>6. GoodRaw(ps)
    BY <2>4, <2>5, <1>3, ThinnedRaw
  <2> HIDE DEF m, top, ps, rebuild
  <2>7. \A i \in DOMAIN bs : bs[i].ts <= top /\ (i # m => bs[i].ts < top)
    <3> SUFFICES ASSUME NEW i \in DOMAIN bs PROVE bs[i].ts <= top /\ (i # m => bs[i].ts < top)
      OBVIOUS
    <3>1. i = m \/ i < m
      BY <2>2
    <3>2. i < m => bs[i].ts < bs[m].ts
      BY <2>2, <1>3 DEF GoodRow
    <3> QED
      BY <3>1, <3>2, <2>2, <2>3, <1>4
  \* What is pushed onto is a part of the buckets that were kept.
  <2>8. /\ as \in Seq(Buckets) /\ GoodRow(t, as)
        /\ \A i \in DOMAIN as : i \in DOMAIN bs /\ as[i] = bs[i] /\ (rebuild => i # m)
        /\ \A i \in DOMAIN bs : i # m => i \in DOMAIN as
    <3>1. CASE rebuild
      <4>1. as = Front(bs)
        BY <3>1
      <4>2. GoodRow(t, Front(bs))
        BY <2>2, <1>3, ThinnedRow
      <4>3. /\ \A i \in 1..(m - 1) : i \in 1..m /\ i # m
            /\ \A i \in 1..m : i # m => i \in 1..(m - 1)
        BY <2>2
      <4> QED
        BY <4>1, <4>2, <4>3, <2>2
    <3>2. CASE ~rebuild
      BY <3>2, <1>3
    <3> QED
      BY <3>1, <3>2
  <2>9. GoodTier(t, r) /\ Row(r) = as
    BY <2>8, ClosedTier
  <2> HIDE DEF as, r
  \* The points that are pushed: those of the file from the last bucket on.
  <2>10. ASSUME NEW k \in DOMAIN ps
         PROVE  /\ e[k] \in DOMAIN rs /\ ps[k] = rs[e[k]] /\ ps[k].ts \in Nat /\ ps[k].n \in Nat
                /\ BucketStart(t, ps[k].ts) \in Nat /\ top <= BucketStart(t, ps[k].ts)
                /\ BucketStart(t, ps[k].ts) <= ps[k].ts
    <3>1. e[k] \in DOMAIN rs /\ ps[k] = rs[e[k]] /\ ps[k].ts >= top
      BY <2>4, <2>5 DEF Keeps, Thinned
    <3>2. ps[k].ts \in Nat /\ ps[k].n \in Nat
      BY <3>1, <1>4
    <3> QED
      BY <3>1, <3>2, <2>3, BucketIs, BucketOf
  <2>11. ASSUME NEW k \in DOMAIN ps, NEW i \in DOMAIN as, ps[k].n \in Points(as[i])
         PROVE  FALSE
    <3>1. BucketStart(t, ps[k].ts) <= bs[i].ts /\ i \in DOMAIN bs
      BY <2>8, <2>10, <2>11, <1>3 DEF NotBefore
    <3>2. bs[i].ts = top /\ BucketStart(t, ps[k].ts) = top
      BY <3>1, <2>3, <2>7, <2>10, <1>4
    <3>3. rebuild
      BY <3>2 DEF rebuild
    <3>4. i # m
      BY <3>3, <2>8
    <3>5. bs[i].ts < top
      BY <3>1, <3>4, <2>7
    <3> QED
      BY <3>2, <3>5, <2>3
  <2>12. Coming(t, as, ps)
    <3>1. ASSUME NEW k \in DOMAIN ps, NEW j \in DOMAIN as PROVE as[j].ts <= BucketStart(t, ps[k].ts)
      <4>1. j \in DOMAIN bs /\ as[j] = bs[j]
        BY <2>8
      <4>2. bs[j].ts <= top /\ bs[j].ts \in Nat
        BY <4>1, <2>7, <1>4
      <4>3. BucketStart(t, ps[k].ts) \in Nat /\ top <= BucketStart(t, ps[k].ts)
        BY <2>10
      <4> QED
        BY <4>1, <4>2, <4>3, <2>3
    <3> QED
      BY <3>1, <2>6, <2>11 DEF Coming, NewTo
  <2> DEFINE cs == Row(q)
  <2>13. GoodTier(t, q) /\ Filled(t, as, cs, ps, Len(ps))
         /\ (Ascending(ps, h) => FilledExact(t, as, cs, ps, Len(ps), h))
    BY <2>1, <2>9, <2>12, PushAllGood
  <2>14. GoodRow(t, cs)
    BY <2>13 DEF GoodTier
  <2> HIDE DEF cs, q
  <2>15. DOMAIN ps = 1..Len(ps)
    BY <2>4
  <2>16. NotBefore(t, rs, cs)
    <3> SUFFICES ASSUME NEW k \in DOMAIN rs, NEW i \in DOMAIN cs, rs[k].n \in Points(cs[i])
                 PROVE  BucketStart(t, rs[k].ts) <= cs[i].ts
      BY DEF NotBefore
    <3>1. CASE \E j \in DOMAIN as : as[j].ts = cs[i].ts /\ rs[k].n \in Points(as[j])
      <4>1. PICK j \in DOMAIN as : as[j].ts = cs[i].ts /\ rs[k].n \in Points(as[j])
        BY <3>1
      <4> QED
        BY <4>1, <2>8, <1>3 DEF NotBefore
    <3>2. CASE \E w \in 1..Len(ps) : rs[k].n = ps[w].n /\ BucketStart(t, ps[w].ts) <= cs[i].ts
      <4>1. PICK w \in DOMAIN ps : rs[k].n = ps[w].n /\ BucketStart(t, ps[w].ts) <= cs[i].ts
        BY <3>2, <2>15
      <4>2. e[w] \in DOMAIN rs /\ ps[w] = rs[e[w]]
        BY <2>10
      <4>3. k = e[w]
        <5>1. DOMAIN rs \subseteq Int
          BY <1>3
        <5>2. ~(k < e[w]) /\ ~(e[w] < k)
          BY <4>1, <4>2, <1>3, <1>4 DEF GoodRaw
        <5> QED
          BY <5>1, <5>2, <4>2
      <4> QED
        BY <4>1, <4>2, <4>3
    <3> QED
      BY <3>1, <3>2, <2>13 DEF Filled
  <2>17. Numbered(rs, cs, n)
    <3> SUFFICES ASSUME NEW i \in DOMAIN cs, NEW x \in Points(cs[i]) PROVE x <= n
      BY <1>3 DEF Numbered
    <3>1. CASE \E j \in DOMAIN as : as[j].ts = cs[i].ts /\ x \in Points(as[j])
      BY <3>1, <2>8, <1>3 DEF Numbered
    <3>2. CASE \E w \in 1..Len(ps) : x = ps[w].n /\ BucketStart(t, ps[w].ts) <= cs[i].ts
      BY <3>2, <2>10, <2>15, <1>3 DEF Numbered
    <3> QED
      BY <3>1, <3>2, <2>13 DEF Filled
  <2>18. ASSUME Whole PROVE Exact(t, rs, cs, h)
    <3>1. Ascending(rs, h)
      BY <2>18
    <3>2. Ascending(ps, h)
      BY <3>1, <2>5 DEF Ascending, Thinned
    <3>3. FilledExact(t, as, cs, ps, Len(ps), h)
      BY <3>2, <2>13
    <3>4. ASSUME NEW i \in DOMAIN cs PROVE cs[i].ts <= h
      <4>1. CASE \E j \in DOMAIN as : as[j].ts = cs[i].ts
        BY <4>1, <2>8, <2>18
      <4>2. CASE \E w \in 1..Len(ps) : cs[i].ts = BucketStart(t, ps[w].ts)
        <5>1. PICK w \in DOMAIN ps : cs[i].ts = BucketStart(t, ps[w].ts)
          BY <4>2, <2>15
        <5>2. ps[w].ts <= h
          BY <3>2 DEF Ascending
        <5> QED
          BY <5>1, <5>2, <2>10
      <4> QED
        BY <4>1, <4>2, <2>13 DEF Filled
    <3>5. ASSUME NEW k \in DOMAIN rs, rs[k].ts >= h - Tiers[t].span
          PROVE  \E i \in DOMAIN cs : cs[i].ts = BucketStart(t, rs[k].ts) /\ rs[k].n \in Points(cs[i])
      <4>1. ~Aged(t, BucketStart(t, rs[k].ts), h)
        BY <3>5, <1>4, NotAged
      <4>2. CASE rs[k].ts >= top
        <5>1. k \in 1..Len(rs)
          BY <1>3
        <5>2. PICK w \in DOMAIN ps : e[w] = k
          BY <5>1, <4>2, <2>4 DEF Keeps
        <5>3. ps[w] = rs[k] /\ w \in 1..Len(ps)
          BY <5>2, <2>10, <2>15
        <5> QED
          BY <5>3, <4>1, <3>3 DEF FilledExact
      <4>3. CASE ~(rs[k].ts >= top)
        <5>1. PICK j \in DOMAIN bs : bs[j].ts = BucketStart(t, rs[k].ts) /\ rs[k].n \in Points(bs[j])
          BY <2>18
        <5>2. BucketStart(t, rs[k].ts) <= rs[k].ts /\ BucketStart(t, rs[k].ts) \in Nat
          BY <1>4, BucketIs
        <5>3. j # m
          BY <5>1, <5>2, <4>3, <2>3, <1>4
        <5>4. j \in DOMAIN as /\ as[j] = bs[j]
          BY <5>3, <2>8
        <5>5. PICK i \in DOMAIN cs : cs[i].ts = as[j].ts /\ Points(as[j]) \subseteq Points(cs[i])
          BY <5>1, <5>4, <4>1, <3>3 DEF FilledExact
        <5> QED
          BY <5>1, <5>4, <5>5
      <4> QED
        BY <4>2, <4>3
    <3> QED
      BY <3>1, <3>4, <3>5 DEF Exact, Ascending
  <2>19. Consistent(t, rs, cs, n, h, forward)
    BY <2>14, <2>16, <2>17, <2>18, <1>2, <1>3 DEF Consistent
  <2> QED
    BY <2>13, <2>19 DEF cs, rs, bs, q
<1> QED
  BY <1>5, <1>6

\* An empty store.
LEMMA HistInitStep == HistStoreInit => StoreInv
<1> SUFFICES ASSUME HistStoreInit PROVE StoreInv
  OBVIOUS
<1>1. <<>> \in Seq(RawPoints) /\ <<>> \in Seq(Buckets) /\ DOMAIN <<>> = {}
  OBVIOUS
<1>2. ASSUME NEW t \in DOMAIN Tiers
      PROVE  GoodTier(t, tier[t]) /\ Consistent(t, raw, Row(tier[t]), points, hnow, backs = 0)
  <2>1. GoodRow(t, <<>>)
    BY <1>1 DEF GoodRow
  <2>2. tier[t] = [pts |-> <<>>, open |-> <<>>] /\ raw = <<>>
    BY DEF HistStoreInit, EmptyTier
  <2>3. GoodTier(t, tier[t]) /\ Row(tier[t]) = <<>>
    BY <2>1, <2>2, ClosedTier
  <2> QED
    BY <2>1, <2>2, <2>3, <1>1 DEF Consistent, GoodRaw, NotBefore, Numbered, Exact
<1>3. rawCap \in Nat \ {0}
  BY TierAssumption DEF HistStoreInit
<1> QED
  BY <1>2, <1>3 DEF StoreInv, HistStoreInit, Savers

\* Copies stay consistent while the clock goes on and points are added; a step back
\* ends what holds of a clock that goes forward.
LEMMA CopiesStay ==
  ASSUME StoreInv, points' \in Nat, points <= points', hnow' \in Nat, hnow <= hnow' \/ backs' # 0,
         backs' # 0 \/ backs = 0,
         NEW c, CopyConsistent(c, points, hnow, backs = 0)
  PROVE  CopyConsistent(c, points', hnow', backs' = 0)
<1> SUFFICES ASSUME NEW t \in DOMAIN Tiers
             PROVE  Consistent(t, c.raw, c.tiers[t], points', hnow', backs' = 0)
  BY DEF CopyConsistent
<1>1. Consistent(t, c.raw, c.tiers[t], points, hnow, backs = 0)
  BY DEF CopyConsistent
<1>2. hnow \in Nat /\ points \in Nat
  BY DEF StoreInv
<1>3. CASE backs' = 0
  BY <1>1, <1>2, <1>3, StillConsistent
<1>4. CASE backs' # 0
  <2>1. Consistent(t, c.raw, c.tiers[t], points, hnow, FALSE)
    BY <1>1 DEF Consistent
  <2>2. Consistent(t, c.raw, c.tiers[t], points', hnow, FALSE)
    <3>1. hnow <= hnow /\ FALSE \in BOOLEAN
      BY <1>2
    <3> QED
      BY <3>1, <2>1, <1>2, StillConsistent
  <2> QED
    BY <2>2, <1>4 DEF Consistent
<1> QED
  BY <1>3, <1>4

\* The copies when no save takes a step.
LEMMA CopiesUnchanged ==
  ASSUME StoreInv, points' \in Nat, points <= points', hnow' \in Nat, hnow <= hnow' \/ backs' # 0,
         backs' # 0 \/ backs = 0, UNCHANGED <<saving, hfile>>
  PROVE  /\ DOMAIN saving' = Savers
         /\ \A s \in Savers :
              saving'[s] # <<>> => CopyConsistent(saving'[s][1], points', hnow', backs' = 0)
         /\ hfile' # <<>> => CopyConsistent(hfile'[1], points', hnow', backs' = 0)
<1>1. \A s \in Savers :
        saving[s] # <<>> => CopyConsistent(saving[s][1], points', hnow', backs' = 0)
  BY CopiesStay DEF StoreInv
<1>2. hfile # <<>> => CopyConsistent(hfile[1], points', hnow', backs' = 0)
  BY CopiesStay DEF StoreInv
<1> QED
  BY <1>1, <1>2 DEF StoreInv

\* Push.
LEMMA PushStep == ASSUME StoreInv, PushPoint PROVE StoreInv'
<1> DEFINE p == [n |-> points + 1, ts |-> hnow]
<1>1. /\ points' = points + 1 /\ raw' = LastOf(Append(raw, p), rawCap)
      /\ tier' = [t \in DOMAIN Tiers |-> PushTier(t, tier[t], p)]
      /\ UNCHANGED <<hnow, rawCap, saving, hfile, backs, saves>>
  BY DEF PushPoint
<1>2. hnow \in Nat /\ points \in Nat /\ rawCap \in Nat \ {0} /\ backs \in Nat
  BY DEF StoreInv
<1> HIDE DEF p
<1>3. ASSUME NEW t \in DOMAIN Tiers
      PROVE  GoodTier(t, tier'[t]) /\ Consistent(t, raw', Row(tier'[t]), points', hnow', backs' = 0)
  <2> DEFINE q == PushTier(t, tier[t], p)
             fw == backs = 0
  <2>1. tier'[t] = q
    BY <1>1
  <2>2. GoodTier(t, tier[t]) /\ Consistent(t, raw, Row(tier[t]), points, hnow, fw)
    BY DEF StoreInv
  <2>3. fw \in BOOLEAN
    OBVIOUS
  <2>4. p = [n |-> points + 1, ts |-> hnow]
    BY DEF p
  <2> HIDE DEF fw
  <2>5. GoodTier(t, q) /\ Consistent(t, Append(raw, p), Row(q), points + 1, hnow, fw)
    BY <2>2, <2>3, <2>4, <1>2, PushConsistent
  <2> HIDE DEF q
  <2>6. Consistent(t, LastOf(Append(raw, p), rawCap), Row(q), points + 1, hnow, fw)
    BY <2>3, <2>5, <1>2, ConsistentLast
  <2> QED
    BY <2>1, <2>5, <2>6, <1>1 DEF fw
<1>4. points' \in Nat /\ points <= points' /\ hnow' = hnow /\ hnow <= hnow /\ backs' = backs
      /\ rawCap' = rawCap
  BY <1>1, <1>2
<1>5. /\ DOMAIN saving' = Savers
      /\ \A s \in Savers :
           saving'[s] # <<>> => CopyConsistent(saving'[s][1], points', hnow', backs' = 0)
      /\ hfile' # <<>> => CopyConsistent(hfile'[1], points', hnow', backs' = 0)
  BY <1>1, <1>2, <1>4, CopiesUnchanged
<1>6. DOMAIN tier' = DOMAIN Tiers
  BY <1>1
<1> QED
  BY <1>2, <1>3, <1>4, <1>5, <1>6 DEF StoreInv

\* The clock moves on.
LEMMA PassStep == ASSUME StoreInv, NEW d \in Strides, Pass(d) PROVE StoreInv'
<1>1. /\ hnow \in Nat /\ points \in Nat /\ rawCap \in Nat \ {0} /\ backs \in Nat /\ d \in Nat
  BY TierAssumption DEF StoreInv
<1>2. /\ hnow' \in Nat /\ hnow <= hnow' /\ points' = points /\ backs' = backs /\ points <= points
      /\ rawCap' = rawCap /\ raw' = raw /\ tier' = tier /\ UNCHANGED <<saving, hfile>>
  BY <1>1 DEF Pass
<1>3. ASSUME NEW t \in DOMAIN Tiers
      PROVE  GoodTier(t, tier'[t]) /\ Consistent(t, raw', Row(tier'[t]), points', hnow', backs' = 0)
  <2>1. GoodTier(t, tier[t]) /\ Consistent(t, raw, Row(tier[t]), points, hnow, backs = 0)
    BY DEF StoreInv
  <2>2. Consistent(t, raw, Row(tier[t]), points, hnow', backs = 0)
    BY <2>1, <1>1, <1>2, StillConsistent
  <2> QED
    BY <2>1, <2>2, <1>2
<1>4. /\ DOMAIN saving' = Savers
      /\ \A s \in Savers :
           saving'[s] # <<>> => CopyConsistent(saving'[s][1], points', hnow', backs' = 0)
      /\ hfile' # <<>> => CopyConsistent(hfile'[1], points', hnow', backs' = 0)
  BY <1>1, <1>2, CopiesUnchanged
<1>5. DOMAIN tier' = DOMAIN Tiers
  BY <1>2 DEF StoreInv
<1> QED
  BY <1>1, <1>2, <1>3, <1>4, <1>5 DEF StoreInv

\* The clock is stepped back.
LEMMA BackStep == ASSUME StoreInv, NEW d \in Strides, StepBack(d) PROVE StoreInv'
<1>1. /\ hnow \in Nat /\ points \in Nat /\ rawCap \in Nat \ {0} /\ backs \in Nat /\ d \in Nat
  BY TierAssumption DEF StoreInv
<1>2. /\ hnow' \in Nat /\ points' = points /\ backs' \in Nat /\ backs' # 0 /\ points <= points
      /\ rawCap' = rawCap /\ raw' = raw /\ tier' = tier /\ UNCHANGED <<saving, hfile>>
  BY <1>1 DEF StepBack
<1>3. ASSUME NEW t \in DOMAIN Tiers
      PROVE  GoodTier(t, tier'[t]) /\ Consistent(t, raw', Row(tier'[t]), points', hnow', backs' = 0)
  <2>1. GoodTier(t, tier[t]) /\ Consistent(t, raw, Row(tier[t]), points, hnow, backs = 0)
    BY DEF StoreInv
  <2>2. Consistent(t, raw, Row(tier[t]), points, hnow', FALSE)
    BY <2>1 DEF Consistent
  <2> QED
    BY <2>1, <2>2, <1>2
<1>4. /\ DOMAIN saving' = Savers
      /\ \A s \in Savers :
           saving'[s] # <<>> => CopyConsistent(saving'[s][1], points', hnow', backs' = 0)
      /\ hfile' # <<>> => CopyConsistent(hfile'[1], points', hnow', backs' = 0)
  BY <1>1, <1>2, CopiesUnchanged
<1>5. DOMAIN tier' = DOMAIN Tiers
  BY <1>2 DEF StoreInv
<1> QED
  BY <1>1, <1>2, <1>3, <1>4, <1>5 DEF StoreInv

\* The interval of the samples changes.
LEMMA IntervalStep == ASSUME StoreInv, NEW c \in RawCaps, SetInterval(c) PROVE StoreInv'
<1>1. hnow \in Nat /\ points \in Nat /\ backs \in Nat /\ c \in Nat \ {0}
  BY TierAssumption DEF StoreInv
<1>2. /\ hnow' = hnow /\ points' = points /\ backs' = backs /\ hnow <= hnow /\ points <= points
      /\ rawCap' = c /\ raw' = LastOf(raw, c) /\ tier' = tier /\ UNCHANGED <<saving, hfile>>
  BY <1>1 DEF SetInterval
<1>3. ASSUME NEW t \in DOMAIN Tiers
      PROVE  GoodTier(t, tier'[t]) /\ Consistent(t, raw', Row(tier'[t]), points', hnow', backs' = 0)
  <2>1. GoodTier(t, tier[t]) /\ Consistent(t, raw, Row(tier[t]), points, hnow, backs = 0)
    BY DEF StoreInv
  <2>2. Consistent(t, LastOf(raw, c), Row(tier[t]), points, hnow, backs = 0)
    BY <2>1, <1>1, ConsistentLast
  <2> QED
    BY <2>1, <2>2, <1>2
<1>4. /\ DOMAIN saving' = Savers
      /\ \A s \in Savers :
           saving'[s] # <<>> => CopyConsistent(saving'[s][1], points', hnow', backs' = 0)
      /\ hfile' # <<>> => CopyConsistent(hfile'[1], points', hnow', backs' = 0)
  BY <1>1, <1>2, CopiesUnchanged
<1>5. DOMAIN tier' = DOMAIN Tiers
  BY <1>2 DEF StoreInv
<1> QED
  BY <1>1, <1>2, <1>3, <1>4, <1>5 DEF StoreInv

\* Save up to the unlock.
LEMMA MarshalStep == ASSUME StoreInv, NEW s \in Savers, Marshal(s) PROVE StoreInv'
<1> DEFINE c == [raw |-> raw, tiers |-> [t \in DOMAIN Tiers |-> All(tier[t])]]
<1>1. saving' = [saving EXCEPT ![s] = <<c>>] /\ UNCHANGED <<hnow, points, raw, rawCap, tier, hfile, backs>>
  BY DEF Marshal
<1>2. CopyConsistent(c, points, hnow, backs = 0)
  <2> SUFFICES ASSUME NEW t \in DOMAIN Tiers
               PROVE  Consistent(t, raw, All(tier[t]), points, hnow, backs = 0)
    BY DEF CopyConsistent
  <2>1. GoodTier(t, tier[t]) /\ Consistent(t, raw, Row(tier[t]), points, hnow, backs = 0)
    BY DEF StoreInv
  <2> DEFINE al == All(tier[t])
             bs == Row(tier[t])
  <2>2. /\ al \in Seq(Buckets) /\ DOMAIN al = DOMAIN bs
        /\ \A i \in DOMAIN bs : al[i].ts = bs[i].ts /\ Points(al[i]) = Points(bs[i]) /\ Own(al[i])
    BY <2>1, AllIs
  <2> HIDE DEF al, bs
  <2>3. Consistent(t, raw, al, points, hnow, backs = 0)
    BY <2>1, <2>2, ConsistentSame DEF bs
  <2> QED
    BY <2>3 DEF al
<1> HIDE DEF c
<1>3. \A r \in Savers :
        saving'[r] # <<>> => CopyConsistent(saving'[r][1], points, hnow, backs = 0)
  <2>1. <<c>>[1] = c /\ DOMAIN saving = Savers
    BY DEF StoreInv
  <2>2. saving'[s][1] = c /\ \A r \in Savers : r # s => saving'[r] = saving[r]
    BY <2>1, <1>1
  <2> QED
    BY <2>2, <1>2 DEF StoreInv
<1> QED
  BY <1>1, <1>3 DEF StoreInv

\* The write, which may fail.
LEMMA WriteStep == ASSUME StoreInv, NEW s \in Savers, WriteHistory(s) PROVE StoreInv'
<1>1. /\ saving[s] # <<>> /\ hfile' \in {hfile, saving[s]} /\ saving' = [saving EXCEPT ![s] = <<>>]
      /\ UNCHANGED <<hnow, points, raw, rawCap, tier, backs>>
  BY DEF WriteHistory
<1>2. hfile' # <<>> => CopyConsistent(hfile'[1], points, hnow, backs = 0)
  BY <1>1 DEF StoreInv
<1>3. DOMAIN saving' = Savers /\ \A r \in Savers :
        saving'[r] # <<>> => CopyConsistent(saving'[r][1], points, hnow, backs = 0)
  BY <1>1 DEF StoreInv
<1> QED
  BY <1>1, <1>2, <1>3 DEF StoreInv

\* The process ends and New loads the file.
LEMMA RestartStep == ASSUME StoreInv, HistStoreRestart PROVE StoreInv'
<1>1. PICK c \in RawCaps :
        /\ rawCap' = c
        /\ raw' = IF hfile = <<>> THEN <<>> ELSE LastOf(Since(hfile[1].raw, hnow - RawSpan), c)
  BY DEF HistStoreRestart
<1>2. /\ saving' = [s \in Savers |-> <<>>] /\ UNCHANGED <<hnow, points, hfile, backs>>
      /\ tier' = [t \in DOMAIN Tiers |->
                IF hfile = <<>> THEN EmptyTier
                ELSE LoadTier(t, LastOf(Since(hfile[1].tiers[t], hnow - Tiers[t].span),
                                        Tiers[t].capacity), raw')]
  BY DEF HistStoreRestart
<1>3. hnow \in Nat /\ points \in Nat /\ backs \in Nat /\ c \in Nat \ {0}
  BY TierAssumption DEF StoreInv
<1>4. ASSUME NEW t \in DOMAIN Tiers
      PROVE  GoodTier(t, tier'[t]) /\ Consistent(t, raw', Row(tier'[t]), points, hnow, backs = 0)
  <2>1. CASE hfile = <<>>
    <3>1. <<>> \in Seq(RawPoints) /\ <<>> \in Seq(Buckets) /\ DOMAIN <<>> = {}
      OBVIOUS
    <3>2. GoodRow(t, <<>>)
      BY <3>1 DEF GoodRow
    <3>3. tier'[t] = [pts |-> <<>>, open |-> <<>>] /\ raw' = <<>>
      BY <2>1, <1>1, <1>2 DEF EmptyTier
    <3>4. GoodTier(t, tier'[t]) /\ Row(tier'[t]) = <<>>
      BY <3>2, <3>3, ClosedTier
    <3> QED
      BY <3>1, <3>2, <3>3, <3>4 DEF Consistent, GoodRaw, NotBefore, Numbered, Exact
  <2>2. CASE hfile # <<>>
    <3> DEFINE fr == hfile[1].raw
               fb == hfile[1].tiers[t]
               fw == backs = 0
    <3>1. Consistent(t, fr, fb, points, hnow, fw)
      BY <2>2 DEF StoreInv, CopyConsistent
    <3>2. /\ raw' = LoadedRaw(fr, hnow, c)
          /\ tier'[t] = LoadTier(t, LoadedRow(t, fb, hnow), raw')
      BY <2>2, <1>1, <1>2 DEF LoadedRaw, LoadedRow
    <3>3. fw \in BOOLEAN
      OBVIOUS
    <3> HIDE DEF fr, fb, fw
    <3>4. LET rs == LoadedRaw(fr, hnow, c)
              q == LoadTier(t, LoadedRow(t, fb, hnow), rs)
          IN  GoodTier(t, q) /\ Consistent(t, rs, Row(q), points, hnow, fw)
      BY <3>1, <3>3, <1>3, LoadGood
    <3> QED
      BY <3>2, <3>4 DEF fw
  <2> QED
    BY <2>1, <2>2
<1>5. hfile # <<>> => CopyConsistent(hfile[1], points, hnow, backs = 0)
  BY DEF StoreInv
<1>6. DOMAIN tier' = DOMAIN Tiers /\ DOMAIN saving' = Savers /\ \A s \in Savers : saving'[s] = <<>>
  BY <1>2
<1> QED
  BY <1>1, <1>2, <1>3, <1>4, <1>5, <1>6 DEF StoreInv

\* StoreInv is inductive.
LEMMA StoreInvInductive == StoreInv /\ [HistStoreNext]_histStoreVars => StoreInv'
<1> SUFFICES ASSUME StoreInv, [HistStoreNext]_histStoreVars PROVE StoreInv'
  OBVIOUS
<1>1. CASE UNCHANGED histStoreVars
  BY <1>1 DEF StoreInv, histStoreVars
<1> QED
  BY <1>1, PushStep, PassStep, BackStep, IntervalStep, MarshalStep, WriteStep, RestartStep
  DEF HistStoreNext

\* It says of the buckets what EachPointOnce says of their parts.
LEMMA StoreInvOnce == StoreInv => EachPointOnce
<1> SUFFICES ASSUME StoreInv, NEW t \in DOMAIN Tiers
             PROVE  LET bs == tier[t].pts \o tier[t].open
        P == UNION {{i} \X DOMAIN bs[i].parts : i \in DOMAIN bs}
    IN  /\ \A i, j \in DOMAIN bs : i < j => bs[i].ts < bs[j].ts
        /\ \A x, y \in P : x # y => bs[x[1]].parts[x[2]] \cap bs[y[1]].parts[y[2]] = {}
        /\ backs = 0 =>
             \A k \in DOMAIN raw : raw[k].ts >= hnow - Tiers[t].span =>
               \E i \in DOMAIN bs : /\ bs[i].ts = BucketStart(t, raw[k].ts)
                                    /\ raw[k].n \in UNION ToSet(bs[i].parts)
  BY DEF EachPointOnce
<1> DEFINE bs == tier[t].pts \o tier[t].open
           P == UNION {{i} \X DOMAIN bs[i].parts : i \in DOMAIN bs}
<1>1. GoodTier(t, tier[t]) /\ Consistent(t, raw, bs, points, hnow, backs = 0)
  BY DEF StoreInv, Row
<1> HIDE DEF bs
<1>2. GoodRow(t, bs)
  BY <1>1 DEF Consistent
<1>3. \A i \in DOMAIN bs : \A j \in DOMAIN bs[i].parts : bs[i].parts[j] \subseteq Points(bs[i])
  <2>1. \A i \in DOMAIN bs : bs[i] \in Buckets
    BY <1>2 DEF GoodRow
  <2> QED
    BY <2>1 DEF Buckets, Points, ToSet
<1>4. ASSUME NEW x \in P, NEW y \in P, x # y
      PROVE  bs[x[1]].parts[x[2]] \cap bs[y[1]].parts[y[2]] = {}
  <2>1. PICK i \in DOMAIN bs : x \in {i} \X DOMAIN bs[i].parts
    OBVIOUS
  <2>2. PICK j \in DOMAIN bs : y \in {j} \X DOMAIN bs[j].parts
    OBVIOUS
  <2>3. /\ x[1] = i /\ x[2] \in DOMAIN bs[i].parts /\ y[1] = j /\ y[2] \in DOMAIN bs[j].parts
        /\ x = <<x[1], x[2]>> /\ y = <<y[1], y[2]>>
    BY <2>1, <2>2
  <2>4. CASE i = j
    <3>1. x[2] # y[2]
      BY <2>3, <2>4, <1>4
    <3>2. Own(bs[i])
      BY <1>2 DEF GoodRow
    <3> QED
      BY <3>1, <3>2, <2>3, <2>4 DEF Own
  <2>5. CASE i # j
    <3>1. Points(bs[i]) \cap Points(bs[j]) = {}
      BY <2>5, <1>2 DEF GoodRow
    <3> QED
      BY <3>1, <2>3, <1>3
  <2> QED
    BY <2>4, <2>5
<1>5. backs = 0 => \A k \in DOMAIN raw : raw[k].ts >= hnow - Tiers[t].span =>
        \E i \in DOMAIN bs : bs[i].ts = BucketStart(t, raw[k].ts)
                             /\ raw[k].n \in UNION ToSet(bs[i].parts)
  BY <1>1 DEF Consistent, Exact, Points
<1>6. \A i, j \in DOMAIN bs : i < j => bs[i].ts < bs[j].ts
  BY <1>2 DEF GoodRow
<1> QED
  BY <1>4, <1>5, <1>6 DEF bs

\* EachPointOnce: for every set of tiers whose span covers the raw span and a bucket
\* and whose capacity covers the span, however saves, restarts, changes of the
\* interval and steps of the clock interleave (push, Save, Load).
THEOREM EachPointOnceHolds == HistStoreSpec => []EachPointOnce
<1>1. HistStoreInit => StoreInv
  BY HistInitStep
<1>2. StoreInv /\ [HistStoreNext]_histStoreVars => StoreInv'
  BY StoreInvInductive
<1>3. StoreInv => EachPointOnce
  BY StoreInvOnce
<1> QED
  BY <1>1, <1>2, <1>3, PTL DEF HistStoreSpec
=============================================================================
