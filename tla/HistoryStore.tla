---------------------------- MODULE HistoryStore -----------------------------
(***************************************************************************)
(* The tiered history behind the charts: the raw points, the averaged      *)
(* tiers with their closed buckets and the open one, history.json, and the *)
(* rebuild of the open buckets after a restart.  Save marshals under the   *)
(* lock and writes outside it; the loop and Stop save, each on its own     *)
(* goroutine.                                                              *)
(*                                                                         *)
(* A point is its number and its time.  A bucket is the sequence of the    *)
(* parts its mean is formed from, a part being the numbers of the points   *)
(* it stands for: one for a raw point, several for a mean that was reopened*)
(* with the weight of one.                                                 *)
(***************************************************************************)
EXTENDS Integers, Sequences, SequencesExt

CONSTANTS
  RawSpan,       \* age up to which Load keeps raw points
  RawCaps,       \* RawCapacity of the intervals that are configured
  Tiers,         \* name -> [bucket, span, capacity]
  Strides,       \* by how much the clock moves between two points
  MaxPoints, MaxHistTime, MaxBack, MaxSaves  \* bounds: points, time, steps of the
                                             \* clock back, saves

ASSUME TierAssumption ==
  /\ RawSpan \in Nat /\ RawCaps \subseteq Nat \ {0} /\ Strides \subseteq Nat \ {0}
  /\ {MaxPoints, MaxHistTime, MaxBack, MaxSaves} \subseteq Nat
  /\ \A t \in DOMAIN Tiers : /\ Tiers[t].bucket \in Nat \ {0}
                             /\ Tiers[t].span \in Nat /\ Tiers[t].capacity \in Nat
                             /\ Tiers[t].span >= RawSpan + Tiers[t].bucket
                             /\ Tiers[t].capacity * Tiers[t].bucket >= Tiers[t].span

Savers == {"loop", "stop"}

VARIABLES
  hnow,     \* wall clock
  points,   \* points pushed so far
  raw,      \* Store.raw, oldest first
  rawCap,
  tier,     \* name -> [pts, open]; open is <<>> or <<the bucket>>
  saving,   \* Savers -> <<>> or <<what was marshalled and is not written yet>>
  hfile,    \* history.json: <<>> or <<its content>>
  backs,    \* steps back so far
  saves     \* saves so far

histStoreVars == <<hnow, points, raw, rawCap, tier, saving, hfile, backs, saves>>

EmptyTier == [pts |-> <<>>, open |-> <<>>]

HistStoreInit ==
  /\ hnow = 0 /\ points = 0 /\ raw = <<>> /\ rawCap \in RawCaps
  /\ tier = [t \in DOMAIN Tiers |-> EmptyTier]
  /\ saving = [s \in Savers |-> <<>>] /\ hfile = <<>> /\ backs = 0 /\ saves = 0

LastOf(s, n) == SubSeq(s, IF Len(s) > n THEN Len(s) - n + 1 ELSE 1, Len(s))

\* keepSince: the points from cut on, in their order.
Since(s, cut) ==
  LET kept[k \in 0..Len(s)] ==
        IF k = 0 THEN <<>>
        ELSE IF s[k].ts >= cut THEN Append(kept[k - 1], s[k]) ELSE kept[k - 1]
  IN  kept[Len(s)]

BucketStart(t, ts) == ts - (ts % Tiers[t].bucket)

\* acc.point: the mean stands for all its points.
Mean(b) == [ts |-> b.ts, parts |-> <<UNION ToSet(b.parts)>>]
AddTo(b, p) == [b EXCEPT !.parts = Append(@, {p.n})]

CloseOpen(t, r) ==
  IF r.open = <<>> THEN r
  ELSE [pts |-> LastOf(Append(r.pts, Mean(r.open[1])), Tiers[t].capacity), open |-> <<>>]

\* tier.push: the open bucket; else the last closed one reopened; else a new one.
PushTier(t, r, p) ==
  LET start == BucketStart(t, p.ts)
      c == IF r.open # <<>> /\ start > r.open[1].ts THEN CloseOpen(t, r) ELSE r
  IN  IF c.open # <<>> THEN [c EXCEPT !.open = <<AddTo(@[1], p)>>]
      ELSE IF c.pts # <<>> /\ start <= Last(c.pts).ts
        THEN [pts |-> Front(c.pts), open |-> <<AddTo(Last(c.pts), p)>>]
        ELSE [c EXCEPT !.open = <<AddTo([ts |-> start, parts |-> <<>>], p)>>]

\* One point after the other.
PushAll(t, r, ps) ==
  LET pushed[k \in 0..Len(ps)] == IF k = 0 THEN r ELSE PushTier(t, pushed[k - 1], ps[k])
  IN  pushed[Len(ps)]

\* Push, once per cycle.
PushPoint ==
  /\ points < MaxPoints /\ points' = points + 1
  /\ LET p == [n |-> points', ts |-> hnow]
     IN  /\ raw' = LastOf(Append(raw, p), rawCap)
         /\ tier' = [t \in DOMAIN Tiers |-> PushTier(t, tier[t], p)]
  /\ UNCHANGED <<hnow, rawCap, saving, hfile, backs, saves>>

Pass(d) ==
  /\ hnow + d <= MaxHistTime /\ hnow' = hnow + d
  /\ UNCHANGED <<points, raw, rawCap, tier, saving, hfile, backs, saves>>

StepBack(d) ==
  /\ hnow - d >= 0 /\ backs < MaxBack
  /\ hnow' = hnow - d /\ backs' = backs + 1
  /\ UNCHANGED <<points, raw, rawCap, tier, saving, hfile, saves>>

SetInterval(c) ==
  /\ c # rawCap
  /\ rawCap' = c /\ raw' = LastOf(raw, c)
  /\ UNCHANGED <<hnow, points, tier, saving, hfile, backs, saves>>

\* tier.all: the open bucket is listed with its running mean.
All(r) == r.pts \o (IF r.open = <<>> THEN <<>> ELSE <<Mean(r.open[1])>>)

\* Save up to the unlock; the loop has passed historySaveEvery.
Marshal(s) ==
  /\ saving[s] = <<>> /\ points > 0 /\ saves < MaxSaves
  /\ saving' = [saving EXCEPT ![s] =
                  <<[raw |-> raw, tiers |-> [t \in DOMAIN Tiers |-> All(tier[t])]]>>]
  /\ UNCHANGED <<hnow, points, raw, rawCap, tier, hfile, backs>>
  /\ saves' = saves + 1

\* WriteAtomic, which may fail.
WriteHistory(s) ==
  /\ saving[s] # <<>>
  /\ hfile' \in {hfile, saving[s]}
  /\ saving' = [saving EXCEPT ![s] = <<>>]
  /\ UNCHANGED <<hnow, points, raw, rawCap, tier, backs, saves>>

\* Mutant: the last bucket stays and takes its raw points a second time.
LoadTierTwice(t, pts, rs) ==
  PushAll(t, [pts |-> pts, open |-> <<>>],
          IF pts = <<>> THEN <<>> ELSE Since(rs, Last(pts).ts))

\* tier.load: the last bucket is formed again when a raw point falls into it.
LoadTier(t, pts, rs) ==
  LET later == Since(rs, Last(pts).ts)
      rebuild == \E i \in DOMAIN later : BucketStart(t, later[i].ts) = Last(pts).ts
  IN  IF pts = <<>> THEN EmptyTier
      ELSE PushAll(t, [pts |-> IF rebuild THEN Front(pts) ELSE pts, open |-> <<>>], later)

\* The process ends, in the middle of a save or not, and New loads the file.
HistStoreRestart ==
  /\ saving' = [s \in Savers |-> <<>>]
  /\ \E c \in RawCaps :
       /\ rawCap' = c
       /\ raw' = IF hfile = <<>> THEN <<>>
                 ELSE LastOf(Since(hfile[1].raw, hnow - RawSpan), c)
  /\ tier' = [t \in DOMAIN Tiers |->
                IF hfile = <<>> THEN EmptyTier
                ELSE LoadTier(t, LastOf(Since(hfile[1].tiers[t], hnow - Tiers[t].span),
                                        Tiers[t].capacity), raw')]
  /\ UNCHANGED <<hnow, points, hfile, backs, saves>>

HistStoreNext ==
  \/ PushPoint \/ HistStoreRestart
  \/ \E d \in Strides : Pass(d) \/ StepBack(d)
  \/ \E c \in RawCaps : SetInterval(c)
  \/ \E s \in Savers : Marshal(s) \/ WriteHistory(s)

HistStoreSpec == HistStoreInit /\ [][HistStoreNext]_histStoreVars

-----------------------------------------------------------------------------
\* "a restart inside a bucket continues its mean exactly": after restarts, saves
\* cut short or written in the wrong order, a changed interval and steps of the
\* clock, the buckets of a tier ascend and no point counts twice; while the clock
\* has not been stepped back, every raw point that the span of the tier reaches
\* counts in the bucket of its time.
EachPointOnce ==
  \A t \in DOMAIN Tiers :
    LET bs == tier[t].pts \o tier[t].open
        P == UNION {{i} \X DOMAIN bs[i].parts : i \in DOMAIN bs}
    IN  /\ \A i, j \in DOMAIN bs : i < j => bs[i].ts < bs[j].ts
        /\ \A x, y \in P : x # y => bs[x[1]].parts[x[2]] \cap bs[y[1]].parts[y[2]] = {}
        /\ backs = 0 =>
             \A k \in DOMAIN raw : raw[k].ts >= hnow - Tiers[t].span =>
               \E i \in DOMAIN bs : /\ bs[i].ts = BucketStart(t, raw[k].ts)
                                    /\ raw[k].n \in UNION ToSet(bs[i].parts)
=============================================================================
