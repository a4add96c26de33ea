------------------------------ MODULE Scheduler ------------------------------
(***************************************************************************)
(* The preset schedules: which [[schedule]] entry is active at an instant, *)
(* when that changes next, and the ticker that applies the preset of an    *)
(* entry when it becomes active (scheduler.go, internal/schedule).         *)
(*                                                                         *)
(* An instant is a number of minutes of UTC; the wall clock is the instant *)
(* plus the offset of the zone, which changes once (DST).  Hours, days and *)
(* weeks have any length, so that a week fits into a small instance.       *)
(***************************************************************************)
EXTENDS Integers, Sequences, FiniteSets

CONSTANTS
  Hour, Day, Week,   \* minutes of an hour, minutes of a day, days of a week
  Presets,
  EntryLists,        \* the [[schedule]] lists a configuration can have
  ReloadLists,       \* those of them a reload may bring in
  ZoneRules,         \* the offset before and after the change, and its instant
  NoEntry,           \* lastOK = false, or nothing to apply
  MaxNow, MaxManual  \* bounds: the last instant, manual choices

ASSUME ClockAssumption ==
  /\ Hour \in Nat \ {0} /\ Week \in Nat \ {0} /\ Day \in Nat \ {0}
  /\ Day % Hour = 0 /\ MaxNow \in Nat /\ MaxManual \in Nat
ASSUME ListsAssumption ==
  /\ ReloadLists \subseteq EntryLists
  /\ \A es \in EntryLists : \A i \in DOMAIN es : {es[i].from, es[i].to} \subseteq 0..(Day - 1)
ASSUME ZoneAssumption ==
  \A z \in ZoneRules : /\ {z.before, z.after, z.at} \subseteq Int
                       /\ z.after - z.before <= Day

VARIABLES
  now, zone,
  entries,     \* s.entries
  baseline,    \* s.lastEntry, NoEntry while s.lastOK is false
  applying,    \* the entry evaluate() has decided on and not yet applied
  curves,      \* the preset whose curves are in effect
  manual,      \* manual choices so far (bound)
  overruled    \* history: since the last transition a manual choice was made
               \* or the apply failed

schedVars == <<now, zone, entries, baseline, applying, curves, manual, overruled>>

-----------------------------------------------------------------------------
(***************************************************************************)
(* The wall clock.                                                         *)
(***************************************************************************)
Offset(z, u) == IF u < z.at THEN z.before ELSE z.after
Wall(z, u) == u + Offset(z, u)
Weekday(z, u) == (Wall(z, u) \div Day) % Week
Minute(z, u) == Wall(z, u) % Day

\* time.Date: the offset at the wall time taken as an instant; if that is on
\* the other side of the change, the offset at the instant it gives.
Date(z, w) ==
  LET utc == w - Offset(z, w)
  IN  IF (utc < z.at) = (w < z.at) THEN utc ELSE w - Offset(z, utc)

-----------------------------------------------------------------------------
(***************************************************************************)
(* The active entry.                                                       *)
(***************************************************************************)
OnDay(e, d) == e.days = {} \/ d \in e.days

InWindow(e, z, u) ==
  LET m == Minute(z, u)
      today == Weekday(z, u)
      yesterday == (today - 1) % Week
  IN  /\ ~e.fallback /\ e.from # e.to
      /\ IF e.from < e.to
           THEN m >= e.from /\ m < e.to /\ OnDay(e, today)
           ELSE \/ m >= e.from /\ OnDay(e, today)
                \/ m < e.to /\ m < e.from /\ OnDay(e, yesterday)

Least(S) == CHOOSE i \in S : \A j \in S : i <= j

\* The index of the active entry, 0 when there is none.
Active(es, z, u) ==
  LET hits == {i \in DOMAIN es : InWindow(es[i], z, u)}
      fallbacks == {i \in DOMAIN es : es[i].fallback}
  IN  IF hits # {} THEN Least(hits)
      ELSE IF fallbacks # {} THEN Least(fallbacks) ELSE 0

ActiveEntry == LET i == Active(entries, zone, now)
               IN  IF i = 0 THEN NoEntry ELSE entries[i]

-----------------------------------------------------------------------------
(***************************************************************************)
(* The next switch.                                                        *)
(***************************************************************************)
Lookahead == (Week + 1) * Day

Midnights(z, u) ==
  {((Wall(z, u) \div Day) + d) * Day : d \in 0..(Week + 1)}

\* Mutant: the hour marks are not among the candidates.
CandidatesNoHours(es, z, u) ==
  {Date(z, w) : w \in {mid + m : mid \in Midnights(z, u),
     m \in UNION {{es[i].from, es[i].to} : i \in {j \in DOMAIN es : ~es[j].fallback}}}}

\* Every full hour and every window boundary of the coming days.
Candidates(es, z, u) ==
  LET marks == {h * Hour : h \in 0..((Day \div Hour) - 1)}
      windows == UNION {{es[i].from, es[i].to} :
                          i \in {j \in DOMAIN es : ~es[j].fallback}}
  IN  {Date(z, w) : w \in {mid + m : mid \in Midnights(z, u), m \in marks \cup windows}}

\* The first candidate at which another entry is active; u itself when nothing
\* changes within Lookahead.
NextSwitch(es, z, u) ==
  LET changes == {t \in Candidates(es, z, u) :
                    /\ t > u /\ t <= u + Lookahead
                    /\ Active(es, z, t) # Active(es, z, u)}
  IN  IF changes = {} THEN u ELSE Least(changes)

-----------------------------------------------------------------------------
(***************************************************************************)
(* The ticker.                                                             *)
(***************************************************************************)
SchedInit ==
  /\ now = 0 /\ zone \in ZoneRules
  /\ entries \in EntryLists
  /\ baseline = NoEntry /\ applying = NoEntry
  /\ curves \in Presets
  /\ manual = 0 /\ overruled = FALSE

Tick ==
  /\ now < MaxNow
  /\ now' = now + 1
  /\ UNCHANGED <<zone, entries, baseline, applying, curves, manual, overruled>>

\* Mutant: two entries that follow one another without a gap are no transition.
TransitionNot(active) == (active # NoEntry) # (baseline # NoEntry)

Transition(active) == active # baseline

\* evaluate, up to the unlock: the baseline moves in any case.
Evaluate ==
  /\ applying = NoEntry
  /\ baseline' = ActiveEntry
  /\ IF Transition(ActiveEntry)
       THEN applying' = ActiveEntry /\ overruled' = FALSE
       ELSE UNCHANGED <<applying, overruled>>
  /\ UNCHANGED <<now, zone, entries, curves, manual>>

\* s.apply, outside the lock.  A preset that is missing or invalid, a failed
\* write and a reload that needs a restart leave the curves; the alert is sent,
\* nothing is tried again.
ApplyEntry ==
  /\ applying # NoEntry
  /\ \E ok \in BOOLEAN :
       /\ curves' = IF ok THEN applying.preset ELSE curves
       /\ overruled' = (overruled \/ ~ok)
  /\ applying' = NoEntry
  /\ UNCHANGED <<now, zone, entries, baseline, manual>>

\* A preset applied or curves edited by hand.  One that falls between the
\* decision and the apply is the earlier of the two.
ManualChoice ==
  /\ manual < MaxManual
  /\ manual' = manual + 1
  /\ curves' \in Presets
  /\ overruled' = (applying = NoEntry)
  /\ UNCHANGED <<now, zone, entries, baseline, applying>>

\* Set: a reload replaces the entries and leaves the baseline.
Set(es) ==
  /\ es # entries
  /\ entries' = es
  /\ UNCHANGED <<now, zone, baseline, applying, curves, manual, overruled>>

\* A start inside a window is a transition again.
SchedRestart ==
  /\ baseline # NoEntry
  /\ baseline' = NoEntry /\ applying' = NoEntry
  /\ UNCHANGED <<now, zone, entries, curves, manual, overruled>>

SchedNext ==
  \/ Tick \/ Evaluate \/ ApplyEntry \/ ManualChoice \/ SchedRestart
  \/ \E es \in ReloadLists : Set(es)

SchedSpec == SchedInit /\ [][SchedNext]_schedVars

-----------------------------------------------------------------------------
\* When the scheduler has seen the present instant, the curves in effect are
\* those of the active entry, whatever reloads, restarts and window changes came
\* before, unless a manual choice or a failed apply came after the transition.
WindowHonoured ==
  applying = NoEntry /\ baseline # NoEntry /\ baseline = ActiveEntry /\ ~overruled
    => curves = baseline.preset

\* The instant that time.Date returns for the wall time of u: of two instants with
\* the same wall time it is one of them.
Named(z, u) == Date(z, Wall(z, u)) = u

\* The instants the candidates do not speak for: of a repeated wall time the one
\* that is not named, and those after the change of the zone before the first full
\* hour that is named.
Unlisted(z, t) ==
  /\ z.before # z.after
  /\ IF t < z.at THEN ~Named(z, t)
     ELSE \A s \in z.at..t : Wall(z, s) % Hour = 0 => ~Named(z, s)

\* The day of t on the wall clock is not among those of the candidates: the clock
\* went back over midnight, or it went forward and the lookahead ends a day later.
\* Then what happens at t happened a week before, unless that was unlisted.
OutOfSight(z, u, t) ==
  LET Today(x) == Wall(z, x) \div Day
  IN  \/ Today(t) < Today(u)
      \/ /\ Today(t) > Today(u) + Week + 1
         /\ \A s \in (u + 1)..t :
              Wall(z, s) = Wall(z, t) - Week * Day => Unlisted(z, s)

\* GET /api/schedules: of a schedule with entries, "next" is an instant within the
\* lookahead at which another entry is active than now, and no instant that is
\* listed and in sight is earlier: across midnight, the end of the week, the hour
\* that the zone skips and, in the hour it repeats, on the pass that is listed.
NextIsFirst ==
  entries # <<>> =>
    LET next == NextSwitch(entries, zone, now)
        Changes(t) == Active(entries, zone, t) # Active(entries, zone, now)
    IN  /\ next # now => next \in (now + 1)..(now + Lookahead) /\ Changes(next)
        /\ \A t \in (now + 1)..(now + Lookahead) :
             Changes(t) /\ ~Unlisted(zone, t) /\ ~OutOfSight(zone, now, t)
               => next # now /\ next <= t

\* What Next's comment and DESIGN.md say of a change caused by a DST transition:
\* when another entry is active from the transition on, and the transition is to a
\* full hour, "next" is that hour mark or earlier.
FoundAtHourMark ==
  /\ zone.at \in (now + 1)..(now + Lookahead)
  /\ Wall(zone, zone.at) % Hour = 0
  /\ Active(entries, zone, zone.at) # Active(entries, zone, now)
  => LET next == NextSwitch(entries, zone, now) IN next # now /\ next <= zone.at
=============================================================================
