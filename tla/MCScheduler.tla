---------------------------- MODULE MCScheduler ----------------------------
(***************************************************************************)
(* The lists of schedules and the zones of the scheduler's instance.       *)
(***************************************************************************)
EXTENDS Scheduler

\* Schedules of a day of 8 quarters and a week of two days: none, a window over
\* midnight, one weekday and a fallback, overlaps in list order.
Window(p, f, t, d) == [preset |-> p, from |-> f, to |-> t, days |-> d, fallback |-> FALSE]
Otherwise(p) == [preset |-> p, from |-> 0, to |-> 0, days |-> {}, fallback |-> TRUE]
OneDay == <<Window("night", 6, 3, {0}), Otherwise("day")>>
Overlap == <<Window("night", 3, 5, {1}), Window("day", 5, 3, {}), Otherwise("night")>>
MCEntryLists ==
  {<<>>, <<Window("night", 6, 3, {})>>, OneDay, Overlap,
   <<Window("night", 5, 1, {1}), Window("day", 1, 5, {})>>}
MCReloadLists == {<<>>, OneDay, Overlap}

\* Zones without and with a change to and from summer time, east and west.
Zone(b, a, t) == [before |-> b, after |-> a, at |-> t]
MCZoneRules ==
  {Zone(0, 0, 0), Zone(2, 4, 10), Zone(4, 2, 10), Zone(-4, -2, 12), Zone(-2, -4, 12), Zone(0, 2, 16)}
=============================================================================
