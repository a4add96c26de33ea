------------------------------ MODULE Verdicts ------------------------------
(***************************************************************************)
(* The verdicts of n5-fangov validate (internal/validate/eval.go): T1      *)
(* (mapping), T2 (hand-back) and T3 (settling) of a sub-run over the       *)
(* judged duty registers, and the aggregation over sub-runs and runs.      *)
(*                                                                         *)
(* The verdicts are functions of the recorded samples, in which registers  *)
(* may be unreadable and a repetition missing; the model lets the records  *)
(* grow sample by sample and asks how the verdicts move.  When the runner  *)
(* aborts, RunHandback then reports INCONCLUSIVE whatever they are, and    *)
(* the mapping test of an aborted run is not judged at all.  Durations and *)
(* counts are parameters; the code's are 60, 900 and 120 seconds, 16 and 2 *)
(* counts, three runs.                                                     *)
(***************************************************************************)
EXTENDS Integers, Sequences, SequencesExt

CONSTANTS
  LeaveCounts,   \* T2 PASS: the DCR differs from the written value by this ...
  LeaveWithin,   \* ... within this time after the auto command
  HoldCounts,    \* T2 FAIL: the DCR within this of the written value
  Observe,       \* T3: steady from here at the latest
  SettleBand,    \* T3: constant within this ...
  SettleHold,    \* ... for this long
  RunsRequired,  \* repetitions of T2 and T3
  CrossMargin,   \* a table input this far beyond a step has crossed it
  TableStep,     \* the step of the channel's table
  Registers,     \* JudgedRegs: the registers judged for the channel
  DcrValues,     \* register values; the written one is Written
  InputValues,   \* readings of the table input
  OwnRpms,       \* readings of the own tach
  OwnStepRpm,    \* T1: the own tach moves by this per step
  MeanOf,        \* T1: the mean of the last MeanOf samples of a step (3)
  MaxSamples,    \* bound: samples of a sub-run
  MaxMapping,    \* bound: samples of a mapping test
  MaxResults     \* bound: sub-runs of a channel

VARIABLES
  sub,     \* the sub-run in progress: its HandbackRun
  mapping, \* the mapping test in progress: rest noise and samples
  results  \* AggregateHandback's runs: a sequence of sequences of SubResults

verdictVars == <<sub, mapping, results>>

-----------------------------------------------------------------------------
Passed == "PASS"
Failed == "FAIL"
Inconclusive == "INCONCLUSIVE"
ThreeVerdicts == {Passed, Failed, Inconclusive}
Written == 0                    \* DcrValues are relative to it
NoValue == -1000                \* unreadable, NaN
FirstStep == 1
LastStep == 2                   \* bound: steps of the mapping test

ASSUME CountsAssumption ==
  /\ LeaveCounts \in Nat /\ HoldCounts \in Nat /\ HoldCounts < LeaveCounts
  /\ LeaveWithin \in Nat /\ Observe \in Nat /\ LeaveWithin <= Observe
  /\ SettleHold \in Nat \ {0}
  /\ RunsRequired \in Nat \ {0} /\ Registers # {}

Gap(a, b) == IF a < b THEN b - a ELSE a - b

\* combine: PASS only if all pass, FAIL only if all fail.
Combine(vs) ==
  IF vs = {Passed} THEN Passed ELSE IF vs = {Failed} THEN Failed ELSE Inconclusive

\* Crossing: some input lies CrossMargin beyond the step on the other side than
\* the reference, which is the first value when there is none before.
Crossing(ref, vals) ==
  LET known == {i \in DOMAIN vals : vals[i] # NoValue}
      Beyond(r, v) == IF r >= TableStep THEN v <= TableStep - CrossMargin
                      ELSE v >= TableStep + CrossMargin
  IN  \E f, i \in known : /\ \A j \in known : f <= j
                          /\ Beyond(IF ref # NoValue THEN ref ELSE vals[f], vals[i])

-----------------------------------------------------------------------------
(***************************************************************************)
(* EvalHandback for register reg of the sub-run h.  The samples stand in   *)
(* the order of their times; those in which the register was readable      *)
(* count.                                                                  *)
(***************************************************************************)
Samples(h, reg) == {i \in DOMAIN h.samples : h.samples[i].dcr[reg] # NoValue}
Deviation(h, reg, i) == Gap(h.samples[i].dcr[reg], Written)

\* The last sample is of time t or later.
Reaches(h, reg, t) == \E i \in Samples(h, reg) : h.samples[i].t >= t

\* Left and LeftAtS: the first sample that left the written value.
LeftAt(h, reg) ==
  {i \in Samples(h, reg) :
     /\ Deviation(h, reg, i) >= LeaveCounts
     /\ \A j \in Samples(h, reg) : j < i => ~(Deviation(h, reg, j) >= LeaveCounts)}
AllHeld(h, reg) == \A i \in Samples(h, reg) : Deviation(h, reg, i) <= HoldCounts

\* A written value too close to the register's auto value A cannot be seen to be
\* left.
TooClose(h, reg) == h.auto[reg] # NoValue /\ Gap(Written, h.auto[reg]) < LeaveCounts
InputCrossed(h) == Crossing(h.ref, [i \in DOMAIN h.samples |-> h.samples[i].input])

EvalT2(h, reg) ==
  IF Samples(h, reg) = {} \/ ~h.timed \/ TooClose(h, reg) \/ InputCrossed(h) THEN Inconclusive
  ELSE IF \E i \in LeftAt(h, reg) : h.samples[i].t <= LeaveWithin THEN Passed
  ELSE IF AllHeld(h, reg) /\ Reaches(h, reg, Observe + SettleHold) THEN Failed
  ELSE Inconclusive

\* T3: the first window of SettleHold whose samples stay within SettleBand of
\* its first one, complete when the log ends.
Steady(h, reg) ==
  {i \in Samples(h, reg) :
     /\ Reaches(h, reg, h.samples[i].t + SettleHold)
     /\ \A j \in Samples(h, reg) :
          j >= i /\ h.samples[j].t <= h.samples[i].t + SettleHold =>
            Gap(h.samples[j].dcr[reg], h.samples[i].dcr[reg]) <= SettleBand}
SettledAt(h, reg) == {i \in Steady(h, reg) : \A j \in Steady(h, reg) : i <= j}

\* Mutant: "no steady state" as soon as the limit of T3 is reached, although a
\* window that began before it may still complete.
EvalT3Early(h, reg) ==
  IF Samples(h, reg) = {} \/ ~h.timed \/ InputCrossed(h) THEN Inconclusive
  ELSE IF \E i \in SettledAt(h, reg) : h.samples[i].t <= Observe THEN Passed
  ELSE IF Steady(h, reg) # {} \/ Reaches(h, reg, Observe) THEN Failed
  ELSE Inconclusive

EvalT3(h, reg) ==
  IF Samples(h, reg) = {} \/ ~h.timed \/ InputCrossed(h) THEN Inconclusive
  ELSE IF \E i \in SettledAt(h, reg) : h.samples[i].t <= Observe THEN Passed
  ELSE IF Steady(h, reg) # {} \/ Reaches(h, reg, Observe + SettleHold) THEN Failed
  ELSE Inconclusive

\* EvalHandbackRegs: registers that disagree give INCONCLUSIVE.
SubT2(h) == Combine({EvalT2(h, reg) : reg \in Registers})
SubT3(h) == Combine({EvalT3(h, reg) : reg \in Registers})

\* AggregateHandback: a repetition needs both sub-runs, the channel its runs.
RunVerdict(subs, test) ==
  IF ~({"H", "M"} \subseteq {subs[i].label : i \in 1..Len(subs)}) THEN Inconclusive
  ELSE Combine({subs[i][test] : i \in 1..Len(subs)})
Aggregate(test) ==
  IF Len(results) < RunsRequired THEN Inconclusive
  ELSE Combine({RunVerdict(results[i], test) : i \in 1..Len(results)})

-----------------------------------------------------------------------------
(***************************************************************************)
(* EvalT1Inputs.  A sample says of every register whether it equals the    *)
(* written value, of the other tachs whether one left its rest mean by     *)
(* more than T1OtherRPM, and holds the own tach and the table input of     *)
(* another channel.                                                        *)
(***************************************************************************)
Judged(m) == {i \in DOMAIN m.samples : m.samples[i].judged}
DcrDiffers(m) == \E i \in Judged(m), reg \in Registers : m.samples[i].dcr[reg] = "differs"

\* Every step has judged samples and none of them lacks a register.
DcrKnown(m) ==
  /\ \A k \in FirstStep..LastStep : \E i \in Judged(m) : m.samples[i].step = k
  /\ \A i \in Judged(m), reg \in Registers : m.samples[i].dcr[reg] # "missing"

Follows(m) == \E i \in DOMAIN m.samples : m.samples[i].follows
OtherCrossed(m) == Crossing(m.ref, [i \in DOMAIN m.samples |-> m.samples[i].input])

\* The readable ones among the last MeanOf own-tach samples of step k, their mean
\* as a sum and a count.
OwnTail(m, k) ==
  LET s == SelectSeq(m.samples, LAMBDA x : x.step = k)
      cut == IF Len(s) > MeanOf THEN SubSeq(s, Len(s) - MeanOf + 1, Len(s)) ELSE s
  IN  SelectSeq([i \in 1..Len(cut) |-> cut[i].own], LAMBDA v : v # NoValue)
OwnSum(m, k) == FoldSeq(LAMBDA a, b : a + b, 0, OwnTail(m, k))
OwnCount(m, k) == Len(OwnTail(m, k))
OwnMoves(m) ==
  m.tach =>
  /\ \A k \in FirstStep..LastStep : OwnCount(m, k) > 0
  /\ \A k \in (FirstStep + 1)..LastStep :
       OwnSum(m, k - 1) * OwnCount(m, k) - OwnSum(m, k) * OwnCount(m, k - 1)
         >= OwnStepRpm * OwnCount(m, k) * OwnCount(m, k - 1)

\* The verdict in the order of the test specification.
EvalT1(m) ==
  IF DcrDiffers(m) \/ (Follows(m) /\ ~m.noisy /\ ~OtherCrossed(m)) THEN Failed
  ELSE IF \/ Follows(m) \/ ~DcrKnown(m) \/ m.noisy \/ ~OwnMoves(m)
  THEN Inconclusive ELSE Passed

-----------------------------------------------------------------------------
Autos == [Registers -> {Written, NoValue}]
NoSub == [auto |-> [reg \in Registers |-> NoValue], timed |-> FALSE, ref |-> NoValue,
          samples |-> <<>>]
NoMapping == [tach |-> TRUE, noisy |-> FALSE, ref |-> NoValue, samples |-> <<>>]

\* A sub-run (timed: the runner's; not timed: a replay of raw logs, which has no
\* A), a mapping test (of a channel with or without a tach of its own), or the results
\* of a channel are looked at on their own.
VerdictInit ==
  \/ /\ sub \in [auto : Autos, timed : BOOLEAN,
                 ref : InputValues, samples : {<<>>}]
     /\ ~sub.timed => \A reg \in Registers : sub.auto[reg] = NoValue
     /\ mapping = NoMapping /\ results = <<>>
  \/ /\ mapping \in [tach : BOOLEAN, noisy : BOOLEAN, ref : InputValues, samples : {<<>>}]
     /\ sub = NoSub /\ results = <<>>

\* A slot of the 5-s grid of the sub-run; registers may be unreadable in it.
ObserveSlot(dcr, input) ==
  LET n == Len(sub.samples) IN
  /\ sub # NoSub /\ mapping = NoMapping /\ n < MaxSamples
  /\ sub' = [sub EXCEPT !.samples = Append(@, [t |-> n + 1, dcr |-> dcr, input |-> input])]
  /\ UNCHANGED <<mapping, results>>

\* The sub-run ends and its verdicts are kept; the next one begins.  The further
\* sub-runs of the channel can end in any way the first one can.
SubResults == [label : {"H", "M"}, t2 : ThreeVerdicts, t3 : ThreeVerdicts]
SubEnds ==
  /\ sub # NoSub /\ sub' = NoSub
  /\ results' = <<<<[label |-> "H", t2 |-> SubT2(sub), t3 |-> SubT3(sub)]>>>>
  /\ UNCHANGED mapping
FurtherSub(r) ==
  /\ results # <<>>
  /\ Len(FlattenSeq(results)) < MaxResults
  /\ LET n == Len(results) IN
     results' = IF r.label = "H" THEN Append(results, <<r>>)
                ELSE [results EXCEPT ![n] = Append(@, r)]
  /\ r.label = "M" => Len(results[Len(results)]) = 1
  /\ UNCHANGED <<sub, mapping>>

\* A mapping test that is not at its end.
Mapping == sub = NoSub /\ results = <<>> /\ Len(mapping.samples) < MaxMapping

\* A sample of the mapping test, of the step in progress or the next one.
MapSample(x) ==
  LET n == Len(mapping.samples)
      step == IF n = 0 THEN FirstStep ELSE mapping.samples[n].step
  IN
  /\ x.step \in {step, step + 1} /\ (n = 0 => x.step = step)
  /\ ~mapping.tach => x.own = NoValue
  /\ mapping' = [mapping EXCEPT !.samples = Append(@, x)]
  /\ UNCHANGED <<sub, results>>

\* What it can hold; the registers of a sample inside the settle time are
\* recorded and not judged.
MapSamples ==
  {x \in [step : FirstStep..LastStep, judged : BOOLEAN,
          dcr : [Registers -> {"equal", "differs", "missing"}], follows : BOOLEAN,
          own : OwnRpms \cup {NoValue}, input : InputValues] :
     ~x.judged => \A reg \in Registers : x.dcr[reg] = "missing"}

VerdictNext ==
  \/ \E dcr \in [Registers -> DcrValues \cup {NoValue}] :
       \E input \in InputValues : ObserveSlot(dcr, input)
  \/ SubEnds
  \/ \E r \in SubResults : FurtherSub(r)
  \/ Mapping /\ \E x \in MapSamples : MapSample(x)

VerdictSpec == VerdictInit /\ [][VerdictNext]_verdictVars

-----------------------------------------------------------------------------
Opposite(v, w) == {v, w} = {Passed, Failed}

\* More of the same record never says the opposite: no further sample turns PASS
\* into FAIL or back, for one register or the judged ones together, and a T2 PASS
\* and a decided T3 stay what they are until the table input crosses a step; no
\* further sub-run turns the verdict of the channel round; and a T1 FAIL is never
\* taken back to a PASS (EvalHandback, EvalHandbackRegs, AggregateHandback,
\* EvalT1Inputs).
NoTurnaround ==
  [][/\ Len(sub'.samples) > Len(sub.samples) =>
          /\ ~Opposite(SubT2(sub), SubT2(sub')) /\ ~Opposite(SubT3(sub), SubT3(sub'))
          /\ ~InputCrossed(sub') =>
               \A reg \in Registers :
                 /\ EvalT2(sub, reg) = Passed => EvalT2(sub', reg) = Passed
                 /\ EvalT3(sub, reg) # Inconclusive => EvalT3(sub', reg) = EvalT3(sub, reg)
     /\ results # <<>> =>
          \A test \in {"t2", "t3"} : ~Opposite(Aggregate(test), Aggregate(test)')
     /\ Len(mapping'.samples) > Len(mapping.samples) /\ EvalT1(mapping) = Failed
          => EvalT1(mapping') # Passed]_verdictVars
=============================================================================
