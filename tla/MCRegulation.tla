---------------------------- MODULE MCRegulation ----------------------------
(***************************************************************************)
(* Small instances of Regulation.  The cfg files choose among the          *)
(* definitions below.                                                      *)
(*                                                                         *)
(* Duties: 80 is a low manual or curve duty, 140 a fixed stop duty, 200 a  *)
(* high curve duty; steps of 100/70 need two cycles between 80 and 255, so *)
(* slewed intermediate duties occur.  Temperatures: 50 is cool for every   *)
(* part, 63 is below the drive ceiling 65 but not ceilingRecover below it, *)
(* 85 is at the drive ceiling and at critical 80 but below the CPU ceiling.*)
(***************************************************************************)
EXTENDS Regulation

One == {"hdd"}
Pair == {"cpu", "hdd"}
Cpu == {"cpu"}
None == {}
OnePart == {"drive"}
TwoParts == {"drive", "nvme"}

PartCeil == [p \in Parts |-> IF p = "drive" THEN 65 ELSE 95]
Chan(stop, parts) ==
  [parts |-> parts, critical |-> 80, ceil |-> PartCeil, stop |-> stop]
Daemon(stallCycles, emergency) ==
  [stepUp |-> 100, stepDown |-> 70, stallMinDuty |-> 80,
   stallCycles |-> stallCycles, emergency |-> emergency, emergencyCycles |-> 1]

\* Every channel on every part, fixed stop duty on hdd, "auto" on cpu.
StopOf(ch) == IF ch = "hdd" THEN 140 ELSE AutoStop
BaseConfig ==
  [chan |-> [ch \in Channels |-> Chan(StopOf(ch), Parts)],
   daemon |-> Daemon(2, TRUE)]
\* The same with the duty of a blind channel right at the stall threshold.
EdgeConfig == [BaseConfig EXCEPT !.daemon.stallMinDuty = 140]
\* The same without the emergency hook (ceilCycles stays 0 with CeilCap 0).
QuietConfig ==
  [BaseConfig EXCEPT !.daemon = [Daemon(2, FALSE) EXCEPT !.emergencyCycles = 0]]
\* The same on one part, with its reload: another sensor, the channel handed
\* back to the chip, a shorter stall detection.
DriveConfig ==
  [chan |-> [ch \in Channels |-> Chan(StopOf(ch), {"drive"})],
   daemon |-> Daemon(2, TRUE)]
NvmeConfig ==
  [chan |-> [ch \in Channels |-> Chan(AutoStop, {"nvme"})],
   daemon |-> Daemon(1, TRUE)]
AutoConfig ==
  [chan |-> [ch \in Channels |-> Chan(AutoStop, Parts)],
   daemon |-> Daemon(2, TRUE)]
NvmeReload == {NvmeConfig}
FixedReload == {BaseConfig}
NoReload == {}
TwoStarts == {DriveConfig, EdgeConfig}
QuietStart == {QuietConfig}
AutoStart == {AutoConfig}

-----------------------------------------------------------------------------
(***************************************************************************)
(* Two scenarios in one run, told apart by the configuration the daemon    *)
(* started with: one without a foreign program, with every other input,    *)
(* and one next to a program that writes the pwm file, where the parts     *)
(* read 85 or not at all and nobody sets an override or reloads.  Every    *)
(* behaviour below is one of FairSpec.                                     *)
(***************************************************************************)
Foreign == D.stallMinDuty = EdgeConfig.daemon.stallMinDuty
Scenario ==
  Foreign =>
    /\ pending = {}
    /\ \A ch \in Channels :
         /\ overrides[ch] = NoDuty
         /\ \A p \in Parts : reading[ch][p] \in {85, NoTemp}
MCInit == Init /\ Scenario /\ tampers = IF Foreign THEN 0 ELSE MaxTamper
MCNext ==
  \/ Next /\ UNCHANGED tampers /\ Scenario'
  \/ \E ch \in Channels : Tamper(ch)
MCFairSpec == MCInit /\ [][MCNext]_vars /\ WF_vars(Cycle)
=============================================================================
