----------------------------- MODULE SensorPath -----------------------------
(***************************************************************************)
(* From the sensor id of a channel to the files it is read from:           *)
(* sensor.Parse and the sources it returns (internal/sensor), the hwmon    *)
(* devices they are looked up in (internal/hwmon), and when the loop looks *)
(* again (readSensors, reresolve, readWatched of internal/control).        *)
(*                                                                         *)
(* A device may come, go or come back under another number between any two *)
(* steps of a cycle, and a disk may be replaced by one of another kind.    *)
(* The loop keeps the files of the last lookup, so what it reads, and the  *)
(* ceiling it judges the reading by, can be those of an earlier device     *)
(* tree.  Temperatures are left out: a file reads or it does not (missing, *)
(* failing, implausible).                                                  *)
(***************************************************************************)
EXTENDS Integers, Sequences, FiniteSets

CONSTANTS
  Hwmons,        \* numbers of class/hwmon directories
  DiskHwmons,    \* numbers of the directories under block/<dev>/device
  DeviceNames,   \* what a name file may hold
  PartRule,      \* part id -> [rule, name, dir, holders]: how Parse looks it up
  SensorConfigs, \* channel configurations: [parts, ceiling]
  WatchedIds,    \* single ids the dashboard may watch
  ResolveEvery,  \* resolveEvery (60)
  MaxTreeChanges \* bound: changes of the device tree

VARIABLES
  tree,      \* directory -> the device in it, or Absent
  scfg,      \* ch.cfg
  newCfg,    \* c.pending: {} or the one accepted configuration
  source,    \* ch.sensor: <<>> unresolved, or its parts with their files
  partCeil,  \* ch.partCeil
  parts,     \* ch.parts: the parts of the last good reading
  bad,       \* ch.sensorBad
  watch,     \* c.watched: the id and its files ({} unresolved)
  watchWant, \* c.cfg.Dashboard.Sensors
  cyc,       \* c.n, modulo what it is compared with
  at,        \* the step of the cycle
  alerts,    \* sensor alerts raised by this cycle (0 or 1)
  quiet,     \* history: cycles begun and ended since the tree last changed
  changes    \* history: changes of the tree

chanVars == <<scfg, newCfg, source, partCeil, parts, bad, alerts>>
watchVars == <<watch, watchWant>>
sensorVars == <<tree, chanVars, watchVars, cyc, at, quiet, changes>>

-----------------------------------------------------------------------------
Absent == "absent"
NoWatch == "none"
DiskKinds == {"ssd", "hdd", "unknown"}
EcDir == 0                      \* the directory of the fan controller
Directories == Hwmons \cup DiskHwmons \cup {EcDir}
PartIds == DOMAIN PartRule
CeilingCPU == 100
CeilingSSD == 85
CeilingHDD == 65
CeilingDefault == 100

\* k10temp; hwmon:<name>:tempN; coretemp, nvme:max, drivetemp:max; disk:<dev>; ec:<label>.
Rules == {"first", "hwmon", "all", "disk", "fixed"}
ASSUME DirectoriesAssumption ==
  Hwmons \cup DiskHwmons \subseteq Nat \ {EcDir} /\ Hwmons \cap DiskHwmons = {}
ASSUME PartsAssumption ==
  \A p \in PartIds : PartRule[p].rule \in Rules
ASSUME SensorConfigsAssumption ==
  /\ SensorConfigs # {}
  /\ \A c \in SensorConfigs : c.parts \in Seq(PartIds) /\ Len(c.parts) \in 1..4
  /\ WatchedIds \subseteq PartIds
ASSUME SensorBoundsAssumption ==
  ResolveEvery \in Nat \ {0} /\ MaxTreeChanges \in Nat

-----------------------------------------------------------------------------
\* FindByName: the class directories of a name; List orders them by number.
FindByName(name) == {d \in Hwmons : tree[d] = name}
First(ds) == {d \in ds : \A e \in ds : d <= e}

\* DiskHwmon: the first directory of the block device that has a sensor.
DiskHwmon == First({d \in DiskHwmons : tree[d] # Absent})

\* Parse for one part: the directories its files are in, {} when nothing on
\* the machine matches.  k10temp takes the first device of the name, coretemp,
\* nvme:max and drivetemp:max all of them.  The <name> of hwmon:<name>:tempN may
\* also be a directory (dir), where no device has that name; the file must exist,
\* which it does for the devices in holders.  ec:<label> is a file of the fan
\* controller itself, which does not move while it is ours.
FilesOf(p) ==
  LET rule == PartRule[p].rule
      named == FindByName(PartRule[p].name)
      found == IF rule = "hwmon" /\ named = {}
               THEN {d \in Hwmons : d = PartRule[p].dir /\ tree[d] # Absent}
               ELSE named
  IN  IF rule = "disk" THEN DiskHwmon
      ELSE IF rule = "fixed" THEN {EcDir}
      ELSE IF rule = "first" THEN First(found)
      ELSE IF rule = "hwmon" THEN {d \in First(found) : tree[d] \in PartRule[p].holders}
      ELSE found

\* Parse and parseComposite: the parts whose id names a device (files: what each
\* id names), in the configured order; empty when none does.
Resolved(c, files) ==
  LET found == SelectSeq(c.parts, LAMBDA p : files[p] # {})
  IN  [i \in 1..Len(found) |-> [id |-> found[i], files |-> files[found[i]]]]

Parse(c) == Resolved(c, [p \in PartIds |-> FilesOf(p)])

\* DiskKind of the block device, as block/<dev>/queue/rotational says.
DiskKind ==
  IF DiskHwmon = {} THEN "unknown" ELSE tree[CHOOSE d \in DiskHwmon : TRUE]

\* singleCeiling: the built-in ceiling of a part, by its id: hwmon:<name>:tempN has
\* that of a CPU or the default, which are the same, whatever the device is.
SingleCeiling(p) ==
  LET r == PartRule[p]
      kind == IF r.rule = "disk" THEN DiskKind ELSE IF r.rule = "all" THEN r.name ELSE "cpu"
  IN  IF kind \in {"ssd", "nvme"} THEN CeilingSSD
      ELSE IF kind \in {"hdd", "drivetemp"} THEN CeilingHDD
      ELSE IF kind \in {"cpu", "coretemp"} THEN CeilingCPU
      ELSE CeilingDefault

\* PartCeilings and ceilingOf: a configured ceiling can only lower it.
PartCeilings(c) ==
  [i \in 1..Len(c.parts) |->
     LET b == SingleCeiling(c.parts[i])
     IN  IF c.ceiling > 0 /\ c.ceiling < b THEN c.ceiling ELSE b]

-----------------------------------------------------------------------------
\* A directory holds a device by name; the block device's holds its kind.
Devices(d) ==
  IF d = EcDir THEN {"ec"}
  ELSE {Absent} \cup IF d \in DiskHwmons THEN DiskKinds ELSE DeviceNames

Trees == {t \in [Directories -> UNION {Devices(d) : d \in Directories}] :
            \A d \in Directories : t[d] \in Devices(d)}

SensorInit ==
  /\ tree \in Trees
  /\ scfg \in SensorConfigs /\ newCfg = {}
  /\ source = Parse(scfg) /\ partCeil = PartCeilings(scfg)  \* buildChannels
  /\ parts = {} /\ bad = FALSE /\ alerts = 0
  /\ watchWant = NoWatch /\ watch = [id |-> NoWatch, files |-> {}]
  /\ cyc = 0 /\ at = "begin" /\ quiet = 0 /\ changes = 0

\* The kernel adds, removes or replaces a device.
TreeChanges(d, dev) ==
  /\ changes < MaxTreeChanges /\ dev \in Devices(d) \ {tree[d]}
  /\ tree' = [tree EXCEPT ![d] = dev]
  /\ changes' = changes + 1 /\ quiet' = -1
  /\ UNCHANGED <<chanVars, watchVars, cyc, at>>

\* Apply of a configuration, and SetWatched of the dashboard.
NewConfig(c) ==
  /\ at = "begin" /\ newCfg' = {c}
  /\ UNCHANGED <<tree, scfg, source, partCeil, parts, bad, alerts, watchVars, cyc, at,
                 quiet, changes>>

SetWatched(p) ==
  /\ at = "begin" /\ watchWant' = p
  /\ UNCHANGED <<tree, chanVars, watch, cyc, at, quiet, changes>>

\* buildWatched, when the list has changed (watchDirty).
Rebuilt ==
  IF watchWant = watch.id THEN watch
  ELSE [id |-> watchWant,
        files |-> IF watchWant = NoWatch THEN {} ELSE FilesOf(watchWant)]

\* applyPendingLocked: a changed sensor is looked up and installed, found or
\* not; the ceilings are those of the new configuration either way.
SwapSensor(c) ==
  /\ scfg' = c /\ partCeil' = PartCeilings(c)
  /\ \/ c.parts = scfg.parts /\ UNCHANGED <<source, parts>>
     \/ c.parts # scfg.parts /\ source' = Parse(c) /\ parts' = {}

\* The start of a cycle.
BeginCycle ==
  /\ at = "begin" /\ at' = "reresolve"
  /\ newCfg' = {} /\ watch' = Rebuilt /\ alerts' = 0
  /\ \/ newCfg = {} /\ UNCHANGED <<scfg, source, partCeil, parts>>
     \/ \E c \in newCfg : SwapSensor(c)
  /\ UNCHANGED <<tree, bad, watchWant, cyc, quiet, changes>>

\* Mutant: the new files are installed, the old ceilings kept.
LookAgainCeiling ==
  /\ source' = IF Parse(scfg) # <<>> THEN Parse(scfg) ELSE source
  /\ UNCHANGED partCeil

\* resolveSensor where it keeps the old source if nothing resolves: reresolve,
\* the retry of an unresolved sensor and the one after a bad reading.
LookAgain ==
  LET found == Parse(scfg) # <<>> IN
  /\ source' = IF found THEN Parse(scfg) ELSE source
  /\ partCeil' = IF found THEN PartCeilings(scfg) ELSE partCeil

Due == cyc # 0 /\ cyc % ResolveEvery = 0

\* reresolve, every ResolveEvery cycles.
Reresolve ==
  /\ at = "reresolve" /\ at' = "retry"
  /\ \/ Due /\ LookAgain
     \/ ~Due /\ UNCHANGED <<source, partCeil>>
  /\ UNCHANGED <<tree, scfg, newCfg, parts, bad, alerts, watchVars, cyc, quiet, changes>>

\* readSensors, an unresolved sensor is looked up again in every cycle.
Retry ==
  /\ at = "retry" /\ at' = "read"
  /\ \/ source = <<>> /\ LookAgain
     \/ source # <<>> /\ UNCHANGED <<source, partCeil>>
  /\ UNCHANGED <<tree, scfg, newCfg, parts, bad, alerts, watchVars, cyc, quiet, changes>>

\* single.Read, maximum.Read: one readable file is enough; the files in broken
\* fail or are implausible.
PartReads(s, broken) == \E d \in s.files \ broken : tree[d] # Absent

\* composite.Read: the parts that read; none is an error.
ReadParts(broken) ==
  {source[i].id : i \in {j \in 1..Len(source) : PartReads(source[j], broken)}}

\* readSensors: the reading, the lookup that follows a bad one, and the alert
\* on the transition.
ReadSensor(broken) ==
  LET good == ReadParts(broken) # {} IN
  /\ at = "read" /\ at' = "watch"
  /\ parts' = IF good THEN ReadParts(broken) ELSE parts
  /\ bad' = ~good
  /\ alerts' = IF good \/ bad THEN 0 ELSE 1
  /\ \/ (good \/ source = <<>>) /\ UNCHANGED <<source, partCeil>>
     \/ ~good /\ source # <<>> /\ LookAgain
  /\ UNCHANGED <<tree, scfg, newCfg, watchVars, cyc, quiet, changes>>

\* readWatched: an unresolved id is looked up again every ResolveEvery cycles;
\* one that resolved once keeps its files.
WatchedAgain ==
  IF watch.id # NoWatch /\ watch.files = {} /\ Due
  THEN [watch EXCEPT !.files = FilesOf(watch.id)] ELSE watch

\* The rest of the cycle.  A second write error in a row looks the sensors up
\* again (writeAndFinish); the write itself is in Regulation.
EndCycle(writeErrors) ==
  /\ at = "watch" /\ at' = "begin"
  /\ watch' = WatchedAgain
  /\ \/ writeErrors /\ LookAgain
     \/ ~writeErrors /\ UNCHANGED <<source, partCeil>>
  /\ cyc' = IF cyc = ResolveEvery THEN 1 ELSE cyc + 1
  /\ quiet' = IF quiet = ResolveEvery THEN quiet ELSE quiet + 1
  /\ UNCHANGED <<tree, scfg, newCfg, parts, bad, alerts, watchWant, changes>>

SensorNext ==
  \/ \E d \in Directories : \E dev \in Devices(d) : TreeChanges(d, dev)
  \/ \E c \in SensorConfigs : NewConfig(c)
  \/ \E p \in WatchedIds \cup {NoWatch} : SetWatched(p)
  \/ BeginCycle \/ Reresolve \/ Retry
  \/ \E broken \in SUBSET UNION {source[i].files : i \in 1..Len(source)} :
       ReadSensor(broken)
  \/ \E w \in BOOLEAN : EndCycle(w)

SensorSpec == SensorInit /\ [][SensorNext]_sensorVars

-----------------------------------------------------------------------------
\* resolveEvery: "re-resolves all sensors every N cycles, so devices that
\* re-enumerated are picked up".  Whatever came, went or moved, and whatever
\* was read from the old files meanwhile, once the tree has been still for
\* ResolveEvery cycles a channel is read from exactly the devices its id names
\* and each part is judged by the ceiling of the device it now is; a watched id
\* whose device appeared is charted.  Excepted are an id that names no device
\* any more (the old files are kept) and a watched id that resolved before.
SourceFollowsTree ==
  quiet >= ResolveEvery /\ at = "begin" =>
    /\ Parse(scfg) # <<>> =>
         source = Parse(scfg) /\ partCeil = PartCeilings(scfg)
    /\ watch.id # NoWatch /\ watch.files = {} => FilesOf(watch.id) = {}
=============================================================================
