---------------------------- MODULE AlertHistory -----------------------------
(***************************************************************************)
(* Delivery of the alerts that passed their cooldown, the ring of recent   *)
(* alerts and its mirror alerts.json, the acknowledgements, and the        *)
(* `alert` command of the onfailure unit, which is a process of its own    *)
(* with a ring of its own over the same file.                              *)
(*                                                                         *)
(* An alert is its number; what is kept of a record is the ID, the alert   *)
(* and whether it is acknowledged.                                         *)
(***************************************************************************)
EXTENDS Naturals, Sequences, FiniteSets

CONSTANTS
  RingSize,
  Transports,    \* the values of [alert] transport that are configured
  Pve, Mail,     \* Available(): the delivery tools of this machine
  MaxAlerts,     \* bound: alerts raised
  MaxCommand,    \* bound: alerts sent by the alert command
  DiskFails      \* whether alerts.json may be unwritable

ASSUME RingAssumption ==
  /\ RingSize \in Nat \ {0} /\ MaxAlerts \in Nat /\ MaxCommand \in Nat
  /\ {Pve, Mail, DiskFails} \subseteq BOOLEAN
ASSUME TransportAssumption ==
  Transports \subseteq {"auto", "pve", "mail", "webhook", "log", "off"}

VARIABLES
  raised,    \* alerts so far
  sink,      \* the transport behind the Swappable
  flight,    \* deliveries under way: the alert and the sink it began with
  testing,   \* testMu: the alert of the test that runs, 0 if none does
  recs,      \* Ring.recs, oldest first
  lastID,    \* Ring.lastID
  file,      \* alerts.json
  command,   \* the ring of the alert command: <<>> or <<its records>>
  sent,      \* alerts the command has sent (bound)
  client,    \* the newest ID the dashboard has shown
  shown,     \* history: the alerts recorded when the list was last shown
  recorded,  \* history: the alerts recorded by a ring, in order
  spoilt     \* history: alerts whose record could not be saved

ringVars == <<recs, lastID, file>>
histVars == <<raised, sink, flight, testing, ringVars, command, sent, client,
              shown, recorded, spoilt>>

Newest(rs, n) == SubSeq(rs, IF Len(rs) > n THEN Len(rs) - n + 1 ELSE 1, Len(rs))
AlertsOf(rs) == {rs[i].alert : i \in DOMAIN rs}
LargestID(rs) == IF rs = <<>> THEN 0
                 ELSE CHOOSE m \in {rs[i].id : i \in DOMAIN rs} :
                        \A i \in DOMAIN rs : rs[i].id <= m

\* NewForConfig: a transport whose tool is missing degrades along pve, mail, log.
Effective(transport) ==
  LET auto == IF Pve THEN "pve" ELSE IF Mail THEN "mail" ELSE "log"
  IN  IF transport \in {"off", "log", "webhook"} THEN transport
      ELSE IF transport = "mail" /\ Mail THEN "mail" ELSE auto

HistInit ==
  /\ raised = 0 /\ sent = 0 /\ testing = 0 /\ flight = {}
  /\ sink \in {Effective(t) : t \in Transports}
  /\ recs = <<>> /\ lastID = 0 /\ file = <<>> /\ command = <<>>
  /\ client = 0 /\ shown = {} /\ recorded = <<>> /\ spoilt = {}

\* Swappable.Set: deliveries under way end on the sink they began with.
SetSink(t) ==
  /\ sink' = Effective(t) /\ sink' # sink
  /\ UNCHANGED <<raised, flight, testing, ringVars, command, sent, client, shown,
                 recorded, spoilt>>

Begin(n) ==
  /\ raised < MaxAlerts /\ n = raised + 1
  /\ raised' = n
  /\ flight' = flight \cup {[alert |-> n, via |-> sink]}
  /\ UNCHANGED <<sink, ringVars, command, sent, client, shown, recorded, spoilt>>

\* raise and startAlert deliver on a goroutine of their own.
Deliver1 == Begin(raised + 1) /\ UNCHANGED testing

\* alertManager.Test: one at a time, the others are answered with a conflict.
Test == testing = 0 /\ Begin(raised + 1) /\ testing' = raised + 1

\* saveLocked: the file is replaced as a whole or not at all.
Save1(rs, n) ==
  \/ file' = rs /\ spoilt' = spoilt
  \/ DiskFails /\ file' = file /\ spoilt' = spoilt \cup {n}

\* Ring.record.  A delivery that failed is recorded with its error.
Record(d) ==
  LET rs == Newest(Append(recs, [id |-> lastID + 1, alert |-> d.alert, acked |-> FALSE]),
                   RingSize)
  IN  /\ d \in flight
      /\ flight' = flight \ {d}
      /\ testing' = IF testing = d.alert THEN 0 ELSE testing
      /\ lastID' = lastID + 1 /\ recs' = rs
      /\ Save1(rs, d.alert)
      /\ recorded' = Append(recorded, d.alert)
      /\ UNCHANGED <<raised, sink, command, sent, client, shown>>

\* A sink that panics costs the alert.
SinkPanics(d) ==
  /\ d \in flight /\ d.alert # testing
  /\ flight' = flight \ {d}
  /\ UNCHANGED <<raised, sink, testing, ringVars, command, sent, client, shown,
                 recorded, spoilt>>

\* GET /api/alerts.
ShowRecent ==
  /\ recs # <<>>
  /\ client' = LargestID(recs)
  /\ shown' = {recorded[i] : i \in DOMAIN recorded}
  /\ UNCHANGED <<raised, sink, flight, testing, ringVars, command, sent, recorded,
                 spoilt>>

Acked(ids) ==
  [i \in DOMAIN recs |->
     [recs[i] EXCEPT !.acked = (recs[i].acked \/ recs[i].id \in ids)]]

Acknowledge(ids) ==
  /\ Acked(ids) # recs
  /\ recs' = Acked(ids)
  /\ \E i \in DOMAIN recs : Save1(recs', recs[i].alert)
  /\ UNCHANGED <<raised, sink, flight, testing, lastID, command, sent, client, shown,
                 recorded>>

\* Ring.Ack: an ID the ring does not hold refuses all of them.
Ack(ids) ==
  /\ ids # {} /\ \A id \in ids : id <= client
  /\ ids \subseteq {recs[i].id : i \in DOMAIN recs}
  /\ Acknowledge(ids)

\* Mutant: "all" acknowledges what is in the ring when the click arrives.
UpToLast == 1..lastID

UpTo == 1..client

AckUpTo == client > 0 /\ Acknowledge(UpTo)

LoadedID == LargestID(Newest(file, RingSize))

\* The daemon ends and starts: deliveries under way are lost, the ring is read.
HistRestart ==
  /\ flight' = {} /\ testing' = 0
  /\ recs' = Newest(file, RingSize)
  /\ lastID' = LoadedID
  /\ UNCHANGED <<raised, sink, file, command, sent, client, shown, recorded, spoilt>>

\* newAlerter: the command reads the file when there is one ...
CommandLoads ==
  /\ command = <<>> /\ sent < MaxCommand /\ file # <<>>
  /\ command' = <<Newest(file, RingSize)>>
  /\ UNCHANGED <<raised, sink, flight, testing, ringVars, sent, client, shown,
                 recorded, spoilt>>

\* ... and writes it with its own record after the delivery.
CommandRecords ==
  /\ command # <<>> /\ raised < MaxAlerts
  /\ raised' = raised + 1
  /\ Save1(Newest(Append(command[1],
                         [id |-> LargestID(command[1]) + 1, alert |-> raised',
                          acked |-> FALSE]), RingSize), raised')
  /\ command' = <<>> /\ sent' = sent + 1
  /\ recorded' = Append(recorded, raised')
  /\ UNCHANGED <<sink, flight, testing, recs, lastID, client, shown>>

HistNext ==
  \/ Deliver1 \/ Test \/ ShowRecent \/ AckUpTo \/ HistRestart
  \/ \E t \in Transports : SetSink(t)
  \/ \E d \in flight : Record(d) \/ SinkPanics(d)
  \/ \E ids \in SUBSET (1..MaxAlerts) : Ack(ids)
  \/ CommandLoads \/ CommandRecords

HistSpec == HistInit /\ [][HistNext]_histVars

-----------------------------------------------------------------------------
\* AckUpTo: "an alert that arrives between showing the list and the click stays
\* open": over restarts, evictions and deliveries that end late, what is
\* acknowledged had been recorded when the dashboard last showed the list.  Once
\* a save has failed or the alert command has written the file, an ID can stand
\* for two alerts and this no longer holds.
AckedWasShown ==
  spoilt = {} /\ sent = 0 =>
    \A i \in DOMAIN recs : recs[i].acked => recs[i].alert \in shown

\* newAlerter: "The delivery is also recorded in the state directory's history",
\* Ring: "a restart keeps the history".  What a ring has recorded is in memory or
\* in the file until RingSize newer alerts are.
HistoryKept ==
  \A i \in DOMAIN recorded :
    \/ Len(recorded) - i >= RingSize
    \/ recorded[i] \in AlertsOf(recs) \cup AlertsOf(file) \cup spoilt
=============================================================================
