----------------------------- MODULE CertFiles -------------------------------
(***************************************************************************)
(* The certificate manager: the automatic pair key.pem and cert.pem, the   *)
(* uploaded pair custom-key.pem and custom-cert.pem, the [web] tls key of  *)
(* the config file and the certificate the listener serves.  Two processes *)
(* run the same code on the same files: the daemon, and the cert command   *)
(* when it finds no daemon; m.mu orders the requests of one of them.  Each *)
(* file is replaced whole, one after the other, and every write can fail   *)
(* or be the last one before the process is killed; a file that is there   *)
(* may not be readable for once.                                           *)
(*                                                                         *)
(* A key is its number, 0 for no file; a certificate is the key it was     *)
(* signed with, its SANs and the era it was made in: outside that era it   *)
(* has expired or is not valid yet.  The clock goes on and is set back.    *)
(* tls = "off" refuses every operation and is left out.                    *)
(***************************************************************************)
EXTENDS Naturals, FiniteSets

CONSTANTS
  HostSets,           \* the SANs that a listen address and a host name ask for
  HostEdits,          \* bound: the changes of them, pairs of old and new
  MaxCertKeys, MaxEra \* bounds: keys generated or uploaded, eras

ASSUME CertAssumption ==
  /\ IsFiniteSet(HostSets) /\ HostSets # {} /\ {MaxCertKeys, MaxEra} \subseteq Nat
  /\ HostEdits \subseteq HostSets \X HostSets

Procs == {"daemon", "cli"}

VARIABLES
  certKey, cert,     \* key.pem and cert.pem
  customKey, custom, \* custom-key.pem and custom-cert.pem
  cfgTls,            \* [web] tls
  hosts,             \* what tlsHosts says now
  era,               \* the validity period that the clock is in
  certKeys,          \* keys so far
  mgr,               \* Procs -> tlsManager: mode, fallback, hosts; on: it serves
  job,               \* Procs -> the operation under m.mu and its next step
  newKey             \* history: a new key was asked for, or EnsureAuto or Reissue
                     \* found no pair it can keep the key of, and the automatic
                     \* pair has not been whole since

fileVars == <<certKey, cert, customKey, custom>>
certVars == <<fileVars, cfgTls, hosts, era, certKeys, mgr, job, newKey>>

NoCert == [key |-> 0, hosts |-> {}, born |-> 0]
Off == [on |-> FALSE, mode |-> "auto", fallback |-> FALSE, hosts |-> {}]
NoJob == [at |-> "none", kind |-> "none", key |-> 0, born |-> 0,
          prevKey |-> 0, prev |-> NoCert]

CertInit ==
  /\ certKey = 0 /\ cert = NoCert /\ customKey = 0 /\ custom = NoCert
  /\ cfgTls = "auto" /\ hosts \in HostSets /\ era = 0 /\ certKeys = 0
  /\ mgr = [p \in Procs |-> Off] /\ job = [p \in Procs |-> NoJob]
  /\ newKey = TRUE

\* LoadFiles: both files are there and belong together.
Loads(k, c) == k # 0 /\ c.key = k

\* reuseProblem: neither after NotAfter nor before NotBefore.
InPeriod(c) == c.born = era

\* The automatic pair that LoadFiles returns, if it is readable: its key can be kept.
Sound(readable) == readable /\ Loads(certKey, cert) /\ InPeriod(cert)

\* reuseProblem with no reason.
Reusable(readable, want) == Sound(readable) /\ want \subseteq cert.hosts

\* Mutant: a certificate made for new SANs gets a new key.
KeepNever(readable) == 0

\* EnsureAuto: the key that generate is given, 0 for a fresh one.
KeepKey(readable) == IF Sound(readable) THEN certKey ELSE 0

-----------------------------------------------------------------------------
(* Beginning and end of an operation. *)

Free(p) == job[p].at = "none"
Do(p, j) == job' = [job EXCEPT ![p] = j]

\* The operation is over and leaves the manager as m; the command's ends with it.
OperationEnds(p, m) ==
  /\ Do(p, NoJob)
  /\ mgr' = [mgr EXCEPT ![p] = IF p = "daemon" THEN m ELSE Off]
Done(p) == OperationEnds(p, mgr[p])

\* generate with a kept key k, or with a fresh one.
Generates(p, j, k) ==
  /\ \/ k # 0 /\ UNCHANGED certKeys
     \/ k = 0 /\ certKeys < MaxCertKeys /\ certKeys' = certKeys + 1
  /\ Do(p, [j EXCEPT !.at = "key", !.key = IF k # 0 THEN k ELSE certKeys', !.born = era])

\* The manager of a process that starts: the mode and the hosts of the config file.
Started(p) == [Off EXCEPT !.mode = cfgTls, !.hosts = hosts, !.on = p = "daemon"]

\* loadForServe: the configured pair, else the automatic one with the fallback.
StartDaemon ==
  /\ ~mgr["daemon"].on /\ Free("daemon")
  /\ \E own, readable \in BOOLEAN :
       LET m == Started("daemon")
           file == cfgTls = "file" /\ own /\ Loads(customKey, custom)
           auto == [m EXCEPT !.fallback = cfgTls = "file"]
       IN  \/ /\ file /\ mgr' = [mgr EXCEPT !["daemon"] = m]
              /\ UNCHANGED <<job, certKeys, newKey>>
           \/ /\ ~file /\ Reusable(readable, hosts)
              /\ mgr' = [mgr EXCEPT !["daemon"] = auto]
              /\ UNCHANGED <<job, certKeys, newKey>>
           \/ /\ ~file /\ ~Reusable(readable, hosts)
              /\ mgr' = [mgr EXCEPT !["daemon"] = [auto EXCEPT !.on = FALSE]]
              /\ Generates("daemon", [NoJob EXCEPT !.kind = "start"], KeepKey(readable))
              /\ newKey' = (newKey \/ ~Sound(readable))
  /\ UNCHANGED <<fileVars, cfgTls, hosts, era>>

\* A request to the daemon, or certClient.offlineRepair when it does not answer.
Asks(p) ==
  /\ Free(p)
  /\ IF p = "daemon" THEN mgr[p].on ELSE ~mgr["daemon"].on

Manager(p) == IF p = "daemon" THEN mgr[p] ELSE Started(p)

\* Reissue keeps the key of key.pem if there is one that it can read.
ReissueKey(keep, readable) == IF keep /\ readable THEN certKey ELSE 0

RegenerateCert(p, keep) ==
  /\ Asks(p)
  /\ Manager(p).mode = "file" => Manager(p).fallback
  /\ mgr' = [mgr EXCEPT ![p] = Manager(p)]
  /\ \E readable \in BOOLEAN :
       /\ Generates(p, [NoJob EXCEPT !.kind = "regenerate"], ReissueKey(keep, readable))
       /\ newKey' = (newKey \/ ~(keep /\ readable))
  /\ UNCHANGED <<fileVars, cfgTls, hosts, era>>

\* A reset that has its automatic pair goes on with the config.
ResetGoesOn(p) ==
  LET j == [NoJob EXCEPT !.kind = "reset"] IN Do(p, [j EXCEPT !.at = "mode"])

\* ResetAuto: EnsureAuto, then the config.
ResetAuto(p) ==
  /\ Asks(p)
  /\ mgr' = [mgr EXCEPT ![p] = Manager(p)]
  /\ \E readable \in BOOLEAN :
       \/ /\ Reusable(readable, Manager(p).hosts) /\ ResetGoesOn(p)
          /\ UNCHANGED <<certKeys, newKey>>
       \/ /\ ~Reusable(readable, Manager(p).hosts)
          /\ Generates(p, [NoJob EXCEPT !.kind = "reset"], KeepKey(readable))
          /\ newKey' = (newKey \/ ~Sound(readable))
  /\ UNCHANGED <<fileVars, cfgTls, hosts, era>>

\* Upload of a pair that ValidatePair accepts; the pair before is remembered,
\* a file that cannot be read as one that is not there.
Upload(p) ==
  /\ Asks(p) /\ certKeys < MaxCertKeys /\ certKeys' = certKeys + 1
  /\ mgr' = [mgr EXCEPT ![p] = Manager(p)]
  /\ \E k \in {customKey, 0}, c \in {custom, NoCert} :
       Do(p, [at |-> "customKey", kind |-> "upload", key |-> certKeys', born |-> 0,
              prevKey |-> k, prev |-> c])
  /\ UNCHANGED <<fileVars, cfgTls, hosts, era, newKey>>

-----------------------------------------------------------------------------
(* The steps that write. *)

JobAt(p, step) == job[p].at = step
JobTo(p, step) == Do(p, [job[p] EXCEPT !.at = step])

\* The automatic pair is whole and nobody is about to change its key.
Whole(p, k, c) ==
  /\ Loads(k, c)
  /\ \A q \in Procs \ {p} : ~JobAt(q, "key") /\ ~JobAt(q, "cert")

WriteKey(p) ==
  /\ JobAt(p, "key")
  /\ \/ certKey' = job[p].key /\ JobTo(p, "cert") /\ UNCHANGED mgr
     \/ certKey' = certKey /\ Done(p)
  /\ UNCHANGED <<cert, customKey, custom, cfgTls, hosts, era, certKeys, newKey>>

\* The last step of generate; start and regenerate end with serve.
WriteCert(p) ==
  LET c == [key |-> job[p].key, hosts |-> mgr[p].hosts, born |-> job[p].born]
  IN  /\ JobAt(p, "cert")
      /\ \/ /\ cert' = c /\ newKey' = (newKey /\ ~Whole(p, certKey, c))
            /\ \/ job[p].kind = "reset" /\ ResetGoesOn(p) /\ UNCHANGED mgr
               \/ /\ job[p].kind # "reset"
                  /\ OperationEnds(p, [mgr[p] EXCEPT !.on = TRUE])
         \/ cert' = cert /\ Done(p) /\ UNCHANGED newKey
      /\ UNCHANGED <<certKey, customKey, custom, cfgTls, hosts, era, certKeys>>

WriteCustomKey(p) ==
  /\ JobAt(p, "customKey")
  /\ \/ customKey' = job[p].key /\ JobTo(p, "custom")
     \/ customKey' = customKey /\ JobTo(p, "undoKey")
  /\ UNCHANGED <<certKey, cert, custom, cfgTls, hosts, era, certKeys, mgr, newKey>>

Uploaded(j) == [key |-> j.key, hosts |-> {}, born |-> 0]

WriteCustom(p) ==
  /\ JobAt(p, "custom")
  /\ \/ custom' = Uploaded(job[p]) /\ JobTo(p, "mode")
     \/ custom' = custom /\ JobTo(p, "undoKey")
  /\ UNCHANGED <<certKey, cert, customKey, cfgTls, hosts, era, certKeys, mgr, newKey>>

\* What follows a config that could not be written: an upload is rolled back.
ModeRefused(p) ==
  IF job[p].kind = "upload" THEN JobTo(p, "undoKey") /\ UNCHANGED mgr ELSE Done(p)

\* writeMode, and the swap of the manager when it succeeds.
WriteMode(p) ==
  LET mode == IF job[p].kind = "upload" THEN "file" ELSE "auto"
      m == [mgr[p] EXCEPT !.mode = mode, !.fallback = FALSE]
  IN  /\ JobAt(p, "mode")
      /\ \/ /\ cfgTls' = mode
            /\ \/ mode = "file" /\ OperationEnds(p, m)
               \/ /\ mode = "auto" /\ JobTo(p, "removeCustom")
                  /\ mgr' = [mgr EXCEPT ![p] = m]
         \/ cfgTls' = cfgTls /\ ModeRefused(p)
      /\ UNCHANGED <<fileVars, hosts, era, certKeys, newKey>>

\* rollback: a file that cannot be put back is logged.
UndoKey(p) ==
  /\ JobAt(p, "undoKey") /\ JobTo(p, "undo")
  /\ \/ customKey' = job[p].prevKey
     \/ customKey' = customKey
  /\ UNCHANGED <<certKey, cert, custom, cfgTls, hosts, era, certKeys, mgr, newKey>>

UndoCustom(p) ==
  /\ JobAt(p, "undo") /\ Done(p)
  /\ \/ custom' = job[p].prev
     \/ custom' = custom
  /\ UNCHANGED <<certKey, cert, customKey, cfgTls, hosts, era, certKeys, newKey>>

\* The end of ResetAuto: a file that cannot be removed stays.
RemoveCustom(p) ==
  /\ JobAt(p, "removeCustom") /\ JobTo(p, "removeCustomKey")
  /\ custom' \in {NoCert, custom}
  /\ UNCHANGED <<certKey, cert, customKey, cfgTls, hosts, era, certKeys, mgr, newKey>>

RemoveCustomKey(p) ==
  /\ JobAt(p, "removeCustomKey") /\ Done(p)
  /\ customKey' \in {0, customKey}
  /\ UNCHANGED <<certKey, cert, custom, cfgTls, hosts, era, certKeys, newKey>>

-----------------------------------------------------------------------------
\* The process is stopped or killed, at any step.
Killed(p) ==
  /\ mgr[p] # Off \/ ~Free(p)
  /\ Do(p, NoJob) /\ mgr' = [mgr EXCEPT ![p] = Off]
  /\ UNCHANGED <<fileVars, cfgTls, hosts, era, certKeys, newKey>>

ChangeHosts(h) ==
  /\ <<hosts, h>> \in HostEdits /\ hosts' = h
  /\ UNCHANGED <<fileVars, cfgTls, era, certKeys, mgr, job, newKey>>

\* Time goes on past an expiry, or the clock is set.
SetClock(e) ==
  /\ e # era /\ era' = e
  /\ UNCHANGED <<fileVars, cfgTls, hosts, certKeys, mgr, job, newKey>>

Requested(p) == ResetAuto(p) \/ Upload(p) \/ \E keep \in BOOLEAN : RegenerateCert(p, keep)

TlsRequest == Requested("daemon")
CertCommand == Requested("cli")

CertNext ==
  \/ StartDaemon \/ TlsRequest \/ CertCommand
  \/ \E e \in 0..MaxEra : SetClock(e)
  \/ \E h \in HostSets : ChangeHosts(h)
  \/ \E p \in Procs :
       \/ WriteKey(p) \/ WriteCert(p)
       \/ WriteCustomKey(p) \/ WriteCustom(p) \/ WriteMode(p) \/ UndoKey(p)
       \/ UndoCustom(p) \/ RemoveCustom(p) \/ RemoveCustomKey(p) \/ Killed(p)

CertSpec == CertInit /\ [][CertNext]_certVars

-----------------------------------------------------------------------------
\* EnsureAuto: "a key that stays the same is what lets an imported trust survive
\* a renamed host or a new address": once there is a key it is replaced only after
\* a new one was asked for, or after EnsureAuto or Reissue found the pair missing,
\* unreadable, broken or outside its validity, and then until the pair is whole
\* again: no other SANs, no crash, no failed write and no order of the two processes
\* costs the key otherwise or leaves a pair that the next start finds broken.
TrustKept ==
  [][certKey # 0 /\ certKey' # certKey => newKey]_certVars
=============================================================================
