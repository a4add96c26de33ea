---------------------------- MODULE AuthLimiter ------------------------------
(***************************************************************************)
(* The throttle of failed sign-ins: a table of failure counts per source   *)
(* bucket for passwords and one for API tokens, the count of the attempts  *)
(* of one address that sleep off their delay, and the slots of the         *)
(* password checks.  limiter.mu covers single steps only: an attempt       *)
(* passes busy, takes a slot, is checked, fails and sleeps in steps of its *)
(* own.                                                                    *)
(***************************************************************************)
EXTENDS Integers, FiniteSets

CONSTANTS
  Attempts,         \* requests with a credential that can be under way
  Addresses,
  Presented,        \* Attempts -> the <<address, kind of credential>> it can come with
  Bucket(_),        \* limitKey: the address, or the prefix it shares
  LimitFree, LimitConcurrent, LimitHashConcurrent, LimitEntries,
  LimitReset,       \* ticks of quiet after which a count is forgotten
  MaxFails, MaxLimTime  \* bounds: failures of a bucket, time

ASSUME LimitAssumption ==
  /\ {LimitConcurrent, LimitHashConcurrent, LimitEntries} \subseteq Nat \ {0}
  /\ {LimitFree, LimitReset, MaxFails, MaxLimTime} \subseteq Nat
  /\ IsFiniteSet(Attempts)

CredentialKinds == {"password", "bearer"}

ASSUME PresentedAssumption ==
  Presented \in [Attempts -> SUBSET (Addresses \X CredentialKinds)]

Buckets == {Bucket(a) : a \in Addresses}

VARIABLES
  lnow,
  fails,     \* byIP and bearer: kind -> bucket -> [n, last]
  sleeping,  \* address -> [n, entry]; entry stands for the *sleepers pointer
  attempt    \* Attempts -> where it is

limVars == <<lnow, fails, sleeping, attempt>>

NoTable == [b \in {} |-> 0]
Resting == [at |-> "idle", kind |-> "none", addr |-> "none", entry |-> 0]

LimInit ==
  /\ lnow = 0
  /\ fails = [k \in CredentialKinds |-> NoTable] /\ sleeping = NoTable
  /\ attempt = [a \in Attempts |-> Resting]

LimTick == lnow < MaxLimTime /\ lnow' = lnow + 1 /\ UNCHANGED <<fails, sleeping, attempt>>

Without(f, x) == [y \in DOMAIN f \ {x} |-> f[y]]
With(f, x, v) == [y \in DOMAIN f \cup {x} |-> IF y = x THEN v ELSE f[y]]

Busy(addr) == addr \in DOMAIN sleeping /\ sleeping[addr].n >= LimitConcurrent

\* The password checks under way: each holds a slot of hashSem.
Hashing == {a \in Attempts : attempt[a].at = "hash"}

\* A credential that is presented and passes busy (resolveCaller, login,
\* verifyCurrent, resolveBearer); the refusals with 429 leave no trace.  The check
\* of a token is one sha256 and needs no slot.
Arrive(a, addr, kind) ==
  /\ attempt[a].at = "idle" /\ ~Busy(addr)
  /\ attempt' = [attempt EXCEPT ![a] =
                   [at |-> IF kind = "password" THEN "passed" ELSE "checked",
                    kind |-> kind, addr |-> addr, entry |-> 0]]
  /\ UNCHANGED <<lnow, fails, sleeping>>

\* acquire; without a slot the answer is 429.
Acquire(a) ==
  /\ attempt[a].at = "passed"
  /\ attempt' = [attempt EXCEPT ![a] =
                   IF Cardinality(Hashing) < LimitHashConcurrent
                   THEN [@ EXCEPT !.at = "hash"] ELSE Resting]
  /\ UNCHANGED <<lnow, fails, sleeping>>

\* The slot is given back before the outcome is counted.
Release(a) ==
  /\ attempt[a].at = "hash"
  /\ attempt' = [attempt EXCEPT ![a].at = "checked"]
  /\ UNCHANGED <<lnow, fails, sleeping>>

Recent(f) == lnow - f.last <= LimitReset

\* Mutant: the newest live entry is evicted.
PruneNewest(t) ==
  LET live == {b \in DOMAIN t : Recent(t[b])}
  IN  IF Cardinality(live) < LimitEntries THEN {live}
      ELSE {live \ {b} : b \in {x \in live : \A y \in live : t[y].last <= t[x].last}}

\* pruneLocked: the buckets that stay, once for each choice among equals.
Prune(t) ==
  LET live == {b \in DOMAIN t : Recent(t[b])}
  IN  IF Cardinality(live) < LimitEntries THEN {live}
      ELSE {live \ {b} : b \in {x \in live : \A y \in live : t[x].last <= t[y].last}}

\* failIn: a bucket that is new to a full table makes room first.
Room(t, b) ==
  IF b \notin DOMAIN t /\ Cardinality(DOMAIN t) >= LimitEntries
  THEN Prune(t) ELSE {DOMAIN t}

Count(t, b) == IF b \in DOMAIN t /\ Recent(t[b]) THEN t[b].n + 1 ELSE 1

FreshEntry == CHOOSE e \in 1..Cardinality(Attempts) + 1 :
  /\ \A a \in Attempts : attempt[a].entry # e
  /\ \A x \in DOMAIN sleeping : sleeping[x].entry # e

\* fail and failBearer up to the sleep; delayFor is 0 for the first LimitFree.
Fail(a) ==
  LET kind == attempt[a].kind   addr == attempt[a].addr
      b == Bucket(addr)         n == Count(fails[kind], b)
      s == IF addr \in DOMAIN sleeping THEN sleeping[addr]
           ELSE [n |-> 0, entry |-> FreshEntry]
  IN  /\ attempt[a].at = "checked" /\ n <= MaxFails
      /\ \E keep \in Room(fails[kind], b) :
           fails' = [fails EXCEPT ![kind] =
                       With([x \in keep |-> fails[kind][x]], b, [n |-> n, last |-> lnow])]
      /\ IF n > LimitFree
         THEN /\ sleeping' = With(sleeping, addr, [s EXCEPT !.n = @ + 1])
              /\ attempt' = [attempt EXCEPT ![a].at = "sleep", ![a].entry = s.entry]
         ELSE UNCHANGED sleeping /\ attempt' = [attempt EXCEPT ![a] = Resting]
      /\ UNCHANGED lnow

\* "reset may have removed the entry meanwhile".
Mine(a) ==
  /\ attempt[a].addr \in DOMAIN sleeping
  /\ sleeping[attempt[a].addr].entry = attempt[a].entry

\* Mutant: the last sleeper counts its entry down and leaves it in the map.
WakeLeaves(a) ==
  /\ attempt[a].at = "sleep"
  /\ sleeping' = IF ~Mine(a) THEN sleeping
                 ELSE [sleeping EXCEPT ![attempt[a].addr].n = @ - 1]
  /\ attempt' = [attempt EXCEPT ![a] = Resting]
  /\ UNCHANGED <<lnow, fails>>

\* The end of the delay.
Wake(a) ==
  /\ attempt[a].at = "sleep"
  /\ LET addr == attempt[a].addr IN
       sleeping' = IF ~Mine(a) THEN sleeping
                   ELSE IF sleeping[addr].n <= 1 THEN Without(sleeping, addr)
                   ELSE [sleeping EXCEPT ![addr].n = @ - 1]
  /\ attempt' = [attempt EXCEPT ![a] = Resting]
  /\ UNCHANGED <<lnow, fails>>

\* reset and resetBearer: a token clears nothing a password has earned.
Succeed(a) ==
  LET kind == attempt[a].kind   addr == attempt[a].addr
  IN  /\ attempt[a].at = "checked"
      /\ fails' = [fails EXCEPT ![kind] = Without(@, Bucket(addr))]
      /\ sleeping' = IF kind = "password" THEN Without(sleeping, addr) ELSE sleeping
      /\ attempt' = [attempt EXCEPT ![a] = Resting]
      /\ UNCHANGED lnow

LimNext ==
  \/ LimTick
  \/ \E a \in Attempts :
       \/ \E p \in Presented[a] : Arrive(a, p[1], p[2])
       \/ Acquire(a) \/ Release(a) \/ Fail(a) \/ Wake(a) \/ Succeed(a)

LimSpec == LimInit /\ [][LimNext]_limVars

-----------------------------------------------------------------------------
\* sleepers: "the map holds at most one entry per address with a delayed attempt
\* in flight": an entry counts the attempts that sleep on it and goes with the
\* last of them, also when a success removed the entry of attempts still asleep
\* and later failures made a new one.  A busy address is never busy for good.
SleepersCounted ==
  \A addr \in DOMAIN sleeping :
    /\ sleeping[addr].n > 0
    /\ sleeping[addr].n =
         Cardinality({a \in Attempts : /\ attempt[a].at = "sleep"
                                       /\ attempt[a].addr = addr
                                       /\ attempt[a].entry = sleeping[addr].entry})

\* pruneLocked at the bound of the table: a count that is still running is lost
\* only to a success of its own bucket and kind, or when the table is full of
\* counts that are at least as recent.
OldestGoes ==
  [][\A k \in CredentialKinds : \A b \in DOMAIN fails[k] \ DOMAIN fails'[k] :
       Recent(fails[k][b]) =>
         \/ \E a \in Attempts : /\ attempt[a].kind = k /\ attempt'[a] = Resting
                                /\ Bucket(attempt[a].addr) = b
         \/ /\ Cardinality(DOMAIN fails'[k]) >= LimitEntries
            /\ \A x \in DOMAIN fails'[k] : fails'[k][x].last >= fails[k][b].last]_limVars
=============================================================================
