----------------------------- MODULE WebTokens -------------------------------
(***************************************************************************)
(* The API tokens: the store and its mirror tokens.json, and the limiter   *)
(* that bounds the requests of each token with a bucket.  A key stands for *)
(* sha256 of the secret and for the ID, its first characters.              *)
(***************************************************************************)
EXTENDS Integers, FiniteSets, FiniteSetsExt

CONSTANTS
  TokenNames,
  TokenTTLs,        \* lifetimes in ticks; 0: the token never expires
  TokenMax,
  Rate, Burst,      \* tokenRatePerSec, tokenRateBurst
  RateEntries,      \* tokenRateEntries
  RateIdle,         \* tokenRateIdle
  TokenMirrorFails, \* whether tokens.json may be unwritable
  MaxTokens, MaxTokenTime  \* bounds: tokens minted, time

\* A bucket that is dropped as idle is full again by then (10 minutes at 20 a
\* second against a burst of 40).
ASSUME RateAssumption ==
  /\ {TokenMax, Rate, Burst, RateEntries, RateIdle} \subseteq Nat \ {0}
  /\ RateIdle * Rate >= Burst
  /\ TokenTTLs \subseteq Nat /\ TokenMirrorFails \in BOOLEAN
  /\ {MaxTokens, MaxTokenTime} \subseteq Nat

VARIABLES
  tnow,
  tokens,   \* tokenStore.byKey
  tmirror,  \* tokens.json
  minted,   \* tokens created so far
  bucket,   \* tokenLimiter.by: key -> [level, last]
  surplus,  \* history: requests of each token let through beyond Rate per tick
  evicted   \* history: tokens whose bucket was dropped before it was idle

tokenVars == <<tnow, tokens, tmirror, minted, bucket, surplus, evicted>>

TokenExpired(t) == t.expires # 0 /\ t.expires <= tnow

TokenInit ==
  /\ tnow = 0 /\ minted = 0 /\ tokens = {} /\ tmirror = {}
  /\ bucket = [k \in {} |-> {}] /\ evicted = {}
  /\ surplus = [k \in 1..MaxTokens |-> 0]

TokenTick ==
  /\ tnow < MaxTokenTime /\ tnow' = tnow + 1
  /\ surplus' = [k \in 1..MaxTokens |-> Max({surplus[k] - Rate, 0})]
  /\ UNCHANGED <<tokens, tmirror, minted, bucket, evicted>>

SaveTokens(T) ==
  /\ tokens' = T
  /\ tmirror' = T \/ (TokenMirrorFails /\ tmirror' = tmirror)

\* tokenStore.Create: a name in use and a full store are refused.
AddToken(name, expires) ==
  /\ minted < MaxTokens /\ minted' = minted + 1
  /\ \A t \in tokens : t.name # name
  /\ Cardinality(tokens) < TokenMax
  /\ SaveTokens(tokens \cup {[key |-> minted', name |-> name, expires |-> expires]})
  /\ UNCHANGED <<tnow, bucket, surplus, evicted>>

CreateToken(name, ttl) == AddToken(name, IF ttl = 0 THEN 0 ELSE tnow + ttl)

RevokeToken(t) ==
  /\ t \in tokens /\ SaveTokens(tokens \ {t})
  /\ UNCHANGED <<tnow, minted, bucket, surplus, evicted>>

\* Mutant: a bucket fills without limit while the token is quiet.
RefilledNoMax(b) == b.level + (tnow - b.last) * Rate

\* allow: the refill of a bucket that is known.
Refilled(b) == Min({b.level + (tnow - b.last) * Rate, Burst})

Idles == {k \in DOMAIN bucket : tnow - bucket[k].last > RateIdle}
Oldest(K) == {k \in K : \A q \in K : bucket[k].last <= bucket[q].last}

\* tokenLimiter.pruneLocked: what is left of the table, once for each choice
\* between buckets of the same age.
Pruned ==
  LET rest == DOMAIN bucket \ Idles
  IN  IF Cardinality(DOMAIN bucket) < RateEntries THEN {DOMAIN bucket}
      ELSE IF Cardinality(rest) < RateEntries THEN {rest}
      ELSE {rest \ {k} : k \in Oldest(rest)}

\* The bucket of k after the request; one below 1 refuses it.
Allow(k, keep, level) ==
  /\ bucket' = [q \in keep \cup {k} |->
                  IF q # k THEN bucket[q]
                  ELSE [last |-> tnow, level |-> IF level < 1 THEN level ELSE level - 1]]
  /\ evicted' = evicted \cup (DOMAIN bucket \ (keep \cup Idles))
  /\ surplus' = [q \in DOMAIN surplus |->
                   IF q \in evicted' THEN 0
                   ELSE IF q = k /\ level >= 1 THEN surplus[q] + 1 ELSE surplus[q]]

\* Lookup, which now and then touches the token: LastUsed and a save.
LookupToken(t) ==
  /\ t \in tokens /\ ~TokenExpired(t)
  /\ SaveTokens(tokens) \/ UNCHANGED <<tokens, tmirror>>

\* resolveBearer: Lookup, then allow.
BearerRequest(t) ==
  /\ LookupToken(t)
  /\ \/ /\ t.key \in DOMAIN bucket
        /\ Allow(t.key, DOMAIN bucket, Refilled(bucket[t.key]))
     \/ /\ t.key \notin DOMAIN bucket
        /\ \E keep \in Pruned : Allow(t.key, keep, Burst)
  /\ UNCHANGED <<tnow, minted>>

\* New: the tokens are read, the buckets are gone.  Clients start afresh too:
\* the surplus is that of one life of the daemon.
TokenRestart ==
  /\ tokens' = tmirror /\ bucket' = [k \in {} |-> {}]
  /\ surplus' = [k \in 1..MaxTokens |-> 0]
  /\ evicted' = {}
  /\ UNCHANGED <<tnow, tmirror, minted>>

TokenNext ==
  \/ TokenTick \/ TokenRestart
  \/ \E n \in TokenNames, ttl \in TokenTTLs : CreateToken(n, ttl)
  \/ \E t \in tokens : RevokeToken(t) \/ BearerRequest(t)

TokenSpec == TokenInit /\ [][TokenNext]_tokenVars

-----------------------------------------------------------------------------
\* "A bearer caller is bounded to tokenRatePerSec requests per second sustained
\* with a burst of tokenRateBurst": no stretch of time lets more through, also
\* when idle buckets have been dropped and created again.  Excepted is a token
\* whose bucket was evicted in use because the table was full.
RateHonoured == \A k \in 1..MaxTokens \ evicted : surplus[k] <= Burst
=============================================================================
