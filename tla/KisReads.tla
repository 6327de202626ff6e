------------------------------ MODULE KisReads ------------------------------
(***************************************************************************)
(* providers/kis: the reads of one KIS provider by several goroutines, with *)
(* its access token, the token cache that processes share, the limiter all *)
(* reads of the provider pass, and their retries.                          *)
(*                                                                         *)
(* Time is counted in ticks, and only from now on or until now: what is    *)
(* left of a token's life and of a sleep, and how long ago the bucket was  *)
(* refilled and requests were sent. One token of the bucket is Period      *)
(* ticks of refilling, so the bucket holds ticks too. (The code computes   *)
(* in floats and rounds a wait down to nanoseconds; here it is exact.)     *)
(***************************************************************************)
EXTENDS Integers

CONSTANTS
  Readers,     \* goroutines that read
  Period,      \* ticks per read: 1 / ReadRPS
  Burst,       \* reads that may come at once
  MaxAttempts, \* requests per read
  BaseDelay, MaxDelay, Jitter, \* of the back-off between them
  Life,        \* ticks an access token is good for
  Buffer,      \* tokenExpiryBuffer
  MaxReads,    \* bound: reads of one process
  Window       \* bound: ticks for which a request is remembered

ASSUME KisAssumption ==
  /\ Period \in Nat \ {0} /\ Burst \in Nat \ {0} /\ MaxAttempts \in Nat \ {0}
  /\ BaseDelay \in Nat \ {0} /\ MaxDelay \in Nat /\ BaseDelay <= MaxDelay /\ Jitter \in Nat
  /\ Life \in Nat /\ Buffer \in Nat /\ Buffer < Life
  /\ MaxReads \in Nat /\ Window \in Nat \ {0}

\* An arithmetical fact that the provers do not know.
ASSUME PowersAssumption == \A n \in 1..MaxAttempts : 2^(n - 1) \in Nat

VARIABLES
  mode,     \* of the token: "provided" by the configuration, "cached", "uncached"
  cache,    \* what is left of the token in the cache: 0 if it expired or there is none
  held,     \* what is left of the token of the client
  issued,   \* tokenIssued
  holder,   \* who holds tokenMu: one reader or none
  tokens,   \* of the bucket at lastSeen, in ticks
  elapsed,  \* ticks since lastSeen, as far as they can matter
  at, attempt, wake, \* of each reader: where it is, its request, what is left to sleep
  left,     \* reads the process may still begin
  adopted,  \* history: ticks since the client took its token
  sent      \* history: sent[k] is the number of requests sent less than k ticks ago

tokenVars  == <<mode, cache, held, issued, holder, adopted>>
bucketVars == <<tokens, elapsed, sent>>
readVars   == <<attempt, wake, left>>

vars == <<tokenVars, bucketVars, at, readVars>>

Full == Burst * Period
Least(a, b) == IF a < b THEN a ELSE b

\* The places where a reader may be stopped: those of ensureAccessToken in which
\* it holds tokenMu, and those of withReadRetry.
Locked   == {"get", "ask", "put"}
Reading  == {"wait", "sleep", "call", "backoff"}
Places   == {"off", "lock"} \cup Locked \cup Reading

TypeOK ==
  /\ mode \in {"provided", "cached", "uncached"}
  /\ cache \in 0..Life /\ held \in 0..Life /\ adopted \in 0..(Buffer + 1)
  /\ issued \in BOOLEAN
  /\ holder \subseteq Readers
  /\ tokens \in 0..Full /\ elapsed \in 0..Full
  /\ at \in [Readers -> Places]
  /\ attempt \in [Readers -> 1..MaxAttempts]
  /\ wake \in [Readers -> Nat]
  /\ left \in 0..MaxReads
  /\ sent \in [0..Window -> Nat]

Init ==
  /\ mode \in {"provided", "cached", "uncached"}
  /\ cache \in 0..Life /\ held = 0 /\ adopted = 0
  /\ issued = FALSE /\ holder = {}
  /\ tokens = Full /\ elapsed = 0 /\ sent = [k \in 0..Window |-> 0]
  /\ at = [r \in Readers |-> "off"]
  /\ attempt = [r \in Readers |-> 1]
  /\ wake = [r \in Readers |-> 0]
  /\ left = MaxReads

Goes(r, place) == at' = [at EXCEPT ![r] = place]

\* A read of withReadRetry begins with its first attempt.
StartsRead(r) ==
  /\ attempt' = [attempt EXCEPT ![r] = 1]
  /\ Goes(r, "wait")
  /\ UNCHANGED wake

-----------------------------------------------------------------------------
(* The access token: ensureAccessToken                                     *)

\* A call comes in; with a token from the configuration it reads at once.
Begin(r) ==
  /\ at[r] = "off"
  /\ left > 0 /\ left' = left - 1
  /\ IF mode = "provided"
     THEN StartsRead(r)
     ELSE Goes(r, "lock") /\ UNCHANGED <<attempt, wake>>
  /\ UNCHANGED <<tokenVars, bucketVars>>

\* Slip: tokenMu is not taken.
AcquireFree(r) ==
  /\ at[r] = "lock"
  /\ IF issued
     THEN StartsRead(r) /\ UNCHANGED left
     ELSE Goes(r, IF mode = "cached" THEN "get" ELSE "ask") /\ UNCHANGED readVars
  /\ UNCHANGED <<mode, cache, held, issued, adopted, holder, bucketVars>>

\* tokenMu.Lock, and the look at tokenIssued.
Acquire(r) ==
  /\ at[r] = "lock" /\ holder = {}
  /\ IF issued
     THEN StartsRead(r) /\ UNCHANGED <<left, holder>>
     ELSE /\ holder' = {r}
          /\ Goes(r, IF mode = "cached" THEN "get" ELSE "ask")
          /\ UNCHANGED readVars
  /\ UNCHANGED <<mode, cache, held, issued, adopted, bucketVars>>

\* The token is there: tokenIssued, unlock, and on to the read.
HasToken(r) ==
  /\ issued' = TRUE /\ holder' = {}
  /\ StartsRead(r) /\ UNCHANGED left

\* Slip: a cached token is taken until the moment it expires.
ValidUnexpired(life) == life > 0

\* cachedTokenValidAt.
Valid(life) == life > Buffer

\* tokenCache.Get: adopt the cached token, or ask for one.
GetCached(r) ==
  /\ at[r] = "get"
  /\ IF Valid(cache)
     THEN held' = cache /\ adopted' = 0 /\ HasToken(r)
     ELSE Goes(r, "ask") /\ UNCHANGED <<held, adopted, issued, holder, readVars>>
  /\ UNCHANGED <<mode, cache, bucketVars>>

\* client.Token: a token from KIS, which the client has from now on.
AskToken(r) ==
  /\ at[r] = "ask"
  /\ held' = Life /\ adopted' = 0
  /\ IF mode = "cached"
     THEN Goes(r, "put") /\ UNCHANGED <<issued, holder, readVars>>
     ELSE HasToken(r)
  /\ UNCHANGED <<mode, cache, bucketVars>>

\* tokenCache.Put.
PutToken(r) ==
  /\ at[r] = "put"
  /\ cache' = held
  /\ HasToken(r)
  /\ UNCHANGED <<mode, held, adopted, bucketVars>>

\* Another process writes the token it has been given, lately or some time ago.
OtherPuts ==
  /\ mode = "cached"
  /\ cache' \in 1..Life
  /\ UNCHANGED <<mode, held, issued, holder, adopted, bucketVars, at, readVars>>

-----------------------------------------------------------------------------
(* The limiter: Wait and reserveDelay                                      *)

\* The bucket as of now.
Level == Least(Full, tokens + elapsed)

\* A request is sent now.
Sends == sent' = [k \in 0..Window |-> IF k = 0 THEN 0 ELSE sent[k] + 1]

\* Slip: lastSeen stays when the bucket is refilled.
ReserveAgain(r) ==
  /\ at[r] = "wait"
  /\ UNCHANGED elapsed
  /\ IF Level >= Period
     THEN /\ tokens' = Level - Period
          /\ Sends
          /\ Goes(r, "call") /\ UNCHANGED wake
     ELSE /\ tokens' = Level
          /\ wake' = [wake EXCEPT ![r] = Period - Level]
          /\ Goes(r, "sleep") /\ UNCHANGED sent
  /\ UNCHANGED <<tokenVars, attempt, left>>

\* Take a token of the bucket and send the request, or sleep for what is missing.
Reserve(r) ==
  /\ at[r] = "wait"
  /\ elapsed' = 0
  /\ IF Level >= Period
     THEN /\ tokens' = Level - Period
          /\ Sends
          /\ Goes(r, "call") /\ UNCHANGED wake
     ELSE /\ tokens' = Level
          /\ wake' = [wake EXCEPT ![r] = Period - Level]
          /\ Goes(r, "sleep") /\ UNCHANGED sent
  /\ UNCHANGED <<tokenVars, attempt, left>>

\* The sleep is over; the token may be gone to another reader by now.
Wake(r) ==
  /\ at[r] = "sleep" /\ wake[r] = 0
  /\ Goes(r, "wait")
  /\ UNCHANGED <<tokenVars, bucketVars, readVars>>

-----------------------------------------------------------------------------
(* The retries: withReadRetry                                              *)

\* retryDelay.
RetryDelay(n) == Least(BaseDelay * 2^(n - 1), MaxDelay) + Jitter

\* KIS answers. The call returns, or goes on to a second read, as
\* searchInstruments does.
Answer(r) ==
  /\ at[r] = "call"
  /\ \/ Goes(r, "off") /\ UNCHANGED readVars
     \/ left > 0 /\ left' = left - 1 /\ StartsRead(r)
  /\ UNCHANGED <<tokenVars, bucketVars>>

\* KIS refuses: too many requests. Back off, or give up after the last attempt.
RateLimited(r) ==
  /\ at[r] = "call"
  /\ IF attempt[r] = MaxAttempts
     THEN Goes(r, "off") /\ UNCHANGED wake
     ELSE Goes(r, "backoff") /\ wake' = [wake EXCEPT ![r] = RetryDelay(attempt[r])]
  /\ UNCHANGED <<tokenVars, bucketVars, attempt, left>>

\* Slip: the attempt is not counted.
RetryForever(r) ==
  /\ at[r] = "backoff" /\ wake[r] = 0
  /\ Goes(r, "wait")
  /\ UNCHANGED <<tokenVars, bucketVars, readVars>>

\* The next attempt waits for the limiter like the first.
Retry(r) ==
  /\ at[r] = "backoff" /\ wake[r] = 0
  /\ attempt' = [attempt EXCEPT ![r] = @ + 1]
  /\ Goes(r, "wait")
  /\ UNCHANGED <<tokenVars, bucketVars, wake, left>>

\* A call ends early: KIS, or the cache, fails in another way, or the context is
\* cancelled. Only the wait for tokenMu cannot be left.
Abort(r) ==
  /\ at[r] \in Locked \cup Reading
  /\ Goes(r, "off")
  /\ holder' = IF at[r] \in Locked THEN {} ELSE holder
  /\ UNCHANGED <<mode, cache, held, issued, adopted, bucketVars, readVars>>

-----------------------------------------------------------------------------
Older(n, bound) == Least(n + 1, bound)
Younger(n) == IF n = 0 THEN 0 ELSE n - 1

\* Time passes.
Tick ==
  /\ cache' = Younger(cache) /\ held' = Younger(held)
  /\ adopted' = Older(adopted, Buffer + 1)
  /\ elapsed' = Older(elapsed, Full)
  /\ wake' = [r \in Readers |-> Younger(wake[r])]
  /\ sent' = [k \in 0..Window |-> IF k = 0 THEN 0 ELSE sent[k - 1]]
  /\ UNCHANGED <<mode, issued, holder, tokens, at, attempt, left>>

\* The process ends, and another one begins; it finds the cache.
Restart ==
  /\ held' = 0 /\ adopted' = 0 /\ issued' = FALSE /\ holder' = {}
  /\ tokens' = Full /\ elapsed' = 0 /\ sent' = [k \in 0..Window |-> 0]
  /\ at' = [r \in Readers |-> "off"]
  /\ attempt' = [r \in Readers |-> 1]
  /\ wake' = [r \in Readers |-> 0]
  /\ left' = MaxReads
  /\ UNCHANGED <<mode, cache>>

ReaderStep(r) ==
  \/ Acquire(r) \/ GetCached(r) \/ AskToken(r) \/ PutToken(r)
  \/ Reserve(r) \/ Wake(r)
  \/ Answer(r) \/ RateLimited(r) \/ Retry(r)

Next ==
  \/ \E r \in Readers : Begin(r) \/ ReaderStep(r) \/ Abort(r)
  \/ OtherPuts \/ Tick \/ Restart

Spec == Init /\ [][Next]_vars

\* Time passes, and a goroutine that can go on does; KIS and the cache answer.
FairSpec == Spec /\ WF_vars(Tick) /\ \A r \in Readers : WF_vars(ReaderStep(r))

-----------------------------------------------------------------------------
\* Of the requests one process sends, first attempts and retries of all readers
\* together, no n + Burst lie within less than n periods: none passes the limiter
\* on a token another one took, or that was refilled twice (reserveDelay). Those
\* sent in the ticks from a on and before b are sent[b] - sent[a].
RateBound ==
  \A a, b \in 0..Window :
    a < b => (sent[b] - sent[a] - Burst) * Period <= b - a - 1

\* While a reader looks for a token or asks for one, the provider has none yet: no
\* two of them ask KIS, which issues tokens sparingly (ensureAccessToken).
NoTokenTwice ==
  \A r \in Readers : at[r] \in Locked => ~issued

\* For as long as the buffer promises, the token a process has taken is good,
\* wherever it came from (cachedTokenValidAt).
FreshToken == issued /\ adopted <= Buffer => held > 0

\* Every call comes to its end, although others may take the token it slept for
\* and KIS may refuse it (Wait, withReadRetry).
EveryReadEnds == \A r \in Readers : at[r] # "off" ~> at[r] = "off"
=============================================================================
