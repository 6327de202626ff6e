--------------------------- MODULE KisReadsProofs ---------------------------
(***************************************************************************)
(* Theorems about KisReads for any number of readers, any bucket, back-off *)
(* and life of tokens, and a memory (Window) of any length. The invariant  *)
(* has three parts: who holds tokenMu (Mutex), what a token in hand is     *)
(* still good for (Freshness), and what the bucket and the requests of the *)
(* last ticks add up to (Budget).                                          *)
(***************************************************************************)
EXTENDS KisReads, TLAPS

\* tokenMu has one holder at most, and none once a token was taken.
Mutex ==
  /\ \A r \in Readers : at[r] \in Locked <=> r \in holder
  /\ \A r, q \in Readers : r \in holder /\ q \in holder => r = q
  /\ issued => holder = {}

\* A retry is left when a reader backs off.
Attempts == \A r \in Readers : at[r] = "backoff" => attempt[r] < MaxAttempts

\* The token taken, or about to be written into the cache, was good for longer
\* than the buffer when the client got it.
Freshness ==
  (issued \/ \E r \in Readers : at[r] = "put") /\ adopted <= Buffer => held + adopted > Buffer

\* Whatever has been sent in the last b ticks, the bucket was full at best before
\* the first of it, and has been refilled by a tick's worth a tick since then.
Budget ==
  /\ sent[0] = 0
  /\ \A b \in 1..Window : Level + sent[b] * Period <= Full + b - 1

IInv == TypeOK /\ Mutex /\ Attempts /\ Freshness /\ Budget /\ RateBound

-----------------------------------------------------------------------------
\* The bucket holds at least one token.
LEMMA FullType == Full \in Nat /\ Full >= Period
BY KisAssumption DEF Full

\* The bucket is never below empty nor above full.
LEMMA LevelType ==
  ASSUME tokens \in 0..Full, elapsed \in 0..Full
  PROVE  Level \in 0..Full /\ (Level = Full \/ Level = tokens + elapsed)
BY FullType DEF Level, Least

\* A back-off is a number of ticks.
LEMMA RetryDelayType ==
  ASSUME NEW n \in 1..MaxAttempts
  PROVE  RetryDelay(n) \in Nat
BY KisAssumption, PowersAssumption DEF RetryDelay, Least

\* Members of the types, by name.
LEMMA Members ==
  /\ 1 \in 1..MaxAttempts
  /\ 0 \in 0..Life /\ Life \in 0..Life /\ 0 \in 0..(Buffer + 1)
  /\ 0 \in 0..Full /\ Full \in 0..Full
  /\ 0 \in 0..Window /\ MaxReads \in 0..MaxReads
BY KisAssumption, FullType

\* All places of a reader.
LEMMA PlaceNames ==
  {"off", "lock", "get", "ask", "put", "wait", "sleep", "call", "backoff"} = Places
BY DEF Places, Locked, Reading

-----------------------------------------------------------------------------
\* The invariant holds when a process starts.
LEMMA InitIInv == Init => IInv
<1>. SUFFICES ASSUME Init PROVE IInv
  OBVIOUS
<1>. USE DEF Init
<1>1. TypeOK
  BY Members, PlaceNames DEF TypeOK
<1>2. Mutex /\ Attempts /\ Freshness
  BY DEF Mutex, Attempts, Freshness, Locked
<1>3. Level = Full
  BY FullType DEF Level, Least
<1>4. Budget /\ RateBound
  BY <1>3, KisAssumption, FullType DEF Budget, RateBound
<1>. QED BY <1>1, <1>2, <1>4 DEF IInv

\* Each step keeps every variable in its type.
LEMMA TypeStep == ASSUME TypeOK, Attempts, Next PROVE TypeOK'
<1>. USE Members, PlaceNames DEF TypeOK
<1>1. ASSUME NEW r \in Readers, Begin(r) PROVE TypeOK'
  <2>1. left' \in 0..MaxReads
    BY <1>1, KisAssumption DEF Begin
  <2>. QED BY <1>1, <2>1 DEF Begin, StartsRead, Goes, tokenVars, bucketVars
<1>2. ASSUME NEW r \in Readers, Acquire(r) PROVE TypeOK'
  BY <1>2 DEF Acquire, StartsRead, Goes, bucketVars, readVars
<1>3. ASSUME NEW r \in Readers, Wake(r) \/ Abort(r) PROVE TypeOK'
  BY <1>3 DEF Wake, Abort, Goes, tokenVars, bucketVars, readVars
<1>4. ASSUME NEW r \in Readers, Retry(r) PROVE TypeOK'
  <2>1. attempt[r] + 1 \in 1..MaxAttempts
    BY <1>4, KisAssumption DEF Retry, Attempts
  <2>. QED BY <1>4, <2>1 DEF Retry, Goes, tokenVars, bucketVars
<1>5. ASSUME NEW r \in Readers, GetCached(r) PROVE TypeOK'
  BY <1>5 DEF GetCached, HasToken, StartsRead, Goes, bucketVars, readVars
<1>6. ASSUME NEW r \in Readers, AskToken(r) PROVE TypeOK'
  BY <1>6 DEF AskToken, HasToken, StartsRead, Goes, bucketVars, readVars
<1>7. ASSUME NEW r \in Readers, PutToken(r) PROVE TypeOK'
  BY <1>7 DEF PutToken, HasToken, StartsRead, Goes, bucketVars, readVars
<1>8. ASSUME NEW r \in Readers, Reserve(r) PROVE TypeOK'
  <2>1. Level \in 0..Full /\ Period \in Nat
    BY LevelType, KisAssumption
  <2>2. /\ Level >= Period => Level - Period \in 0..Full
        /\ ~(Level >= Period) => Period - Level \in Nat
    BY <2>1, FullType
  <2>3. ASSUME Sends PROVE sent' \in [0..Window -> Nat]
    BY <2>3, KisAssumption DEF Sends
  <2>4. CASE Level >= Period
    BY <1>8, <2>2, <2>3, <2>4 DEF Reserve, Goes, tokenVars
  <2>5. CASE ~(Level >= Period)
    BY <1>8, <2>1, <2>2, <2>5 DEF Reserve, Goes, tokenVars
  <2>. QED BY <2>4, <2>5
<1>9. ASSUME NEW r \in Readers, Answer(r) PROVE TypeOK'
  <2>1. left' \in 0..MaxReads
    BY <1>9, KisAssumption DEF Answer, readVars
  <2>. QED BY <1>9, <2>1 DEF Answer, StartsRead, Goes, tokenVars, bucketVars, readVars
<1>10. ASSUME NEW r \in Readers, RateLimited(r) PROVE TypeOK'
  <2>1. RetryDelay(attempt[r]) \in Nat
    BY RetryDelayType
  <2>. QED BY <1>10, <2>1 DEF RateLimited, Goes, tokenVars, bucketVars
<1>11. ASSUME OtherPuts PROVE TypeOK'
  BY <1>11, KisAssumption DEF OtherPuts, bucketVars, readVars
<1>12. ASSUME Tick PROVE TypeOK'
  BY <1>12, KisAssumption, FullType DEF Tick, Younger, Older, Least
<1>13. ASSUME Restart PROVE TypeOK'
  BY <1>13 DEF Restart
<1>. QED BY <1>1, <1>2, <1>3, <1>4, <1>5, <1>6, <1>7, <1>8, <1>9, <1>10, <1>11, <1>12, <1>13
         DEF Next, ReaderStep

\* The bucket and the requests change only where a reader takes from the bucket,
\* where time passes, and with the process.
LEMMA BucketUntouched ==
  ASSUME NEW r \in Readers,
         \/ Begin(r) \/ Acquire(r) \/ GetCached(r) \/ AskToken(r) \/ PutToken(r)
         \/ Wake(r) \/ Answer(r) \/ RateLimited(r) \/ Retry(r) \/ Abort(r)
  PROVE  UNCHANGED bucketVars
BY DEF Begin, Acquire, GetCached, AskToken, PutToken, Wake, Answer, RateLimited, Retry, Abort

\* Every step keeps tokenMu with one holder,
LEMMA MutexStep == ASSUME TypeOK, Mutex, Next PROVE Mutex'
<1>. USE DEF Mutex, Locked
<1>1. ASSUME NEW r \in Readers, Begin(r) \/ Reserve(r) \/ Wake(r) \/ Answer(r) \/ RateLimited(r) \/ Retry(r)
      PROVE  Mutex'
  <2>1. /\ at[r] \notin Locked
        /\ \E place \in Places \ Locked : at' = [at EXCEPT ![r] = place]
    BY <1>1 DEF TypeOK, Places, Reading, Begin, Reserve, Wake, Answer, RateLimited, Retry,
       StartsRead, Goes, readVars
  <2>2. UNCHANGED <<holder, issued>>
    BY <1>1 DEF Begin, Reserve, Wake, Answer, RateLimited, Retry, tokenVars
  <2>. QED BY <2>1, <2>2 DEF TypeOK
<1>2. ASSUME NEW r \in Readers, Acquire(r) PROVE Mutex'
  BY <1>2 DEF TypeOK, Acquire, StartsRead, Goes
<1>3. ASSUME NEW r \in Readers, GetCached(r) \/ AskToken(r) \/ PutToken(r) PROVE Mutex'
  BY <1>3 DEF TypeOK, GetCached, AskToken, PutToken, HasToken, StartsRead, Goes
<1>4. ASSUME NEW r \in Readers, Abort(r) PROVE Mutex'
  BY <1>4 DEF TypeOK, Abort, Goes, Reading
<1>5. ASSUME OtherPuts \/ Tick PROVE Mutex'
  BY <1>5 DEF OtherPuts, Tick
<1>6. ASSUME Restart PROVE Mutex'
  BY <1>6 DEF Restart
<1>. QED BY <1>1, <1>2, <1>3, <1>4, <1>5, <1>6 DEF Next, ReaderStep

\* leaves a retry to whoever backs off,
LEMMA AttemptsStep == ASSUME TypeOK, Attempts, Next PROVE Attempts'
<1>. USE DEF Attempts, TypeOK
<1>1. ASSUME NEW r \in Readers, Begin(r) \/ Acquire(r) \/ Wake(r) \/ Retry(r) \/ Abort(r)
      PROVE  Attempts'
  BY <1>1 DEF Begin, Acquire, Wake, Retry, Abort, StartsRead, Goes, readVars
<1>2. ASSUME NEW r \in Readers, GetCached(r) \/ AskToken(r) \/ PutToken(r) PROVE Attempts'
  BY <1>2 DEF GetCached, AskToken, PutToken, HasToken, StartsRead, Goes, readVars
<1>3. ASSUME NEW r \in Readers, Reserve(r) \/ Answer(r) PROVE Attempts'
  BY <1>3 DEF Reserve, Answer, StartsRead, Goes, readVars
<1>4. ASSUME NEW r \in Readers, RateLimited(r) PROVE Attempts'
  BY <1>4, KisAssumption DEF RateLimited, Goes
<1>5. ASSUME OtherPuts \/ Tick \/ Restart PROVE Attempts'
  BY <1>5 DEF OtherPuts, Tick, Restart, readVars
<1>. QED BY <1>1, <1>2, <1>3, <1>4, <1>5 DEF Next, ReaderStep

\* Only with tokenMu does a reader change what Freshness is about.
LEMMA FreshnessStep == ASSUME TypeOK, Mutex, Freshness, Next PROVE Freshness'
<1>. USE DEF TypeOK, Mutex, Freshness, Locked
<1>1. ASSUME NEW r \in Readers, Begin(r) \/ Reserve(r) \/ Wake(r) \/ Answer(r) \/ RateLimited(r) \/ Retry(r)
      PROVE  Freshness'
  <2>1. \E place \in Places \ Locked : at' = [at EXCEPT ![r] = place]
    BY <1>1 DEF Places, Reading, Begin, Reserve, Wake, Answer, RateLimited, Retry,
       StartsRead, Goes, readVars
  <2>2. UNCHANGED <<held, adopted, issued>>
    BY <1>1 DEF Begin, Reserve, Wake, Answer, RateLimited, Retry, tokenVars
  <2>. QED BY <2>1, <2>2
<1>2. ASSUME NEW r \in Readers, Acquire(r) \/ Abort(r) PROVE Freshness'
  BY <1>2 DEF Acquire, Abort, StartsRead, Goes
<1>3. ASSUME NEW r \in Readers, GetCached(r) PROVE Freshness'
  BY <1>3, KisAssumption DEF GetCached, Valid, HasToken, StartsRead, Goes
<1>4. ASSUME NEW r \in Readers, AskToken(r) PROVE Freshness'
  BY <1>4, KisAssumption DEF AskToken
<1>5. ASSUME NEW r \in Readers, PutToken(r) PROVE Freshness'
  BY <1>5 DEF PutToken, HasToken, StartsRead, Goes
<1>6. ASSUME OtherPuts PROVE Freshness'
  BY <1>6 DEF OtherPuts
<1>7. ASSUME Tick PROVE Freshness'
  BY <1>7, KisAssumption DEF Tick, Younger, Older, Least
<1>8. ASSUME Restart PROVE Freshness'
  BY <1>8 DEF Restart
<1>. QED BY <1>1, <1>2, <1>3, <1>4, <1>5, <1>6, <1>7, <1>8 DEF Next, ReaderStep

\* and sends no more than the bucket has (Wait).
LEMMA BudgetStep == ASSUME TypeOK, Budget, RateBound, Next PROVE Budget' /\ RateBound'
<1>1. ASSUME UNCHANGED bucketVars PROVE Budget' /\ RateBound'
  BY <1>1 DEF bucketVars, Budget, RateBound, Level
<1>2. ASSUME NEW r \in Readers, Reserve(r) PROVE Budget' /\ RateBound'
  <2>1. Level \in 0..Full /\ Period \in Nat \ {0} /\ Burst \in Nat /\ sent \in [0..Window -> Nat]
    BY LevelType, KisAssumption DEF TypeOK
  <2>2. Level' = tokens'
    BY <1>2, <2>1, FullType DEF Reserve, Level, Least
  <2>3. CASE ~(Level >= Period)
    <3>1. UNCHANGED sent /\ Level' = Level
      BY <1>2, <2>2, <2>3 DEF Reserve
    <3>. QED BY <3>1 DEF Budget, RateBound
  <2>4. CASE Level >= Period
    <3>1. Sends /\ Level' = Level - Period
      BY <1>2, <2>2, <2>4 DEF Reserve
    <3>2. sent'[0] = 0 /\ \A b \in 1..Window : sent'[b] = sent[b] + 1
      BY <3>1, KisAssumption DEF Sends
    <3>3. \A b \in 1..Window : sent'[b] * Period = sent[b] * Period + Period
      BY <2>1, <3>2
    <3>4. Budget'
      BY <2>1, <3>1, <3>2, <3>3, FullType, KisAssumption DEF Budget
    <3>5. ASSUME NEW a \in 0..Window, NEW b \in 0..Window, a < b
          PROVE  (sent'[b] - sent'[a] - Burst) * Period <= b - a - 1
      <4>1. CASE a > 0
        <5>1. sent'[b] - sent'[a] = sent[b] - sent[a]
          BY <2>1, <3>2, <3>5, <4>1, KisAssumption
        <5>. QED BY <3>5, <5>1 DEF RateBound
      <4>2. CASE a = 0
        <5>1. b \in 1..Window
          BY <3>5, <4>2, KisAssumption
        <5>2. Level' \in 0..Full /\ Level' + sent'[b] * Period <= Full + b - 1
          BY <2>1, <2>4, <3>1, <3>4, <5>1, FullType DEF Budget
        <5>3. sent'[b] * Period <= Burst * Period + b - 1
          BY <2>1, <3>2, <5>1, <5>2, FullType DEF Full
        <5>. QED BY <2>1, <3>2, <4>2, <5>1, <5>3
      <4>. QED BY <4>1, <4>2
    <3>. QED BY <3>4, <3>5 DEF RateBound
  <2>. QED BY <2>3, <2>4
<1>3. ASSUME Tick PROVE Budget' /\ RateBound'
  <2>1. sent'[0] = 0 /\ \A b \in 1..Window : sent'[b] = sent[b - 1]
    BY <1>3, KisAssumption DEF Tick
  <2>2. Level \in 0..Full /\ Level' \in 0..Full /\ Level' <= Level + 1
    BY <1>3, FullType DEF Tick, Level, Older, Least, TypeOK
  <2>3. Period \in Nat /\ Burst \in Nat /\ Burst * Period >= 0 /\ sent \in [0..Window -> Nat]
    BY FullType, KisAssumption DEF TypeOK, Full
  <2>4. ASSUME NEW b \in 1..Window PROVE Level' + sent'[b] * Period <= Full + b - 1
    <3>1. CASE b = 1
      BY <2>1, <2>2, <2>3, <3>1, FullType DEF Budget
    <3>2. CASE b # 1
      <4>1. b - 1 \in 1..Window /\ Level + sent[b - 1] * Period <= Full + (b - 1) - 1
        BY <3>2, KisAssumption DEF Budget
      <4>2. sent[b - 1] * Period \in Int
        BY <2>3, <4>1
      <4>. QED BY <2>1, <2>2, <4>1, <4>2, FullType
    <3>. QED BY <3>1, <3>2
  <2>5. ASSUME NEW a \in 0..Window, NEW b \in 0..Window, a < b
        PROVE  (sent'[b] - sent'[a] - Burst) * Period <= b - a - 1
    <3>1. CASE a > 0
      <4>1. a - 1 \in 0..Window /\ b - 1 \in 0..Window /\ a - 1 < b - 1
        BY <2>5, <3>1, KisAssumption
      <4>2. (sent[b - 1] - sent[a - 1] - Burst) * Period <= (b - 1) - (a - 1) - 1
        BY <4>1 DEF RateBound
      <4>3. sent'[a] = sent[a - 1] /\ sent'[b] = sent[b - 1]
        BY <2>1, <2>5, <3>1, KisAssumption
      <4>. QED BY <4>2, <4>3
    <3>2. CASE a = 0 /\ b = 1
      <4>1. sent'[b] = 0 /\ sent'[a] = 0
        BY <2>1, <3>2, KisAssumption DEF Budget
      <4>. QED BY <2>3, <3>2, <4>1
    <3>3. CASE a = 0 /\ b > 1
      <4>1. b - 1 \in 0..Window /\ 0 < b - 1 /\ 0 \in 0..Window
        BY <2>5, <3>3, KisAssumption
      <4>2. (sent[b - 1] - sent[0] - Burst) * Period <= (b - 1) - 0 - 1
        BY <4>1 DEF RateBound
      <4>3. sent'[a] = sent[0] /\ sent'[b] = sent[b - 1]
        BY <2>1, <3>3, KisAssumption DEF Budget
      <4>4. (sent[b - 1] - sent[0] - Burst) * Period \in Int
        BY <2>3, <4>1
      <4>. QED BY <3>3, <4>2, <4>3, <4>4
    <3>. QED BY <2>5, <3>1, <3>2, <3>3, KisAssumption
  <2>. QED BY <2>1, <2>4, <2>5 DEF Budget, RateBound
<1>4. ASSUME Restart PROVE Budget' /\ RateBound'
  <2>1. Level' = Full /\ sent' = [k \in 0..Window |-> 0]
    BY <1>4, FullType DEF Restart, Level, Least
  <2>2. \A b \in 0..Window : sent'[b] = 0 /\ sent'[b] * Period = 0
    BY <2>1, KisAssumption
  <2>3. (0 - 0 - Burst) * Period <= 0
    BY KisAssumption
  <2>4. Budget'
    BY <2>1, <2>2, KisAssumption, FullType DEF Budget
  <2>5. RateBound'
    BY <2>2, <2>3, KisAssumption DEF RateBound
  <2>. QED BY <2>4, <2>5
<1>5. OtherPuts => UNCHANGED bucketVars
  BY DEF OtherPuts
<1>. QED BY <1>1, <1>2, <1>3, <1>4, <1>5, BucketUntouched DEF Next, ReaderStep

-----------------------------------------------------------------------------
\* The invariant holds in every reachable state.
THEOREM Invariance == Spec => []IInv
<1>1. IInv /\ [Next]_vars => IInv'
  <2>1. ASSUME IInv, Next PROVE IInv'
    BY <2>1, TypeStep, MutexStep, AttemptsStep, FreshnessStep, BudgetStep DEF IInv
  <2>2. ASSUME IInv, UNCHANGED vars PROVE IInv'
    BY <2>2 DEF vars, tokenVars, bucketVars, readVars, IInv, TypeOK, Mutex, Attempts, Freshness,
       Budget, RateBound, Level
  <2>. QED BY <2>1, <2>2
<1>. QED BY <1>1, InitIInv, PTL DEF Spec

\* Every variable keeps its type, for any number of readers.
THEOREM TypeCorrect == Spec => []TypeOK
BY Invariance, PTL DEF IInv

\* Whatever the readers and their retries do, no n + Burst requests of one process
\* are sent within less than n periods (reserveDelay).
THEOREM RateKept == Spec => []RateBound
BY Invariance, PTL DEF IInv

\* However many readers find no token, one of them asks KIS for it and the others
\* take what it was given (ensureAccessToken).
THEOREM OneAsks == Spec => []NoTokenTwice
<1>1. IInv => NoTokenTwice
  BY DEF IInv, Mutex, NoTokenTwice
<1>. QED BY <1>1, Invariance, PTL

\* A token taken from the cache or from KIS is good for the length of the buffer
\* (cachedTokenValidAt).
THEOREM TokenIsFresh == Spec => []FreshToken
<1>1. IInv => FreshToken
  BY KisAssumption DEF IInv, TypeOK, Freshness, FreshToken
<1>. QED BY <1>1, Invariance, PTL
=============================================================================
