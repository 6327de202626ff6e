-------------------------- MODULE PageFanoutProofs --------------------------
(***************************************************************************)
(* Theorems about PageFanout for any number of rows, workers and attempts. *)
(* The invariant that carries them says where the goroutines may be while  *)
(* the caller is at a given place (Places), what a cancelled workerCtx, an *)
(* error and a worker that left are evidence of (Causes), and whose hands  *)
(* every offered page is in (Custody).                                     *)
(***************************************************************************)
EXTENDS PageFanout, TLAPS

Holding(w) == at[w] \in {"requesting", "waiting", "answered"}

\* workerCtx is done.
Stopping == parentDone \/ workerDone

Places ==
  /\ result = "none" <=> main # "returned"
  /\ main \in {"first", "rest"} =>
       /\ \A w \in Workers : at[w] = "off"
       /\ feeder = "off" /\ next = 2 /\ ~workerDone /\ firstErr = "none"
  /\ main = "rest" => page[Caller] <= LastPage /\ Len(items) = page[Caller] - 1
  /\ main = "collect" =>
       /\ \A w \in 1..workers : at[w] # "off"
       /\ next <= LastPage + 1
  /\ \A w \in Workers : at[w] # "off" => w <= workers
  /\ \A f \in Fetchers :
       /\ at[f] = "answered" => outcome[f] # "none"
       /\ at[f] = "waiting" => attempt[f] < MaxAttempts

\* Why a fetch or the collector ended with "canceled", and why somebody stopped.
Causes ==
  /\ \A f \in Fetchers : outcome[f] = "canceled" => CtxDone(f)
  /\ workerDone => firstErr # "none" \/ main = "returned"
  /\ firstErr = "canceled" => parentDone
  /\ feeder = "closed" => next > LastPage \/ Stopping
  /\ \A w \in Workers : at[w] = "gone" => feeder = "closed" \/ Stopping

\* While nobody stops the workers, the collector has every page that was offered, or
\* some worker does.
Custody ==
  main = "collect" =>
    \/ Stopping
    \/ \A p \in 2..(next - 1) : p \in pages \/ \E w \in 1..workers : Holding(w) /\ page[w] = p

\* The caller appends page after page, from the first.
InOrder ==
  /\ \A i \in DOMAIN items : items[i] = i
  /\ result = "ok" => LastPage <= Len(items)

IInv == TypeOK /\ Places /\ Causes /\ Custody /\ InOrder /\ RootCause

-----------------------------------------------------------------------------
\* The pages of `count` rows are no more than the rows.
LEMMA PageCountBound ==
  ASSUME NEW count \in Nat, NEW size \in Nat \ {0}
  PROVE  /\ PageCount(count, size) \in 0..count
         /\ size * PageCount(count, size) >= count
<1>. DEFINE q == (count + size - 1) \div size
<1>1. q \in Int /\ size * q <= count + size - 1 /\ count + size - 1 < size * q + size
  OBVIOUS
<1>2. q >= 0
  OBVIOUS
<1>3. q <= count
  <2>1. SUFFICES ASSUME q >= count + 1 PROVE FALSE
    BY <1>1
  <2>2. size * q >= size * (count + 1)
    BY <1>1, <2>1
  <2>3. size * (count + 1) >= count + size
    OBVIOUS
  <2>. QED BY <1>1, <2>2, <2>3
<1>. HIDE DEF q
<1>4. q \in 0..count /\ size * q >= count
  BY <1>1, <1>2, <1>3
<1>. QED BY <1>4 DEF PageCount, q

\* The last page is one that can be asked for.
LEMMA LastPageType == ASSUME TypeOK PROVE LastPage \in 0..MaxRows
<1>1. total \in Nat /\ rows \in Nat \ {0} /\ total <= MaxRows /\ MaxRows \in Nat
  BY FanoutAssumption DEF TypeOK
<1>2. PageCount(total, rows) \in 0..total
  BY <1>1, PageCountBound
<1>. QED BY <1>1, <1>2 DEF LastPage

\* A row that there is lies on a page that there is.
LEMMA PageOfBound ==
  ASSUME TypeOK, NEW r \in 1..total
  PROVE  PageOf(r) \in 1..LastPage
<1>. DEFINE q == (r - 1) \div rows
            n == LastPage
<1>1. total \in Nat /\ rows \in Nat \ {0}
  BY FanoutAssumption DEF TypeOK
<1>2. n \in Nat /\ rows * n >= total
  BY <1>1, PageCountBound DEF LastPage
<1>3. q \in Int /\ q >= 0 /\ rows * q <= r - 1
  BY <1>1
<1>. HIDE DEF q, n
<1>4. q < n
  <2>1. SUFFICES ASSUME q >= n PROVE FALSE
    BY <1>2, <1>3
  <2>2. rows * q >= rows * n
    BY <1>1, <1>2, <1>3, <2>1
  <2>. QED BY <1>1, <1>2, <1>3, <2>2
<1>5. q + 1 \in 1..n
  BY <1>2, <1>3, <1>4
<1>. QED BY <1>5 DEF PageOf, q, n

-----------------------------------------------------------------------------
\* The invariant holds when a request starts.
LEMMA InitIInv == Init => IInv
<1>. SUFFICES ASSUME Init PROVE IInv
  OBVIOUS
<1>. USE FanoutAssumption DEF Init, Fetchers, Workers, Caller, Pages, Errors
<1>1. TypeOK
  <2>1. 1 \in Pages /\ 2 \in 2..(MaxRows + 1) /\ asked \in 1..MaxRows
    OBVIOUS
  <2>2. requests \in [Pages -> Nat] /\ items \in Seq(Pages) /\ pages \subseteq Pages
    OBVIOUS
  <2>3. at \in [Fetchers -> {"off", "idle", "requesting", "waiting", "answered", "gone"}]
    OBVIOUS
  <2>4. /\ page \in [Fetchers -> Pages] /\ attempt \in [Fetchers -> 1..MaxAttempts]
        /\ outcome \in [Fetchers -> {"none", "ok"} \cup Errors]
    OBVIOUS
  <2>5. total \in 0..MaxRows /\ rows \in 1..MaxRows /\ workers \in 1..MaxWorkers
    OBVIOUS
  <2>6. parentDone \in BOOLEAN /\ workerDone \in BOOLEAN
    OBVIOUS
  <2>. HIDE FanoutAssumption
  <2>. QED BY <2>1, <2>2, <2>3, <2>4, <2>5, <2>6 DEF TypeOK
<1>2. Places
  BY DEF Places
<1>3. Causes
  BY DEF Causes
<1>4. Custody /\ InOrder /\ RootCause
  BY DEF Custody, InOrder, RootCause
<1>. QED BY <1>1, <1>2, <1>3, <1>4 DEF IInv

-----------------------------------------------------------------------------
\* What a step of fetchPage may do: the fetcher's place and outcome, and nothing of
\* anybody else.
LEMMA FetchEffect ==
  ASSUME TypeOK, Places, NEW f \in Fetchers, FetchPage(f)
  PROVE  /\ Holding(f)
         /\ \E place \in {"requesting", "waiting", "answered"} : at' = [at EXCEPT ![f] = place]
         /\ \E how \in {"ok"} \cup Errors \cup {outcome[f]} :
              /\ outcome' = [outcome EXCEPT ![f] = how]
              /\ how = "canceled" /\ outcome[f] # "canceled" => CtxDone(f)
         /\ at'[f] = "answered" => outcome'[f] \in {"ok"} \cup Errors
         /\ \A g \in Fetchers : at'[g] = "waiting" => attempt'[g] < MaxAttempts
         /\ attempt' \in [Fetchers -> 1..MaxAttempts]
         /\ requests' \in [Pages -> Nat]
         /\ UNCHANGED <<page, plan, callVars, feedVars, collected, parentDone>>
<1>. USE FanoutAssumption DEF TypeOK, Places, Holding, held, Answered, RetryOr, Errors
<1>1. CASE Succeed(f) \/ Refuse(f)
  BY <1>1 DEF Succeed, Refuse, FetchPage
<1>2. CASE Fail(f) \/ Interrupt(f)
  BY <1>2 DEF Fail, Interrupt, FetchPage
<1>3. CASE Retry(f)
  BY <1>3 DEF Retry, FetchPage
<1>4. CASE GiveUp(f)
  BY <1>4 DEF GiveUp, FetchPage
<1>. QED BY <1>1, <1>2, <1>3, <1>4 DEF FetchPage

-----------------------------------------------------------------------------
\* What a new fetch leaves of the types.
LEMMA RequestType ==
  ASSUME TypeOK, Places, NEW f \in Fetchers, NEW p \in Pages, Request(f, p)
  PROVE  /\ at' \in [Fetchers -> {"off", "idle", "requesting", "waiting", "answered", "gone"}]
         /\ page' \in [Fetchers -> Pages]
         /\ attempt' \in [Fetchers -> 1..MaxAttempts]
         /\ outcome' \in [Fetchers -> {"none", "ok"} \cup Errors]
         /\ requests' \in [Pages -> Nat]
         /\ at'[f] = "requesting" /\ page'[f] = p /\ outcome'[f] = "none"
         /\ \A g \in Fetchers : at'[g] = "waiting" => attempt'[g] < MaxAttempts
BY FanoutAssumption DEF TypeOK, Places, Request

\* What page 1 says of the size of the answer.
LEMMA FirstPageType ==
  ASSUME TypeOK, ReadFirst
  PROVE  total' \in 0..MaxRows /\ rows' \in 1..MaxRows /\ LastPage' \in 0..MaxRows
<1>1. total' \in 0..MaxRows /\ rows' \in 1..MaxRows
  BY FanoutAssumption DEF TypeOK, ReadFirst
<1>2. PageCount(total', rows') \in 0..total'
  BY <1>1, PageCountBound, FanoutAssumption
<1>. QED BY <1>1, <1>2, FanoutAssumption DEF LastPage

\* Every step keeps the types,
LEMMA TypeStep == ASSUME TypeOK, Places, Next PROVE TypeOK'
<1>. USE FanoutAssumption DEF TypeOK
<1>1. ASSUME NEW f \in Fetchers, FetchPage(f) PROVE TypeOK'
  <2>1. /\ at' \in [Fetchers -> {"off", "idle", "requesting", "waiting", "answered", "gone"}]
        /\ outcome' \in [Fetchers -> {"none", "ok"} \cup Errors]
        /\ attempt' \in [Fetchers -> 1..MaxAttempts]
        /\ requests' \in [Pages -> Nat]
    <3>1. PICK place \in {"requesting", "waiting", "answered"} : at' = [at EXCEPT ![f] = place]
      BY <1>1, FetchEffect
    <3>2. PICK how \in {"ok"} \cup Errors \cup {outcome[f]} : outcome' = [outcome EXCEPT ![f] = how]
      BY <1>1, FetchEffect
    <3>3. attempt' \in [Fetchers -> 1..MaxAttempts] /\ requests' \in [Pages -> Nat]
      BY <1>1, FetchEffect
    <3>. QED BY <3>1, <3>2, <3>3
  <2>2. UNCHANGED <<page, plan, callVars, feedVars, collected, parentDone>>
    BY <1>1, FetchEffect
  <2>. QED BY <2>1, <2>2 DEF plan, callVars, feedVars, collected
<1>2. CASE ReadFirst
  <2>1. total' \in 0..MaxRows /\ rows' \in 1..MaxRows /\ LastPage' \in 0..MaxRows
    BY <1>2, FirstPageType
  <2>2. 1 \in Pages /\ items' = <<1>> /\ items' \in Seq(Pages)
    BY <1>2 DEF ReadFirst, Pages
  <2>3. /\ main' \in {"returned", "rest", "collect"} /\ feeder' \in {feeder, "offering"}
        /\ result' \in {result, "ok"}
    BY <1>2 DEF ReadFirst, ReturnOk
  <2>4. /\ at' \in [Fetchers -> {"off", "idle", "requesting", "waiting", "answered", "gone"}]
        /\ page' \in [Fetchers -> Pages]
        /\ attempt' \in [Fetchers -> 1..MaxAttempts]
        /\ outcome' \in [Fetchers -> {"none", "ok"} \cup Errors]
        /\ requests' \in [Pages -> Nat]
    <3>1. CASE Request(Caller, 2) /\ LastPage' > 1
      <4>1. 2 \in Pages /\ Caller \in Fetchers
        BY <2>1, <3>1 DEF Pages, Fetchers
      <4>. QED BY <3>1, <4>1, RequestType
    <3>2. CASE /\ UNCHANGED held
               /\ at' \in {at, [f \in Fetchers |-> IF f \in 1..workers THEN "idle" ELSE "off"]}
      BY <3>2 DEF held
    <3>. QED BY <1>2, <3>1, <3>2 DEF ReadFirst, LastPage
  <2>5. UNCHANGED <<workers, asked, next, collected, parentDone>>
    BY <1>2 DEF ReadFirst
  <2>. QED BY <2>1, <2>2, <2>3, <2>4, <2>5 DEF collected
<1>3. CASE ReadNext
  <2>1. page[Caller] \in Pages /\ Caller \in Fetchers
    BY DEF Fetchers
  <2>2. items' \in Seq(Pages)
    BY <1>3, <2>1 DEF ReadNext
  <2>3. /\ main' \in {main, "returned"} /\ result' \in {result, "ok"}
        /\ UNCHANGED <<plan, feedVars, collected, parentDone>>
    BY <1>3 DEF ReadNext, ReturnOk
  <2>4. /\ at' \in [Fetchers -> {"off", "idle", "requesting", "waiting", "answered", "gone"}]
        /\ page' \in [Fetchers -> Pages]
        /\ attempt' \in [Fetchers -> 1..MaxAttempts]
        /\ outcome' \in [Fetchers -> {"none", "ok"} \cup Errors]
        /\ requests' \in [Pages -> Nat]
    <3>1. CASE page[Caller] < LastPage /\ Request(Caller, page[Caller] + 1)
      <4>1. page[Caller] + 1 \in Pages
        BY <2>1, <3>1, LastPageType DEF Pages
      <4>. QED BY <2>1, <3>1, <4>1, RequestType
    <3>2. CASE UNCHANGED <<at, held>>
      BY <3>2 DEF held
    <3>. QED BY <1>3, <3>1, <3>2 DEF ReadNext
  <2>. QED BY <2>2, <2>3, <2>4 DEF plan, feedVars, collected
<1>4. CASE ReturnFetchError
  <2>1. result' \in Errors
    BY <1>4 DEF ReturnFetchError, Places, Fetchers
  <2>. QED BY <1>4, <2>1 DEF ReturnFetchError, plan, held, feedVars, collected
<1>5. CASE CollectEnds
  <2>1. result' \in {"ok", "missing"} \cup Errors /\ main' = "returned" /\ workerDone' = TRUE
    BY <1>5 DEF CollectEnds, Conclude
  <2>2. items' \in Seq(Pages)
    <3>1. LastPage \in Nat /\ 1..LastPage \subseteq Pages
      BY LastPageType DEF Pages
    <3>2. [i \in 1..LastPage |-> i] \in Seq(Pages)
      BY <3>1
    <3>. QED BY <1>5, <3>2 DEF CollectEnds, Conclude
  <2>3. UNCHANGED <<plan, at, held, feedVars, pages, firstErr, parentDone>>
    BY <1>5 DEF CollectEnds, Conclude
  <2>. QED BY <2>1, <2>2, <2>3 DEF plan, held, feedVars
<1>6. CASE FeederStops \/ CancelParent
  BY <1>6 DEF FeederStops, CancelParent, plan, held, callVars, feedVars, collected
<1>7. ASSUME NEW w \in Workers, TakeJob(w) PROVE TypeOK'
  <2>1. next \in Pages /\ next + 1 \in 2..(MaxRows + 1) /\ w \in Fetchers
    BY <1>7, LastPageType, SMTT(30) DEF TakeJob, Pages, Fetchers
  <2>2. /\ at' \in [Fetchers -> {"off", "idle", "requesting", "waiting", "answered", "gone"}]
        /\ page' \in [Fetchers -> Pages]
        /\ attempt' \in [Fetchers -> 1..MaxAttempts]
        /\ outcome' \in [Fetchers -> {"none", "ok"} \cup Errors]
        /\ requests' \in [Pages -> Nat]
    BY <1>7, <2>1, RequestType DEF TakeJob
  <2>3. UNCHANGED <<plan, callVars, feeder, collected, parentDone>> /\ next' = next + 1
    BY <1>7 DEF TakeJob
  <2>. QED BY <2>1, <2>2, <2>3 DEF plan, callVars, collected
<1>8. ASSUME NEW w \in Workers, JobsEnd(w) \/ HandPage(w) \/ AbandonResult(w) PROVE TypeOK'
  BY <1>8, SMTT(30) DEF JobsEnd, HandPage, AbandonResult, plan, held, callVars, feedVars, collected, Fetchers
<1>9. ASSUME NEW w \in Workers, HandError(w) PROVE TypeOK'
  <2>1. firstErr' \in {"none"} \cup Errors
    BY <1>9 DEF HandError, Places, Fetchers
  <2>. QED BY <1>9, <2>1 DEF HandError, plan, held, callVars, feedVars, Fetchers
<1>10. CASE Rest
  BY <1>10 DEF Rest, vars, plan, held, callVars, feedVars, collected
<1>. QED BY <1>1, <1>2, <1>3, <1>4, <1>5, <1>6, <1>7, <1>8, <1>9, <1>10
         DEF Next, CallerStep, WorkerStep, Fetchers

\* every goroutine at a place that fits the others',
LEMMA PlacesStep == ASSUME TypeOK, Places, Next PROVE Places'
<1>. USE DEF Places
<1>1. ASSUME NEW f \in Fetchers, FetchPage(f) PROVE Places'
  <2>1. PICK place \in {"requesting", "waiting", "answered"} : at' = [at EXCEPT ![f] = place]
    BY <1>1, FetchEffect
  <2>2. PICK how \in {"ok"} \cup Errors \cup {outcome[f]} : outcome' = [outcome EXCEPT ![f] = how]
    BY <1>1, FetchEffect
  <2>3. /\ at[f] # "off"
        /\ at'[f] = "answered" => outcome'[f] # "none"
        /\ \A g \in Fetchers : at'[g] = "waiting" => attempt'[g] < MaxAttempts
        /\ UNCHANGED <<page, plan, callVars, feedVars, collected, parentDone>>
    BY <1>1, FetchEffect DEF Holding, Errors
  <2>. QED BY <2>1, <2>2, <2>3 DEF TypeOK, plan, callVars, feedVars, collected, LastPage, Fetchers, Workers
<1>2. CASE ReadFirst
  <2>1. Caller \in Fetchers /\ LastPage' \in 0..MaxRows
    BY <1>2, FirstPageType DEF Fetchers
  <2>2. CASE ReturnOk /\ UNCHANGED <<at, held, feeder>>
    BY <1>2, <2>2 DEF ReadFirst, ReturnOk, held
  <2>3. CASE LastPage' > 1 /\ main' = "rest" /\ Request(Caller, 2) /\ UNCHANGED <<feeder, result>>
    <3>1. 2 \in Pages
      BY <2>1, <2>3, FanoutAssumption DEF Pages
    <3>2. /\ page'[Caller] = 2 /\ Len(items') = 1
          /\ \A g \in Fetchers : at'[g] = "waiting" => attempt'[g] < MaxAttempts
      BY <1>2, <2>1, <2>3, <3>1, RequestType DEF ReadFirst
    <3>3. /\ \A w \in Workers : at'[w] = "off"
          /\ \A f \in Fetchers : at'[f] = "answered" => outcome'[f] # "none"
      BY <1>2, <2>3 DEF ReadFirst, Request, TypeOK, Fetchers, Workers, Caller
    <3>. QED BY <1>2, <2>1, <2>3, <3>2, <3>3, FanoutAssumption DEF ReadFirst, collected
  <2>4. CASE /\ LastPage' > 1 /\ main' = "collect" /\ UNCHANGED <<held, result>>
             /\ at' = [f \in Fetchers |-> IF f \in 1..workers THEN "idle" ELSE "off"]
    <3>1. /\ \A w \in 1..workers : at'[w] = "idle"
          /\ \A f \in Fetchers : at'[f] \in {"idle", "off"}
          /\ \A w \in Workers : at'[w] # "off" => w <= workers
      BY <2>4, FanoutAssumption DEF TypeOK, Fetchers, Workers
    <3>2. next' = 2 /\ next' <= LastPage' + 1
      <4>1. next' = 2
        BY <1>2 DEF ReadFirst
      <4>2. ASSUME NEW n \in 0..MaxRows, n > 1 PROVE 2 <= n + 1
        BY <4>2, FanoutAssumption
      <4>. QED BY <2>1, <2>4, <4>1, <4>2
    <3>3. main = "first" /\ result' = result /\ UNCHANGED <<workers, outcome, attempt>>
      BY <1>2, <2>4 DEF ReadFirst, held
    <3>. QED BY <2>4, <3>1, <3>2, <3>3
  <2>. QED BY <1>2, <2>2, <2>3, <2>4 DEF ReadFirst, LastPage
<1>3. CASE ReadNext
  <2>1. page[Caller] \in Pages /\ Caller \in Fetchers
    BY DEF Fetchers, TypeOK
  <2>2. CASE page[Caller] < LastPage /\ Request(Caller, page[Caller] + 1) /\ UNCHANGED <<main, result>>
    <3>1. page[Caller] + 1 \in Pages
      BY <2>1, <2>2, LastPageType, FanoutAssumption DEF Pages
    <3>2. /\ page'[Caller] = page[Caller] + 1
          /\ \A g \in Fetchers : at'[g] = "waiting" => attempt'[g] < MaxAttempts
      BY <2>1, <2>2, <3>1, RequestType
    <3>3. /\ \A w \in Workers : at'[w] = "off"
          /\ \A f \in Fetchers : at'[f] = "answered" => outcome'[f] # "none"
      BY <1>3, <2>2 DEF ReadNext, Request, TypeOK, Fetchers, Workers, Caller
    <3>4. LastPage' = LastPage /\ page[Caller] + 1 <= LastPage
      BY <1>3, <2>1, <2>2, LastPageType, FanoutAssumption DEF ReadNext, plan, LastPage, Pages
    <3>5. Len(items') = page[Caller]
      <4>1. items \in Seq(Pages) /\ items' = Append(items, page[Caller]) /\ Len(items) = page[Caller] - 1
        BY <1>3, <2>1, <2>2 DEF ReadNext, TypeOK
      <4>. QED BY <2>1, <4>1, FanoutAssumption DEF Pages
    <3>. QED BY <1>3, <2>1, <2>2, <3>2, <3>3, <3>4, <3>5, FanoutAssumption DEF ReadNext, feedVars, collected, Pages
  <2>3. CASE ReturnOk /\ UNCHANGED <<at, held>>
    BY <1>3, <2>3 DEF ReadNext, ReturnOk, held
  <2>. QED BY <1>3, <2>2, <2>3 DEF ReadNext
<1>4. CASE ReturnFetchError \/ CollectEnds
  <2>1. result' # "none" /\ main' = "returned"
    BY <1>4 DEF ReturnFetchError, CollectEnds, Conclude, Fetchers
  <2>2. UNCHANGED <<at, held>>
    BY <1>4 DEF ReturnFetchError, CollectEnds, Conclude
  <2>3. \A w \in Workers : at'[w] # "off" => w <= workers'
    BY <1>4, <2>2 DEF ReturnFetchError, CollectEnds, Conclude, plan
  <2>. QED BY <2>1, <2>2, <2>3 DEF held
<1>5. CASE FeederStops \/ CancelParent
  BY <1>5 DEF FeederStops, CancelParent, plan, held, callVars, feedVars, collected, LastPage
<1>6. ASSUME NEW w \in Workers, TakeJob(w) PROVE Places'
  <2>1. next \in Pages /\ w \in Fetchers
    <3>1. next \in 2..(MaxRows + 1) /\ next <= LastPage /\ LastPage \in 0..MaxRows
      BY <1>6, LastPageType DEF TakeJob, TypeOK
    <3>. QED BY <3>1, FanoutAssumption DEF Pages, Fetchers
  <2>2. /\ \A g \in Fetchers : at'[g] = "waiting" => attempt'[g] < MaxAttempts
        /\ \A v \in Workers : at'[v] = "off" => at[v] = "off"
        /\ \A f \in Fetchers : at'[f] = "answered" => outcome'[f] # "none"
    BY <1>6, <2>1, RequestType DEF TakeJob, Request, TypeOK, Fetchers
  <2>3. /\ feeder = "offering" /\ next' <= LastPage + 1 /\ workers \in Workers
        /\ UNCHANGED <<plan, callVars, feeder, collected, parentDone>>
    BY <1>6, LastPageType, FanoutAssumption DEF TakeJob, TypeOK
  <2>4. w <= workers /\ \A v \in Workers : at'[v] # "off" => at[v] # "off"
    <3>1. at[w] = "idle" /\ at' = [at EXCEPT ![w] = "requesting"]
      BY <1>6 DEF TakeJob, Request
    <3>. QED BY <3>1 DEF TypeOK, Fetchers
  <2>5. UNCHANGED <<main, result, workers, feeder, workerDone, firstErr>> /\ LastPage' = LastPage
    BY <2>3 DEF plan, callVars, collected, LastPage
  <2>6. main # "first" /\ main # "rest" /\ 1..workers \subseteq Workers
    BY <2>3, FanoutAssumption DEF Workers
  <2>. QED BY <2>2, <2>3, <2>4, <2>5, <2>6
<1>7. ASSUME NEW w \in Workers, JobsEnd(w) \/ HandPage(w) \/ HandError(w) \/ AbandonResult(w) PROVE Places'
  <2>1. w \in Fetchers /\ at[w] # "off" /\ UNCHANGED <<plan, held, callVars, feedVars, parentDone>>
    BY <1>7 DEF JobsEnd, HandPage, HandError, AbandonResult, Fetchers, collected
  <2>2. \E place \in {"idle", "gone"} : at' = [at EXCEPT ![w] = place]
    BY <1>7 DEF JobsEnd, HandPage, HandError, AbandonResult
  <2>3. main \in {"first", "rest"} => FALSE
    BY <2>1
  <2>. QED BY <2>1, <2>2, <2>3, FanoutAssumption
           DEF TypeOK, plan, held, callVars, feedVars, LastPage, Fetchers, Workers
<1>8. CASE Rest
  BY <1>8 DEF Rest, vars, plan, held, callVars, feedVars, collected, LastPage
<1>. QED BY <1>1, <1>2, <1>3, <1>4, <1>5, <1>6, <1>7, <1>8
         DEF Next, CallerStep, WorkerStep, Fetchers

\* a cause behind every end,
LEMMA CausesStep == ASSUME TypeOK, Places, Causes, Next PROVE Causes'
<1>. USE DEF Causes, CtxDone, Stopping
<1>1. ASSUME NEW f \in Fetchers, FetchPage(f) PROVE Causes'
  <2>1. PICK place \in {"requesting", "waiting", "answered"} : at' = [at EXCEPT ![f] = place]
    BY <1>1, FetchEffect
  <2>2. PICK how : /\ outcome' = [outcome EXCEPT ![f] = how]
                   /\ how = "canceled" /\ outcome[f] # "canceled" => CtxDone(f)
    BY <1>1, FetchEffect
  <2>3. UNCHANGED <<page, plan, callVars, feedVars, collected, parentDone>>
    BY <1>1, FetchEffect
  <2>4. UNCHANGED <<main, feeder, next, workerDone, firstErr, parentDone>> /\ LastPage' = LastPage
    BY <2>3 DEF plan, callVars, feedVars, collected, LastPage
  <2>. QED BY <2>1, <2>2, <2>4 DEF TypeOK, Fetchers, Workers
<1>2. CASE ReadFirst
  <2>1. \A f \in Fetchers : outcome'[f] \in {outcome[f], "none"}
    BY <1>2 DEF ReadFirst, Request, held, TypeOK
  <2>2. ~workerDone' /\ firstErr' = "none" /\ feeder' # "closed" /\ parentDone' = parentDone
    BY <1>2 DEF ReadFirst, Places, collected
  <2>3. \A w \in Workers : at'[w] # "gone"
    BY <1>2 DEF ReadFirst, Request, Places, TypeOK, Fetchers, Workers
  <2>. QED BY <1>2, <2>1, <2>2, <2>3 DEF ReadFirst, collected
<1>3. CASE ReadNext
  <2>1. \A f \in Fetchers : outcome'[f] \in {outcome[f], "none"}
    BY <1>3 DEF ReadNext, Request, held, TypeOK
  <2>2. /\ ~workerDone' /\ firstErr' = "none" /\ feeder' = "off" /\ parentDone' = parentDone
        /\ workerDone' = workerDone
    BY <1>3 DEF ReadNext, Places, collected, feedVars
  <2>3. \A w \in Workers : at'[w] # "gone"
    BY <1>3, FanoutAssumption DEF ReadNext, Request, Places, TypeOK, Fetchers, Workers, Caller
  <2>. QED BY <2>1, <2>2, <2>3
<1>4. CASE ReturnFetchError
  BY <1>4 DEF ReturnFetchError, plan, held, feedVars, collected, LastPage
<1>5. CASE CollectEnds
  BY <1>5 DEF CollectEnds, Conclude, plan, held, feedVars, LastPage
<1>6. CASE FeederStops \/ CancelParent
  BY <1>6 DEF FeederStops, CancelParent, plan, held, callVars, feedVars, collected, LastPage
<1>7. ASSUME NEW w \in Workers, TakeJob(w) PROVE Causes'
  <2>1. \A f \in Fetchers : outcome'[f] \in {outcome[f], "none"} /\ (at'[f] = "gone" => at[f] = "gone")
    BY <1>7 DEF TakeJob, Request, TypeOK
  <2>2. /\ feeder = "offering"
        /\ UNCHANGED <<plan, callVars, feeder, collected, parentDone>>
    BY <1>7 DEF TakeJob
  <2>3. Workers \subseteq Fetchers
    BY DEF Fetchers
  <2>. QED BY <2>1, <2>2, <2>3 DEF callVars, collected
<1>8. ASSUME NEW w \in Workers, JobsEnd(w) PROVE Causes'
  BY <1>8 DEF JobsEnd, TypeOK, Fetchers, plan, held, callVars, feedVars, collected, LastPage
<1>9. ASSUME NEW w \in Workers, HandPage(w) PROVE Causes'
  BY <1>9 DEF HandPage, TypeOK, Fetchers, plan, held, callVars, feedVars, LastPage
<1>10. ASSUME NEW w \in Workers, HandError(w) PROVE Causes'
  <2>1. w \in Fetchers /\ outcome[w] # "none" /\ main = "collect" /\ workerDone' = TRUE
    BY <1>10 DEF HandError, Places, Fetchers
  <2>2. firstErr' # "none" /\ (firstErr' = "canceled" => parentDone)
    BY <1>10, <2>1 DEF HandError
  <2>3. at' = [at EXCEPT ![w] = "gone"] /\ UNCHANGED <<plan, held, callVars, feedVars, pages, parentDone>>
    BY <1>10 DEF HandError
  <2>. QED BY <2>1, <2>2, <2>3 DEF held, feedVars
<1>11. ASSUME NEW w \in Workers, AbandonResult(w) PROVE Causes'
  BY <1>11 DEF AbandonResult, TypeOK, Fetchers, plan, held, callVars, feedVars, collected, LastPage
<1>12. CASE Rest
  BY <1>12 DEF Rest, vars, plan, held, callVars, feedVars, collected, LastPage
<1>. QED BY <1>1, <1>2, <1>3, <1>4, <1>5, <1>6, <1>7, <1>8, <1>9, <1>10, <1>11, <1>12
         DEF Next, CallerStep, WorkerStep, Fetchers

\* and every page with somebody.
LEMMA CustodyStep == ASSUME TypeOK, Places, Causes, Custody, Next PROVE Custody'
<1>. USE DEF Custody, Stopping
<1>0. \A w \in 1..workers : w \in Workers /\ w \in Fetchers /\ w # Caller
  BY FanoutAssumption DEF TypeOK, Workers, Fetchers, Caller
<1>1. ASSUME NEW f \in Fetchers, FetchPage(f) PROVE Custody'
  <2>1. PICK place \in {"requesting", "waiting", "answered"} : at' = [at EXCEPT ![f] = place]
    BY <1>1, FetchEffect
  <2>2. UNCHANGED <<page, plan, callVars, feedVars, collected, parentDone>>
    BY <1>1, FetchEffect
  <2>3. UNCHANGED <<page, workers, main, next, pages, workerDone, parentDone>>
    BY <2>2 DEF plan, callVars, feedVars, collected
  <2>4. \A w \in 1..workers : Holding(w) => Holding(w)'
    BY <1>0, <2>1 DEF Holding, TypeOK
  <2>. QED BY <2>3, <2>4
<1>2. CASE ReadFirst
  BY <1>2, FanoutAssumption DEF ReadFirst, Places
<1>3. CASE ReadNext \/ ReturnFetchError \/ CollectEnds
  BY <1>3 DEF ReadNext, ReturnOk, ReturnFetchError, CollectEnds, Conclude
<1>4. CASE FeederStops \/ CancelParent \/ Rest
  BY <1>4 DEF FeederStops, CancelParent, Rest, vars, plan, held, callVars, feedVars, collected, Holding
<1>5. ASSUME NEW w \in Workers, TakeJob(w) PROVE Custody'
  <2>1. /\ at[w] = "idle" /\ w \in Fetchers
        /\ at' = [at EXCEPT ![w] = "requesting"] /\ page' = [page EXCEPT ![w] = next]
        /\ next' = next + 1 /\ next \in Nat
        /\ UNCHANGED <<workers, main, pages, workerDone, parentDone>>
    BY <1>5, FanoutAssumption DEF TakeJob, Request, TypeOK, Fetchers, plan, callVars, collected
  <2>2. w \in 1..workers
    BY <2>1, FanoutAssumption DEF Places, TypeOK, Workers
  <2>3. Holding(w)' /\ page'[w] = next
    BY <2>1 DEF Holding, TypeOK
  <2>4. \A v \in 1..workers : Holding(v) => v # w /\ Holding(v)' /\ page'[v] = page[v]
    BY <1>0, <2>1 DEF Holding, TypeOK
  <2>5. \A p \in 2..(next' - 1) : p \in 2..(next - 1) \/ p = next
    BY <2>1
  <2>. QED BY <2>1, <2>2, <2>3, <2>4, <2>5
<1>6. ASSUME NEW w \in Workers, JobsEnd(w) \/ HandPage(w) PROVE Custody'
  <2>1. /\ w \in Fetchers
        /\ \E place \in {"idle", "gone"} : at' = [at EXCEPT ![w] = place]
        /\ Holding(w) => page[w] \in pages'
        /\ pages \subseteq pages'
        /\ UNCHANGED <<page, workers, main, next, workerDone, parentDone>>
    BY <1>6 DEF JobsEnd, HandPage, Fetchers, Holding, plan, held, callVars, feedVars, collected
  <2>2. \A v \in 1..workers : v # w /\ Holding(v) => Holding(v)'
    BY <1>0, <2>1 DEF Holding, TypeOK
  <2>. QED BY <2>1, <2>2
<1>7. ASSUME NEW w \in Workers, HandError(w) PROVE Custody'
  BY <1>7 DEF HandError
<1>8. ASSUME NEW w \in Workers, AbandonResult(w) PROVE Custody'
  <2>1. Stopping
    BY <1>8 DEF AbandonResult, CtxDone
  <2>2. UNCHANGED <<workerDone, parentDone>>
    BY <1>8 DEF AbandonResult, collected
  <2>. QED BY <2>1, <2>2
<1>. QED BY <1>1, <1>2, <1>3, <1>4, <1>5, <1>6, <1>7, <1>8 DEF Next, CallerStep, WorkerStep, Fetchers

\* When the collector concludes without an error and without the caller's cancel,
\* nothing is missing.
LEMMA NothingMissing ==
  ASSUME TypeOK, Places, Causes, Custody, CollectEnds, firstErr = "none", ~parentDone
  PROVE  2..LastPage \subseteq pages
<1>1. main = "collect" /\ AllGone /\ ~workerDone /\ ~Stopping
  BY DEF CollectEnds, Causes, Stopping
<1>2. 1 \in 1..workers /\ 1 \in Workers
  BY FanoutAssumption DEF TypeOK, Workers
<1>3. at[1] = "gone"
  BY <1>1, <1>2 DEF AllGone
<1>4. next > LastPage
  BY <1>1, <1>2, <1>3 DEF Causes
<1>5. \A w \in 1..workers : ~Holding(w)
  BY <1>1 DEF AllGone, Holding
<1>6. 2..(next - 1) \subseteq pages
  BY <1>1, <1>5 DEF Custody
<1>7. LastPage \in Int /\ next \in Int
  BY LastPageType, FanoutAssumption DEF TypeOK
<1>8. 2..LastPage \subseteq 2..(next - 1)
  BY <1>4, <1>7
<1>. QED BY <1>6, <1>8

\* No step returns an interruption of which the caller is not the cause,
LEMMA RootCauseStep ==
  ASSUME TypeOK, Places, Causes, Custody, RootCause, Next
  PROVE  RootCause'
<1>. USE DEF RootCause
<1>1. ASSUME NEW f \in Fetchers, FetchPage(f) PROVE RootCause'
  BY <1>1, FetchEffect DEF callVars
<1>2. CASE ReadFirst \/ ReadNext
  BY <1>2 DEF ReadFirst, ReadNext, ReturnOk
<1>3. CASE ReturnFetchError
  <2>1. outcome[Caller] = "canceled" => parentDone
    BY DEF Causes, CtxDone, Fetchers
  <2>2. outcome[Caller] # "missing"
    BY DEF TypeOK, Errors, Fetchers
  <2>. QED BY <1>3, <2>1, <2>2 DEF ReturnFetchError
<1>4. CASE CollectEnds
  <2>1. firstErr # "missing" /\ (firstErr = "canceled" => parentDone)
    BY DEF TypeOK, Errors, Causes
  <2>2. firstErr = "none" /\ ~(2..LastPage \subseteq pages) => parentDone
    BY <1>4, NothingMissing
  <2>. QED BY <1>4, <2>1, <2>2 DEF CollectEnds, Conclude
<1>5. CASE FeederStops \/ CancelParent \/ Rest
  BY <1>5 DEF FeederStops, CancelParent, Rest, vars, callVars
<1>6. ASSUME NEW w \in Workers, TakeJob(w) \/ JobsEnd(w) \/ HandPage(w) \/ HandError(w) \/ AbandonResult(w)
      PROVE  RootCause'
  BY <1>6 DEF TakeJob, JobsEnd, HandPage, HandError, AbandonResult, callVars
<1>. QED BY <1>1, <1>2, <1>3, <1>4, <1>5, <1>6 DEF Next, CallerStep, WorkerStep, Fetchers

\* or puts rows out of order.
LEMMA InOrderStep ==
  ASSUME TypeOK, Places, InOrder, Next
  PROVE  InOrder'
<1>. USE DEF InOrder
<1>1. ASSUME NEW f \in Fetchers, FetchPage(f) PROVE InOrder'
  <2>1. UNCHANGED <<page, plan, callVars, feedVars, collected, parentDone>>
    BY <1>1, FetchEffect
  <2>. QED BY <2>1 DEF callVars, plan, LastPage
<1>2. CASE ReadFirst
  <2>1. items' = <<1>> /\ (result' = "ok" => LastPage' <= 1)
    BY <1>2 DEF ReadFirst, LastPage, Places
  <2>. QED BY <2>1
<1>3. CASE ReadNext
  <2>1. /\ items \in Seq(Pages) /\ items' = Append(items, page[Caller]) /\ Len(items) = page[Caller] - 1
        /\ page[Caller] \in Nat /\ LastPage' = LastPage
    BY <1>3, FanoutAssumption DEF ReadNext, Places, TypeOK, Fetchers, Pages, plan, LastPage
  <2>2. /\ \A i \in DOMAIN items' : i \in DOMAIN items \/ i = page[Caller]
        /\ \A i \in DOMAIN items : items'[i] = items[i]
        /\ items'[page[Caller]] = page[Caller] /\ Len(items') = page[Caller]
    BY <2>1
  <2>3. result' = "ok" => page[Caller] = LastPage
    BY <1>3 DEF ReadNext, Places
  <2>. QED BY <2>1, <2>2, <2>3
<1>4. CASE ReturnFetchError
  <2>1. outcome[Caller] # "ok"
    BY <1>4 DEF ReturnFetchError
  <2>. QED BY <1>4, <2>1 DEF ReturnFetchError
<1>5. CASE CollectEnds
  <2>1. result # "ok" /\ firstErr # "ok" /\ LastPage' = LastPage /\ LastPage \in Nat
    BY <1>5, LastPageType, FanoutAssumption DEF CollectEnds, Conclude, Places, TypeOK, Errors, plan, LastPage
  <2>2. /\ Len([i \in 1..LastPage |-> i]) = LastPage
        /\ \A i \in DOMAIN [j \in 1..LastPage |-> j] : [j \in 1..LastPage |-> j][i] = i
    BY <2>1
  <2>3. CASE UNCHANGED items /\ result' # "ok"
    BY <2>3
  <2>4. CASE items' = [i \in 1..LastPage |-> i]
    BY <2>1, <2>2, <2>4
  <2>. QED BY <1>5, <2>1, <2>3, <2>4 DEF CollectEnds, Conclude
<1>6. CASE FeederStops \/ CancelParent \/ Rest
  BY <1>6 DEF FeederStops, CancelParent, Rest, vars, callVars, plan, LastPage
<1>7. ASSUME NEW w \in Workers, TakeJob(w) \/ JobsEnd(w) \/ HandPage(w) \/ HandError(w) \/ AbandonResult(w)
      PROVE  InOrder'
  BY <1>7 DEF TakeJob, JobsEnd, HandPage, HandError, AbandonResult, callVars, plan, LastPage
<1>. QED BY <1>1, <1>2, <1>3, <1>4, <1>5, <1>6, <1>7 DEF Next, CallerStep, WorkerStep, Fetchers

-----------------------------------------------------------------------------
\* The invariant holds in every state of a call (fetchAllPriceInfoPages).
THEOREM Invariance == Spec => []IInv
<1>1. IInv /\ [Next]_vars => IInv'
  <2>. SUFFICES ASSUME IInv, [Next]_vars PROVE IInv'
    OBVIOUS
  <2>. USE DEF IInv
  <2>1. CASE Next
    BY <2>1, TypeStep, PlacesStep, CausesStep, CustodyStep, InOrderStep, RootCauseStep
  <2>2. CASE UNCHANGED vars
    BY <2>2 DEF vars, plan, held, callVars, feedVars, collected, TypeOK, Places, Causes, Custody,
       InOrder, RootCause, Holding, Stopping, CtxDone, LastPage
  <2>. QED BY <2>1, <2>2
<1>. QED BY <1>1, InitIInv, PTL DEF Spec

\* Every variable keeps its type; an attempt is never made beyond the last.
THEOREM TypeCorrect == Spec => []TypeOK
<1>1. IInv => TypeOK
  BY DEF IInv
<1>. QED BY <1>1, Invariance, PTL

\* A call that returns without error has every row once and in order: the pages it
\* appended are 1, 2, ... up to at least the last one.
THEOREM RowsOnce == Spec => []EveryRowOnce
<1>1. IInv => EveryRowOnce
  <2>. SUFFICES ASSUME IInv, result = "ok" PROVE
         /\ \A r \in 1..total : \E i \in DOMAIN items : items[i] = PageOf(r)
         /\ \A i, j \in DOMAIN items : i < j => items[i] < items[j]
    BY DEF EveryRowOnce
  <2>1. /\ items \in Seq(Pages) /\ LastPage <= Len(items)
        /\ \A i \in DOMAIN items : items[i] = i
    BY DEF IInv, TypeOK, InOrder
  <2>2. ASSUME NEW r \in 1..total PROVE \E i \in DOMAIN items : items[i] = PageOf(r)
    <3>1. PageOf(r) \in 1..LastPage /\ LastPage \in Int
      BY PageOfBound, LastPageType, FanoutAssumption DEF IInv
    <3>2. PageOf(r) \in DOMAIN items
      BY <2>1, <3>1
    <3>. QED BY <2>1, <3>2
  <2>. QED BY <2>1, <2>2
<1>. QED BY <1>1, Invariance, PTL

\* Unless the caller cancelled, the error it sees is the refusal or the failure of some
\* page: no "context canceled" of a worker that a sibling stopped, no missing page.
THEOREM Cause == Spec => []RootCause
<1>1. IInv => RootCause
  BY DEF IInv
<1>. QED BY <1>1, Invariance, PTL
=============================================================================
