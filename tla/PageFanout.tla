----------------------------- MODULE PageFanout -----------------------------
(***************************************************************************)
(* clients/datago-etp fetchAllPriceInfoPages (and its copy in              *)
(* clients/datago-stock-price): all pages of one request. The caller reads *)
(* page 1, which says how many pages there are, and either reads the rest  *)
(* itself or starts a feeder and workers and collects what they send:      *)
(*                                                                         *)
(*   feeder --jobs--> workers --results--> calling goroutine               *)
(*                                                                         *)
(* Every page is fetched by fetchPage, which repeats a request that failed *)
(* for a passing reason. Both channels are unbuffered. A select between a  *)
(* channel and ctx.Done() is two actions.                                  *)
(*                                                                         *)
(* Fetcher 0 is the calling goroutine, the others are the workers.         *)
(***************************************************************************)
EXTENDS Integers, Sequences, FiniteSets

CONSTANTS
  MaxRows,      \* bound: the largest TotalCount the service reports
  MaxWorkers,   \* bound: the largest number of workers
  MaxAttempts   \* retryMaxAttempts, at least 1 (fetchPage)

ASSUME FanoutAssumption ==
  /\ MaxRows \in Nat \ {0}
  /\ MaxWorkers \in Nat \ {0}
  /\ MaxAttempts \in Nat \ {0}

Pages    == 1..MaxRows
Workers  == 1..MaxWorkers
Caller   == 0
Fetchers == {Caller} \cup Workers

VARIABLES
  main,       \* where fetchAllPriceInfoPages is
  workers,    \* the number of workers of the query
  asked,      \* the page size of the query
  total,      \* TotalCount of page 1
  rows,       \* the page size in effect: NumOfRows of page 1, else asked
  at,         \* where each fetcher is
  page,       \* the page in each fetcher's hands
  attempt,    \* which attempt at it this is
  outcome,    \* how fetchPage ended
  feeder,     \* the feeder: "off", "offering", "closed" (jobs)
  next,       \* the page the feeder offers
  parentDone, \* the caller's ctx is cancelled
  workerDone, \* cancel() of workerCtx was called
  items,      \* the pages whose items the caller appended, in that order
  pages,      \* the pages the collector has
  firstErr,   \* the collector's first error
  requests,   \* how many requests went out for each page
  result      \* "none" until the call returns, then "ok" or its error

plan      == <<workers, asked, total, rows>>
held      == <<page, attempt, outcome, requests>>   \* a fetch, but for its place
callVars  == <<main, items, result>>
feedVars  == <<feeder, next>>
collected == <<pages, firstErr, workerDone>>

vars == <<plan, at, held, callVars, feedVars, collected, parentDone>>

Errors == {"refused", "failed", "canceled"}

TypeOK ==
  /\ main \in {"first", "rest", "collect", "returned"}
  /\ workers \in Workers /\ asked \in 1..MaxRows
  /\ total \in 0..MaxRows /\ rows \in 1..MaxRows
  /\ at \in [Fetchers -> {"off", "idle", "requesting", "waiting", "answered", "gone"}]
  /\ page \in [Fetchers -> Pages]
  /\ attempt \in [Fetchers -> 1..MaxAttempts]
  /\ outcome \in [Fetchers -> {"none", "ok"} \cup Errors]
  /\ feeder \in {"off", "offering", "closed"} /\ next \in 2..(MaxRows + 1)
  /\ parentDone \in BOOLEAN /\ workerDone \in BOOLEAN
  /\ items \in Seq(Pages) /\ pages \subseteq Pages
  /\ firstErr \in {"none"} \cup Errors
  /\ requests \in [Pages -> Nat]
  /\ result \in {"none", "ok", "missing"} \cup Errors

-----------------------------------------------------------------------------
\* pageCount: how many pages hold `count` rows.
PageCount(count, size) == (count + size - 1) \div size

LastPage == PageCount(total, rows)

\* The ctx a fetcher's requests and waits observe.
CtxDone(f) == parentDone \/ (f # Caller /\ workerDone)

\* Fetcher f sends the first request for page p.
Request(f, p) ==
  /\ at' = [at EXCEPT ![f] = "requesting"]
  /\ page' = [page EXCEPT ![f] = p]
  /\ attempt' = [attempt EXCEPT ![f] = 1]
  /\ outcome' = [outcome EXCEPT ![f] = "none"]
  /\ requests' = [requests EXCEPT ![p] = @ + 1]

Init ==
  /\ main = "first"
  /\ workers \in Workers /\ asked \in 1..MaxRows
  /\ total = 0 /\ rows = asked
  /\ at = [f \in Fetchers |-> IF f = Caller THEN "requesting" ELSE "off"]
  /\ page = [f \in Fetchers |-> 1]
  /\ attempt = [f \in Fetchers |-> 1]
  /\ outcome = [f \in Fetchers |-> "none"]
  /\ feeder = "off" /\ next = 2
  /\ parentDone = FALSE /\ workerDone = FALSE
  /\ items = <<>> /\ pages = {}
  /\ firstErr = "none"
  /\ requests = [p \in Pages |-> IF p = 1 THEN 1 ELSE 0]
  /\ result = "none"

-----------------------------------------------------------------------------
(* fetchPage: one fetcher, one page                                        *)

\* fetchPage returns.
Answered(f, how) ==
  /\ at' = [at EXCEPT ![f] = "answered"]
  /\ outcome' = [outcome EXCEPT ![f] = how]
  /\ UNCHANGED <<page, attempt, requests>>

\* sleepBeforeRetry begins, if an attempt is left; otherwise fetchPage returns.
RetryOr(f, how) ==
  IF attempt[f] < MaxAttempts
  THEN /\ at' = [at EXCEPT ![f] = "waiting"]
       /\ UNCHANGED held
  ELSE Answered(f, how)

Succeed(f) ==
  /\ at[f] = "requesting"
  /\ Answered(f, "ok")

\* A status that is not worth a retry, a body that cannot be read as an answer
\* or a result code of the service.
Refuse(f) ==
  /\ at[f] = "requesting"
  /\ Answered(f, "refused")

\* A status that is worth a retry or an answer that broke off; or a connection
\* that failed, which is final if the ctx is done by then.
Fail(f) ==
  /\ at[f] = "requesting"
  /\ RetryOr(f, "failed") \/ (CtxDone(f) /\ Answered(f, "failed"))

\* The ctx ends a request. Before the answer's status that is final; while its
\* body is read the client still takes it for a passing failure.
Interrupt(f) ==
  /\ at[f] = "requesting" /\ CtxDone(f)
  /\ Answered(f, "canceled") \/ RetryOr(f, "canceled")

\* The timer of sleepBeforeRetry fires.
Retry(f) ==
  /\ at[f] = "waiting"
  /\ at' = [at EXCEPT ![f] = "requesting"]
  /\ attempt' = [attempt EXCEPT ![f] = @ + 1]
  /\ requests' = [requests EXCEPT ![page[f]] = @ + 1]
  /\ UNCHANGED <<page, outcome>>

\* The ctx ends the wait; the error joins the last failure and the ctx's.
GiveUp(f) ==
  /\ at[f] = "waiting" /\ CtxDone(f)
  /\ Answered(f, "canceled")

FetchPage(f) ==
  /\ Succeed(f) \/ Refuse(f) \/ Fail(f) \/ Interrupt(f) \/ Retry(f) \/ GiveUp(f)
  /\ UNCHANGED <<plan, callVars, feedVars, collected, parentDone>>

-----------------------------------------------------------------------------
(* The calling goroutine                                                   *)

ReturnOk == main' = "returned" /\ result' = "ok"

\* Page 1 is there: return it, fetch page 2, or start feeder and workers.
ReadFirst ==
  /\ main = "first" /\ at[Caller] = "answered" /\ outcome[Caller] = "ok"
  /\ total' \in 0..MaxRows
  /\ \E numOfRows \in 0..asked : rows' = IF numOfRows > 0 THEN numOfRows ELSE asked
  /\ items' = <<1>>
  /\ LET count == PageCount(total', rows') IN
     \/ /\ count <= 1
        /\ ReturnOk
        /\ UNCHANGED <<at, held, feeder>>
     \/ /\ count > 1 /\ workers <= 1
        /\ main' = "rest"
        /\ Request(Caller, 2)
        /\ UNCHANGED <<feeder, result>>
     \/ /\ count > 1 /\ workers > 1
        /\ main' = "collect"
        /\ feeder' = "offering"
        /\ at' = [f \in Fetchers |-> IF f \in 1..workers THEN "idle" ELSE "off"]
        /\ UNCHANGED <<held, result>>
  /\ UNCHANGED <<workers, asked, next, collected, parentDone>>

\* The caller alone: the next page, until the last.
ReadNext ==
  /\ main = "rest" /\ at[Caller] = "answered" /\ outcome[Caller] = "ok"
  /\ items' = Append(items, page[Caller])
  /\ \/ /\ page[Caller] < LastPage
        /\ Request(Caller, page[Caller] + 1)
        /\ UNCHANGED <<main, result>>
     \/ /\ page[Caller] = LastPage
        /\ ReturnOk
        /\ UNCHANGED <<at, held>>
  /\ UNCHANGED <<plan, feedVars, collected, parentDone>>

\* The caller's own fetch failed.
ReturnFetchError ==
  /\ main \in {"first", "rest"} /\ at[Caller] = "answered" /\ outcome[Caller] # "ok"
  /\ main' = "returned" /\ result' = outcome[Caller]
  /\ UNCHANGED <<plan, at, held, items, feedVars, collected, parentDone>>

\* Slip: no error is taken for all pages; a missing one has no items.
ConcludeUnchecked ==
  /\ main' = "returned"
  /\ workerDone' = TRUE
  /\ result' = IF firstErr # "none" THEN firstErr ELSE "ok"
  /\ items' = SelectSeq([i \in 1..LastPage |-> i], LAMBDA p : p \in {1} \cup pages)
  /\ UNCHANGED <<plan, at, held, feedVars, pages, firstErr, parentDone>>

\* An error, a page that nobody brought, or all pages in their order. The return
\* cancels workerCtx.
Conclude ==
  /\ main' = "returned"
  /\ workerDone' = TRUE
  /\ \/ /\ firstErr # "none"
        /\ result' = firstErr
        /\ UNCHANGED items
     \/ /\ firstErr = "none" /\ ~(2..LastPage \subseteq pages)
        /\ result' = "missing"
        /\ UNCHANGED items
     \/ /\ firstErr = "none" /\ 2..LastPage \subseteq pages
        /\ result' = "ok"
        /\ items' = [i \in 1..LastPage |-> i]
  /\ UNCHANGED <<plan, at, held, feedVars, pages, firstErr, parentDone>>

AllGone == \A w \in 1..workers : at[w] = "gone"

\* results is closed, since every worker is gone.
CollectEnds == main = "collect" /\ AllGone /\ Conclude

-----------------------------------------------------------------------------
(* Feeder and workers                                                      *)

\* Slip: the feeder waits for a worker whatever happens.
FeederStopsAtEnd ==
  /\ feeder = "offering"
  /\ next > LastPage
  /\ feeder' = "closed"
  /\ UNCHANGED <<plan, at, held, callVars, next, collected, parentDone>>

\* The feeder has offered every page, or sees workerCtx done, and closes jobs.
FeederStops ==
  /\ feeder = "offering"
  /\ next > LastPage \/ parentDone \/ workerDone
  /\ feeder' = "closed"
  /\ UNCHANGED <<plan, at, held, callVars, next, collected, parentDone>>

\* Worker w takes the page the feeder offers and requests it.
TakeJob(w) ==
  /\ at[w] = "idle"
  /\ feeder = "offering" /\ next <= LastPage
  /\ Request(w, next)
  /\ next' = next + 1
  /\ UNCHANGED <<plan, callVars, feeder, collected, parentDone>>

JobsEnd(w) ==
  /\ at[w] = "idle" /\ feeder = "closed"
  /\ at' = [at EXCEPT ![w] = "gone"]
  /\ UNCHANGED <<plan, held, callVars, feedVars, collected, parentDone>>

\* The collector takes worker w's page, and w asks for another.
HandPage(w) ==
  /\ at[w] = "answered" /\ outcome[w] = "ok" /\ main = "collect"
  /\ pages' = pages \cup {page[w]}
  /\ at' = [at EXCEPT ![w] = "idle"]
  /\ UNCHANGED <<plan, held, callVars, feedVars, firstErr, workerDone, parentDone>>

\* Slip: the last error is reported.
HandErrorLast(w) ==
  /\ at[w] = "answered" /\ outcome[w] # "ok" /\ main = "collect"
  /\ at' = [at EXCEPT ![w] = "gone"]
  /\ firstErr' = outcome[w]
  /\ workerDone' = TRUE
  /\ UNCHANGED <<plan, held, callVars, feedVars, pages, parentDone>>

\* The collector takes worker w's error, keeps the first one and cancels
\* workerCtx; w ends. Nobody can reach the collector between its two steps.
HandError(w) ==
  /\ at[w] = "answered" /\ outcome[w] # "ok" /\ main = "collect"
  /\ at' = [at EXCEPT ![w] = "gone"]
  /\ firstErr' = IF firstErr = "none" THEN outcome[w] ELSE firstErr
  /\ workerDone' = TRUE
  /\ UNCHANGED <<plan, held, callVars, feedVars, pages, parentDone>>

\* workerCtx is done, and w drops what it has.
AbandonResult(w) ==
  /\ at[w] = "answered" /\ w # Caller /\ CtxDone(w)
  /\ at' = [at EXCEPT ![w] = "gone"]
  /\ UNCHANGED <<plan, held, callVars, feedVars, collected, parentDone>>

\* The caller's ctx is cancelled (external, at any time).
CancelParent ==
  /\ ~parentDone
  /\ parentDone' = TRUE
  /\ UNCHANGED <<plan, at, held, callVars, feedVars, collected>>

-----------------------------------------------------------------------------
CallerStep ==
  FetchPage(Caller) \/ ReadFirst \/ ReadNext \/ ReturnFetchError \/ CollectEnds

WorkerStep(w) ==
  FetchPage(w) \/ TakeJob(w) \/ JobsEnd(w) \/ HandPage(w) \/ HandError(w) \/ AbandonResult(w)

Finished ==
  /\ main = "returned"
  /\ feeder # "offering"
  /\ \A w \in Workers : at[w] \in {"off", "gone"}

Rest == Finished /\ UNCHANGED vars

Next ==
  \/ CallerStep
  \/ FeederStops
  \/ \E w \in Workers : WorkerStep(w)
  \/ CancelParent
  \/ Rest

Spec == Init /\ [][Next]_vars

\* Every goroutine that can run does; a request ends, well or badly (the HTTP
\* client has a timeout), and a timer fires. Nobody has to cancel.
FairSpec ==
  /\ Spec
  /\ WF_vars(CallerStep)
  /\ WF_vars(FeederStops)
  /\ \A w \in Workers : WF_vars(WorkerStep(w))

-----------------------------------------------------------------------------
\* The page of row r when the service puts `rows` of them on a page.
PageOf(r) == (r - 1) \div rows + 1

\* A call that returns without error brings every row of the request exactly
\* once and in order, whichever worker brought its page and whoever cancelled
\* (fetchAllPriceInfoPages).
EveryRowOnce ==
  result = "ok" =>
    /\ \A r \in 1..total : \E i \in DOMAIN items : items[i] = PageOf(r)
    /\ \A i, j \in DOMAIN items : i < j => items[i] < items[j]

\* The error a caller sees is never a consequence of the collector's own
\* cancel(): unless the caller cancelled, it is the refusal or failure of some
\* page, not the "context canceled" of a sibling and not the lack of a page
\* that an interrupted sibling dropped (fetchRemainingPriceInfoPages).
RootCause == result \in {"canceled", "missing"} => parentDone

\* Every call returns and its goroutines end: the feeder does not wait for
\* workers that have left, nor a worker for a collector that has.
EveryoneStops == <>[]Finished
=============================================================================
