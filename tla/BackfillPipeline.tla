-------------------------- MODULE BackfillPipeline --------------------------
(***************************************************************************)
(* service/daily collectRange: the page pipeline behind `backfill daily`.  *)
(* The calling goroutine reads page 1, then a writer, a dispatcher and a   *)
(* pool of workers move the other pages to the store:                      *)
(*                                                                         *)
(*   dispatcher --jobs--> workers --chunks--> writer --> daily bar store   *)
(*                                                                         *)
(* jobs and chunks are unbuffered, so sending and receiving are one step   *)
(* of two goroutines. A select between a channel and ctx.Done() is two     *)
(* actions, and both may be enabled. pipelineCtx is a child of the         *)
(* caller's ctx; the writer alone uses the caller's ctx.                   *)
(*                                                                         *)
(* A page stands for its bars. The store's upsert is idempotent, so        *)
(* writing a page again changes nothing.                                   *)
(***************************************************************************)
EXTENDS Integers, FiniteSets

CONSTANTS
  MaxRows,      \* bound: the largest TotalCount a provider reports
  MaxWorkers,   \* the largest --workers (maxBackfillWorkers)
  MaxCalls      \* bound: how often the command is given

ASSUME BackfillAssumption ==
  /\ MaxRows \in Nat \ {0}
  /\ MaxWorkers \in Nat \ {0}
  /\ MaxCalls \in Nat \ {0}

Pages   == 1..MaxRows
Workers == 1..MaxWorkers

VARIABLES
  main,         \* where collectRange is
  workers,      \* the validated worker count of the request
  total,        \* totalPages
  parentDone,   \* the caller's ctx is cancelled
  pipeDone,     \* cancel() of pipelineCtx was called
  disp,         \* the dispatcher goroutine: "off", "offering", "closed" (jobs)
  next,         \* the page the dispatcher offers
  worker,       \* where each worker is
  page,         \* the page in each worker's hands
  chunksClosed, \* close(chunks)
  writer,       \* where writeBackfillChunks is
  wpage,        \* the page in the writer's hands
  summaryErr,   \* summary.err
  tally,        \* how often each page was added to the summary's totals
  fetchErr,     \* the one slot of fetchErrs
  ledger,       \* what the store holds of each page
  result,       \* "none" until collectRange returns, then "ok" or its error
  calls         \* how many calls were made so far

vars == <<main, workers, total, parentDone, pipeDone, disp, next, worker, page,
          chunksClosed, writer, wpage, summaryErr, tally, fetchErr, ledger,
          result, calls>>

mainVars     == <<main, total, result>>
dispVars     == <<disp, next>>
workerVars   == <<worker, page>>
writerVars   == <<writer, wpage, summaryErr, tally>>
requestVars  == <<workers, calls>>

PlacesOK ==
  /\ main \in {"call", "batch", "batchDone", "send", "wait", "drain", "drainFirst", "returned"}
  /\ disp \in {"off", "offering", "closed"}
  /\ writer \in {"off", "receive", "upserting", "failed", "done"}
  /\ worker \in [Workers -> {"off", "idle", "fetching", "sending", "cancelling", "exited"}]

CountersOK ==
  /\ workers \in Workers
  /\ calls \in 1..MaxCalls
  /\ total \in 0..MaxRows
  /\ next \in 2..(MaxRows + 1)
  /\ wpage \in Pages
  /\ page \in [Workers -> Pages]

FlagsOK ==
  /\ parentDone \in BOOLEAN
  /\ pipeDone \in BOOLEAN
  /\ chunksClosed \in BOOLEAN

OutcomesOK ==
  /\ summaryErr \in {"none", "store", "canceled"}
  /\ fetchErr \in {"none", "provider", "canceled"}
  /\ result \in {"none", "ok", "store", "provider", "canceled"}

StoreOK ==
  /\ tally \in [Pages -> Nat]
  /\ ledger \in [Pages -> {"absent", "partial", "stored"}]

TypeOK == PlacesOK /\ CountersOK /\ FlagsOK /\ OutcomesOK /\ StoreOK

Init ==
  /\ main = "call"
  /\ workers \in Workers
  /\ total = 0
  /\ parentDone = FALSE
  /\ pipeDone = FALSE
  /\ disp = "off"
  /\ next = 2
  /\ worker = [w \in Workers |-> "off"]
  /\ page = [w \in Workers |-> 1]
  /\ chunksClosed = FALSE
  /\ writer = "off"
  /\ wpage = 1
  /\ summaryErr = "none"
  /\ tally = [p \in Pages |-> 0]
  /\ fetchErr = "none"
  /\ ledger = [p \in Pages |-> "absent"]
  /\ result = "none"
  /\ calls = 1

-----------------------------------------------------------------------------
\* backfillPageCount: how many pages hold totalCount rows.
BackfillPageCount(totalCount, pageSize, firstPageBars) ==
  IF totalCount <= 0 THEN IF firstPageBars > 0 THEN 1 ELSE 0
  ELSE IF pageSize <= 0 THEN 1
  ELSE (totalCount + pageSize - 1) \div pageSize

\* pipelineCtx.Done() is readable.
CtxDone == pipeDone \/ parentDone

\* The workers collectRange starts: one per remaining page, at most `workers`.
Started(w) == w <= workers /\ w <= total - 1

Gone(w) == worker[w] \in {"off", "exited"}

\* What a failed UpsertDailyBars of page p may leave behind. The SQL store rolls
\* its transaction back, unless only the answer to the commit was lost; the
\* document store keeps the bars it wrote before the error.
AfterFailedUpsert(p) ==
  IF ledger[p] = "stored" THEN {"stored"} ELSE {ledger[p], "partial", "stored"}

Return(r) ==
  /\ main' = "returned"
  /\ result' = r

-----------------------------------------------------------------------------
\* The calling goroutine.

\* BatchFetcher: one request for the whole range, one upsert, no goroutines.
FetchBatch ==
  /\ main = "call"
  /\ main' = "batch"
  /\ total' = 1
  /\ UNCHANGED <<result, requestVars, parentDone, pipeDone, dispVars, workerVars,
                 chunksClosed, writerVars, fetchErr, ledger>>

StoreBatchOk ==
  /\ main = "batch"
  /\ ledger' = [ledger EXCEPT ![1] = "stored"]
  /\ tally' = [tally EXCEPT ![1] = @ + 1]
  /\ main' = "batchDone"
  /\ UNCHANGED <<total, result, requestVars, parentDone, pipeDone, dispVars,
                 workerVars, chunksClosed, writer, wpage, summaryErr, fetchErr>>

ReturnBatch ==
  /\ main = "batchDone"
  /\ Return("ok")
  /\ UNCHANGED <<total, requestVars, parentDone, pipeDone, dispVars, workerVars,
                 chunksClosed, writerVars, fetchErr, ledger>>

StoreBatchFails(e) ==
  /\ main = "batch"
  /\ e = "store" \/ (e = "canceled" /\ parentDone)
  /\ \E h \in AfterFailedUpsert(1) : ledger' = [ledger EXCEPT ![1] = h]
  /\ Return(e)
  /\ UNCHANGED <<total, requestVars, parentDone, pipeDone, dispVars, workerVars,
                 chunksClosed, writerVars, fetchErr>>

\* Page 1 tells how many pages there are; an empty range ends the call.
FetchFirst(totalCount, pageSize, firstPageBars) ==
  /\ main = "call"
  /\ total' = BackfillPageCount(totalCount, pageSize, firstPageBars)
  /\ IF total' = 0
       THEN Return("ok") /\ UNCHANGED writer
       ELSE main' = "send" /\ writer' = "receive" /\ UNCHANGED result
  /\ UNCHANGED <<requestVars, parentDone, pipeDone, dispVars, workerVars,
                 chunksClosed, wpage, summaryErr, tally, fetchErr, ledger>>

\* Routing, or the request for the batch or for page 1, fails.
FetchFails(e) ==
  /\ main = "call"
  /\ e = "provider" \/ (e = "canceled" /\ parentDone)
  /\ Return(e)
  /\ UNCHANGED <<total, requestVars, parentDone, pipeDone, dispVars, workerVars,
                 chunksClosed, writerVars, fetchErr, ledger>>

\* The writer takes page 1; workers and dispatcher are started.
HandFirst ==
  /\ main = "send"
  /\ writer = "receive"
  /\ writer' = "upserting"
  /\ wpage' = 1
  /\ main' = "wait"
  /\ worker' = [w \in Workers |-> IF Started(w) THEN "idle" ELSE "off"]
  /\ disp' = IF total > 1 THEN "offering" ELSE "closed"
  /\ UNCHANGED <<total, result, requestVars, parentDone, pipeDone, next, page,
                 chunksClosed, summaryErr, tally, fetchErr, ledger>>

AbandonFirst ==
  /\ main = "send"
  /\ CtxDone
  /\ chunksClosed' = TRUE
  /\ main' = "drainFirst"
  /\ UNCHANGED <<total, result, requestVars, parentDone, pipeDone, dispVars,
                 workerVars, writerVars, fetchErr, ledger>>

\* Slip: close(chunks) without wg.Wait().
CloseChunksEarly ==
  /\ main = "wait"
  /\ chunksClosed' = TRUE
  /\ main' = "drain"
  /\ UNCHANGED <<total, result, requestVars, parentDone, pipeDone, dispVars,
                 workerVars, writerVars, fetchErr, ledger>>

\* wg.Wait() is over.
CloseChunks ==
  /\ main = "wait"
  /\ \A w \in Workers : Gone(w)
  /\ chunksClosed' = TRUE
  /\ main' = "drain"
  /\ UNCHANGED <<total, result, requestVars, parentDone, pipeDone, dispVars,
                 workerVars, writerVars, fetchErr, ledger>>

\* Slip: the call returns without reading writerDone.
FinishEarly ==
  /\ main \in {"drain", "drainFirst"}
  /\ Return(IF fetchErr # "none" THEN fetchErr ELSE "ok")
  /\ pipeDone' = TRUE
  /\ UNCHANGED <<total, requestVars, parentDone, dispVars, workerVars,
                 chunksClosed, writerVars, fetchErr, ledger>>

\* The summary has arrived. The writer's error goes before a fetch error, and
\* the deferred cancel() runs.
Finish ==
  /\ main \in {"drain", "drainFirst"}
  /\ writer = "done"
  /\ Return(CASE summaryErr # "none"   -> summaryErr
              [] summaryErr = "none" /\ main = "drainFirst" -> "canceled"
              [] summaryErr = "none" /\ main = "drain" ->
                   IF fetchErr # "none" THEN fetchErr ELSE "ok")
  /\ pipeDone' = TRUE
  /\ UNCHANGED <<total, requestVars, parentDone, dispVars, workerVars,
                 chunksClosed, writerVars, fetchErr, ledger>>

-----------------------------------------------------------------------------
\* The dispatcher.

\* jobs <- pageNo, received by worker w.
TakeJob(w) ==
  /\ disp = "offering"
  /\ next <= total
  /\ worker[w] = "idle"
  /\ worker' = [worker EXCEPT ![w] = "fetching"]
  /\ page' = [page EXCEPT ![w] = next]
  /\ next' = next + 1
  /\ UNCHANGED <<mainVars, requestVars, parentDone, pipeDone, disp, chunksClosed,
                 writerVars, fetchErr, ledger>>

\* Every page was handed out, or the pipeline is cancelled: close(jobs).
CloseJobs ==
  /\ disp = "offering"
  /\ next > total \/ CtxDone
  /\ disp' = "closed"
  /\ UNCHANGED <<mainVars, requestVars, parentDone, pipeDone, next, workerVars,
                 chunksClosed, writerVars, fetchErr, ledger>>

-----------------------------------------------------------------------------
\* The workers.

FetchPage(w) ==
  /\ worker[w] = "fetching"
  /\ worker' = [worker EXCEPT ![w] = "sending"]
  /\ UNCHANGED <<mainVars, requestVars, parentDone, pipeDone, dispVars, page,
                 chunksClosed, writerVars, fetchErr, ledger>>

\* Slip: a failed request stops the pipeline without recording its error.
FetchPageFailsUnrecorded(w, e) ==
  /\ worker[w] = "fetching"
  /\ e = "provider" \/ (e = "canceled" /\ CtxDone)
  /\ worker' = [worker EXCEPT ![w] = "cancelling"]
  /\ UNCHANGED <<mainVars, requestVars, parentDone, pipeDone, dispVars, page,
                 chunksClosed, writerVars, fetchErr, ledger>>

\* recordFetchErr keeps the first error and drops the others. A request whose
\* context is done may fail for that reason alone.
FetchPageFails(w, e) ==
  /\ worker[w] = "fetching"
  /\ e = "provider" \/ (e = "canceled" /\ CtxDone)
  /\ fetchErr' = IF fetchErr = "none" THEN e ELSE fetchErr
  /\ worker' = [worker EXCEPT ![w] = "cancelling"]
  /\ UNCHANGED <<mainVars, requestVars, parentDone, pipeDone, dispVars, page,
                 chunksClosed, writerVars, ledger>>

CancelPipeline(w) ==
  /\ worker[w] = "cancelling"
  /\ pipeDone' = TRUE
  /\ worker' = [worker EXCEPT ![w] = "exited"]
  /\ UNCHANGED <<mainVars, requestVars, parentDone, dispVars, page, chunksClosed,
                 writerVars, fetchErr, ledger>>

\* chunks <- page, received by the writer.
HandPage(w) ==
  /\ worker[w] = "sending"
  /\ writer = "receive"
  /\ writer' = "upserting"
  /\ wpage' = page[w]
  /\ worker' = [worker EXCEPT ![w] = "idle"]
  /\ UNCHANGED <<mainVars, requestVars, parentDone, pipeDone, dispVars, page,
                 chunksClosed, summaryErr, tally, fetchErr, ledger>>

AbandonPage(w) ==
  /\ worker[w] = "sending"
  /\ CtxDone
  /\ worker' = [worker EXCEPT ![w] = "exited"]
  /\ UNCHANGED <<mainVars, requestVars, parentDone, pipeDone, dispVars, page,
                 chunksClosed, writerVars, fetchErr, ledger>>

\* range jobs ends.
JobsEnd(w) ==
  /\ worker[w] = "idle"
  /\ disp = "closed"
  /\ worker' = [worker EXCEPT ![w] = "exited"]
  /\ UNCHANGED <<mainVars, requestVars, parentDone, pipeDone, dispVars, page,
                 chunksClosed, writerVars, fetchErr, ledger>>

-----------------------------------------------------------------------------
\* The writer.

UpsertPage ==
  /\ writer = "upserting"
  /\ ledger' = [ledger EXCEPT ![wpage] = "stored"]
  /\ tally' = [tally EXCEPT ![wpage] = @ + 1]
  /\ writer' = "receive"
  /\ UNCHANGED <<mainVars, requestVars, parentDone, pipeDone, dispVars, workerVars,
                 chunksClosed, wpage, summaryErr, fetchErr>>

\* Slip: the writer is given pipelineCtx, so a worker's cancel() fails its upsert.
UpsertPageFailsWithPipeline(e) ==
  /\ writer = "upserting"
  /\ e = "store" \/ (e = "canceled" /\ CtxDone)
  /\ \E h \in AfterFailedUpsert(wpage) : ledger' = [ledger EXCEPT ![wpage] = h]
  /\ summaryErr' = e
  /\ writer' = "failed"
  /\ UNCHANGED <<mainVars, requestVars, parentDone, pipeDone, dispVars, workerVars,
                 chunksClosed, wpage, tally, fetchErr>>

\* Slip: the totals grow before the upsert's error is looked at.
UpsertPageFailsCounted(e) ==
  /\ writer = "upserting"
  /\ e = "store" \/ (e = "canceled" /\ parentDone)
  /\ \E h \in AfterFailedUpsert(wpage) : ledger' = [ledger EXCEPT ![wpage] = h]
  /\ summaryErr' = e
  /\ tally' = [tally EXCEPT ![wpage] = @ + 1]
  /\ writer' = "failed"
  /\ UNCHANGED <<mainVars, requestVars, parentDone, pipeDone, dispVars, workerVars,
                 chunksClosed, wpage, fetchErr>>

UpsertPageFails(e) ==
  /\ writer = "upserting"
  /\ e = "store" \/ (e = "canceled" /\ parentDone)
  /\ \E h \in AfterFailedUpsert(wpage) : ledger' = [ledger EXCEPT ![wpage] = h]
  /\ summaryErr' = e
  /\ writer' = "failed"
  /\ UNCHANGED <<mainVars, requestVars, parentDone, pipeDone, dispVars, workerVars,
                 chunksClosed, wpage, tally, fetchErr>>

\* Slip: the writer gives up without cancel().
WriterLeavesSilently ==
  /\ writer = "failed"
  /\ writer' = "done"
  /\ UNCHANGED <<mainVars, requestVars, parentDone, pipeDone, dispVars, workerVars,
                 chunksClosed, wpage, summaryErr, tally, fetchErr, ledger>>

\* Slip: cancel() without return, the writer keeps reading chunks.
WriterCarriesOn ==
  /\ writer = "failed"
  /\ pipeDone' = TRUE
  /\ writer' = "receive"
  /\ UNCHANGED <<mainVars, requestVars, parentDone, dispVars, workerVars, chunksClosed,
                 wpage, summaryErr, tally, fetchErr, ledger>>

\* cancel(), then the summary is handed over and the writer is gone.
WriterCancels ==
  /\ writer = "failed"
  /\ pipeDone' = TRUE
  /\ writer' = "done"
  /\ UNCHANGED <<mainVars, requestVars, parentDone, dispVars, workerVars, chunksClosed,
                 wpage, summaryErr, tally, fetchErr, ledger>>

ChunksEnd ==
  /\ writer = "receive"
  /\ chunksClosed
  /\ writer' = "done"
  /\ UNCHANGED <<mainVars, requestVars, parentDone, pipeDone, dispVars, workerVars,
                 chunksClosed, wpage, summaryErr, tally, fetchErr, ledger>>

-----------------------------------------------------------------------------
\* The environment.

CancelParent ==
  /\ result = "none"
  /\ ~parentDone
  /\ parentDone' = TRUE
  /\ UNCHANGED <<mainVars, requestVars, pipeDone, dispVars, workerVars, chunksClosed,
                 writerVars, fetchErr, ledger>>

\* The page an UpsertDailyBars is writing right now.
InWriting == IF main = "batch" THEN {1} ELSE IF writer = "upserting" THEN {wpage} ELSE {}

\* The process dies (the CLI handles no signal) or its command ends, and the
\* command is given again: only the store survives, with what an interrupted
\* upsert has left behind.
Restart ==
  /\ calls < MaxCalls
  /\ calls' = calls + 1
  /\ main' = "call" /\ total' = 0 /\ result' = "none"
  /\ workers' \in Workers
  /\ parentDone' = FALSE /\ pipeDone' = FALSE
  /\ disp' = "off" /\ next' = 2
  /\ worker' = [w \in Workers |-> "off"] /\ page' = [w \in Workers |-> 1]
  /\ chunksClosed' = FALSE
  /\ writer' = "off" /\ wpage' = 1 /\ summaryErr' = "none"
  /\ tally' = [p \in Pages |-> 0]
  /\ fetchErr' = "none"
  /\ \/ UNCHANGED ledger
     \/ \E p \in InWriting : \E h \in AfterFailedUpsert(p) :
          ledger' = [ledger EXCEPT ![p] = h]

\* Nothing is left to do in this call.
Finished ==
  /\ result # "none"
  /\ disp # "offering"
  /\ \A w \in Workers : Gone(w)
  /\ writer \in {"off", "done"}

Rest == Finished /\ UNCHANGED vars

-----------------------------------------------------------------------------
MainStep ==
  \/ FetchBatch
  \/ StoreBatchOk
  \/ ReturnBatch
  \/ \E e \in {"store", "canceled"} : StoreBatchFails(e)
  \/ \E t \in 0..MaxRows, s \in 0..MaxRows, b \in 0..1 : FetchFirst(t, s, b)
  \/ \E e \in {"provider", "canceled"} : FetchFails(e)
  \/ HandFirst
  \/ AbandonFirst
  \/ CloseChunks
  \/ Finish

DispatcherStep == CloseJobs \/ \E w \in Workers : TakeJob(w)

WorkerStep(w) ==
  \/ TakeJob(w)
  \/ FetchPage(w)
  \/ \E e \in {"provider", "canceled"} : FetchPageFails(w, e)
  \/ CancelPipeline(w)
  \/ HandPage(w)
  \/ AbandonPage(w)
  \/ JobsEnd(w)

WriterStep ==
  \/ UpsertPage
  \/ \E e \in {"store", "canceled"} : UpsertPageFails(e)
  \/ WriterCancels
  \/ ChunksEnd

Next ==
  \/ MainStep
  \/ CloseJobs
  \/ \E w \in Workers : WorkerStep(w)
  \/ WriterStep
  \/ CancelParent
  \/ Restart
  \/ Rest

Spec == Init /\ [][Next]_vars

\* Go runs every goroutine that can run; requests and upserts end, well or
\* badly. Nobody has to cancel or to repeat the command.
FairSpec ==
  /\ Spec
  /\ WF_vars(MainStep)
  /\ WF_vars(DispatcherStep)
  /\ \A w \in Workers : WF_vars(WorkerStep(w))
  /\ WF_vars(WriterStep)

-----------------------------------------------------------------------------
\* A call that returns without error, and whose context nobody cancelled, has
\* stored every page of the range and counted each exactly once: no page is
\* lost or doubled between dispatcher, workers and writer (collectRange).
CompleteOnSuccess ==
  (result = "ok" /\ ~parentDone) =>
    \A p \in 1..total : ledger[p] = "stored" /\ tally[p] = 1

\* The error a caller sees is the one that stopped the pipeline, never the
\* "context canceled" of another worker that pipelineCtx has merely stopped:
\* errors are recorded before cancel() is called (collectRange).
RootCause == result = "canceled" => parentDone

\* Whatever ends the call, the totals count only pages that are in the store,
\* each once, so the totals never promise more than was saved
\* (writeBackfillChunks; the batch path alone prints its progress before it stores).
SummaryIsDurable ==
  \A p \in Pages : tally[p] <= 1 /\ (tally[p] = 1 => ledger[p] = "stored")

\* chunks is closed once nobody can send on it any more; a send on a closed
\* channel would panic (collectRange).
NoSendAfterClose ==
  chunksClosed =>
    /\ main # "send"
    /\ \A w \in Workers : worker[w] \notin {"idle", "fetching", "sending"}

\* When collectRange has returned only its dispatcher may still be on its way
\* out: no worker requests a page and no writer touches the store behind the
\* caller's back.
QuietAfterReturn ==
  result # "none" =>
    /\ \A w \in Workers : Gone(w)
    /\ writer \in {"off", "done"}

\* What the caller knows, or will be told because a write has already failed.
Outcome ==
  IF result # "none" THEN result ELSE IF summaryErr # "none" THEN "failing" ELSE "open"

Promise ==
  INSTANCE BackfillPromise WITH
    MaxPages <- MaxRows, cancelled <- parentDone, outcome <- Outcome

\* The pipeline keeps the promise of BackfillPromise: among others, no page is
\* written after the first failed write and none after the call has returned.
KeepsPromise == Promise!Spec

\* Every call returns and every goroutine it started ends: nobody waits for
\* ever on jobs, on chunks, on wg or on writerDone.
EveryoneStops == <>[]Finished
=============================================================================
